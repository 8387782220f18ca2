-------------------------- MODULE MutualExclusive --------------------------
(***************************************************************************)
(* Preparation/MutualExclusive.c: two processes that call enter_region and *)
(* leave_region for ever.  turn and interested are plain ints, so a store  *)
(* may stay in its processor's store buffer while later loads of the same  *)
(* process are done; the process itself sees its own pending stores.  A    *)
(* store may reach memory at once if none is pending, and must if          *)
(* MaxPending = 0.  (A compiler that moves the accesses or hoists them out *)
(* of the loop is not modelled.)                                           *)
(***************************************************************************)
EXTENDS Integers, Sequences

CONSTANT MaxPending     \* bound: stores waiting in one processor's buffer

ASSUME PendingAssumption == MaxPending \in Nat

Process  == {0, 1}
other(p) == 1 - p

VARIABLES turn, interested,    \* memory
          pending,             \* per process: its buffered stores, oldest first
          pc,
          unfenced,            \* history: a loop test was made with a store pending
          overtaken            \* history: entries of the other since, up to two

vars == <<turn, interested, pending, pc, unfenced, overtaken>>

Turn(p)       == <<"turn", p>>
Interested(b) == <<"interested", b>>

Init ==
    /\ turn = 0
    /\ interested = [p \in Process |-> 0]
    /\ pending = [p \in Process |-> <<>>]
    /\ pc = [p \in Process |-> "outside"]
    /\ unfenced = FALSE
    /\ overtaken = [p \in Process |-> 0]

Goto(p, from, to) == pc[p] = from /\ pc' = [pc EXCEPT ![p] = to]

\* What process p reads: its youngest pending store, else memory.
Pending(p, v) == {i \in 1..Len(pending[p]) : pending[p][i][1] = v}
Load(p, v, memory) ==
    IF Pending(p, v) = {} THEN memory
    ELSE pending[p][CHOOSE i \in Pending(p, v) : \A j \in Pending(p, v) : j <= i][2]

\* When its turn reaches memory the count of who overtakes p starts.
WriteTurn(p) == /\ turn' = p
                /\ overtaken' = [overtaken EXCEPT ![p] = 0]
WriteInterested(p, b) == interested' = [interested EXCEPT ![p] = b]

Buffer(p, store) ==
    /\ Len(pending[p]) < MaxPending
    /\ pending' = [pending EXCEPT ![p] = Append(@, store)]
    /\ UNCHANGED <<turn, interested, overtaken>>

SetInterested(p) ==
    /\ Goto(p, "outside", "set turn")
    /\ \/ Buffer(p, Interested(1))
       \/ /\ pending[p] = <<>> /\ WriteInterested(p, 1)
          /\ UNCHANGED <<turn, pending, overtaken>>
    /\ UNCHANGED unfenced

\* Mutant: turn is given to the other process.
SetTurnOther(p) ==
    /\ Goto(p, "set turn", "test turn")
    /\ \/ Buffer(p, Turn(other(p)))
       \/ /\ pending[p] = <<>> /\ WriteTurn(other(p))
          /\ UNCHANGED <<interested, pending>>
    /\ UNCHANGED unfenced

\* Mutant: the processes are numbered from one.
SetTurnFromOne(p) ==
    /\ Goto(p, "set turn", "test turn")
    /\ \/ Buffer(p, Turn(p + 1))
       \/ /\ pending[p] = <<>> /\ WriteTurn(p + 1)
          /\ UNCHANGED <<interested, pending>>
    /\ UNCHANGED unfenced

SetTurn(p) ==
    /\ Goto(p, "set turn", "test turn")
    /\ \/ Buffer(p, Turn(p))
       \/ /\ pending[p] = <<>> /\ WriteTurn(p)
          /\ UNCHANGED <<interested, pending>>
    /\ UNCHANGED unfenced

Enter(p) == overtaken' = [overtaken EXCEPT ![other(p)] = IF @ < 2 THEN @ + 1 ELSE @]

\* while (turn == process && ...
TestTurn(p) ==
    /\ \/ /\ Load(p, "turn", turn) = p
          /\ Goto(p, "test turn", "test interested")
          /\ UNCHANGED overtaken
       \/ /\ Load(p, "turn", turn) # p
          /\ Goto(p, "test turn", "inside")
          /\ Enter(p)
    /\ unfenced' = (unfenced \/ pending[p] # <<>>)
    /\ UNCHANGED <<turn, interested, pending>>

\* Mutant: the loop is left while the other process is interested.
TestInterestedNot(p) ==
    /\ \/ /\ interested[other(p)] = 0
          /\ Goto(p, "test interested", "test turn")
          /\ UNCHANGED overtaken
       \/ /\ interested[other(p)] = 1
          /\ Goto(p, "test interested", "inside")
          /\ Enter(p)
    /\ unfenced' = (unfenced \/ pending[p] # <<>>)
    /\ UNCHANGED <<turn, interested, pending>>

\* ... && interested[other] == TRUE);
TestInterested(p) ==
    /\ \/ /\ interested[other(p)] = 1
          /\ Goto(p, "test interested", "test turn")
          /\ UNCHANGED overtaken
       \/ /\ interested[other(p)] = 0
          /\ Goto(p, "test interested", "inside")
          /\ Enter(p)
    /\ unfenced' = (unfenced \/ pending[p] # <<>>)
    /\ UNCHANGED <<turn, interested, pending>>

\* Mutant: leave_region forgets to withdraw.
LeaveInterested(p) ==
    /\ Goto(p, "inside", "outside")
    /\ UNCHANGED <<turn, interested, pending, unfenced, overtaken>>

Leave(p) ==
    /\ Goto(p, "inside", "outside")
    /\ \/ Buffer(p, Interested(0))
       \/ /\ pending[p] = <<>> /\ WriteInterested(p, 0)
          /\ UNCHANGED <<turn, pending, overtaken>>
    /\ UNCHANGED unfenced

\* The processor writes its oldest pending store to memory.
Drain(p) ==
    /\ pending[p] # <<>>
    /\ LET store == Head(pending[p]) IN
          \/ store[1] = "turn" /\ WriteTurn(store[2]) /\ UNCHANGED interested
          \/ /\ store[1] = "interested" /\ WriteInterested(p, store[2])
             /\ UNCHANGED <<turn, overtaken>>
    /\ pending' = [pending EXCEPT ![p] = Tail(@)]
    /\ UNCHANGED <<pc, unfenced>>

EnterRegion(p) == SetInterested(p) \/ SetTurn(p) \/ TestTurn(p) \/ TestInterested(p)

Next == \E p \in Process : EnterRegion(p) \/ Leave(p) \/ Drain(p)

Spec == Init /\ [][Next]_vars

\* A process may stay outside for ever; one that is in enter_region runs, one
\* that is inside leaves, and a buffer is drained.
FairSpec ==
    /\ Spec
    /\ \A p \in Process : /\ WF_vars(SetTurn(p) \/ TestTurn(p) \/ TestInterested(p))
                          /\ WF_vars(Leave(p))
                          /\ WF_vars(Drain(p))

-----------------------------------------------------------------------------
(* Properties.                                                             *)

Entering == {"set turn", "test turn", "test interested"}

\* The type invariant.
TypeOK ==
    /\ turn \in Process
    /\ interested \in [Process -> {0, 1}]
    /\ pending \in [Process -> Seq({"turn", "interested"} \X {0, 1})]
    /\ pc \in [Process -> Entering \cup {"outside", "inside"}]
    /\ unfenced \in BOOLEAN
    /\ overtaken \in [Process -> 0..2]

\* Both processes are between enter_region and leave_region only if one of them
\* tested the loop condition with its own stores still on their way to memory:
\* with a fence after line 14, or a processor that keeps stores before loads,
\* enter_region excludes.
Exclusion == (\A p \in Process : pc[p] = "inside") => unfenced

\* A process whose stores have reached memory is overtaken at most once while it
\* waits in the loop, as long as every loop test was made so.
OvertakenOnce ==
    \A p \in Process :
        (pc[p] \in {"test turn", "test interested"} /\ pending[p] = <<>> /\ ~unfenced)
            => overtaken[p] <= 1

\* enter_region returns.
EnterEnds == \A p \in Process : pc[p] \in Entering ~> pc[p] = "inside"
=============================================================================
