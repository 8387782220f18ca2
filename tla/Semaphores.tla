------------------------------ MODULE Semaphores ------------------------------
(***************************************************************************)
(* Preparation/mutex-pro-con.c: a producer and a consumer with three       *)
(* semaphores.  insert_item, remove_item, up and down are external: a      *)
(* buffer of N slots, and semaphores.                                      *)
(***************************************************************************)
EXTENDS Slots

VARIABLES mutex, empty, full,    \* the semaphores
          buffer, made, used,    \* the buffer; last item inserted and removed
          ppc, cpc               \* control of the producer and the consumer

data == <<buffer, made, used>>
vars == <<mutex, empty, full, data, ppc, cpc>>

Init == /\ mutex = 1 /\ empty = N /\ full = 0
        /\ buffer = <<>> /\ made = 0 /\ used = 0
        /\ ppc = "down_empty" /\ cpc = "down_full"

PGoto(from, to) == ppc = from /\ ppc' = to /\ UNCHANGED cpc
CGoto(from, to) == cpc = from /\ cpc' = to /\ UNCHANGED ppc
Down(s) == s > 0 /\ s' = s - 1
Up(s)   == s' = s + 1

DownEmpty  == /\ made < MaxItems /\ PGoto("down_empty", "down_mutex")
              /\ Down(empty) /\ UNCHANGED <<mutex, full, data>>
\* Mutant: the producer does not take the mutex.
PDownMutexForgotten == /\ PGoto("down_mutex", "insert")
                       /\ UNCHANGED <<mutex, empty, full, data>>
PDownMutex == /\ PGoto("down_mutex", "insert") /\ Down(mutex)
              /\ UNCHANGED <<empty, full, data>>
Insert     == /\ PGoto("insert", "p_up_mutex")
              /\ made' = made + 1 /\ buffer' = Append(buffer, made')
              /\ UNCHANGED <<mutex, empty, full, used>>
PUpMutex   == /\ PGoto("p_up_mutex", "up_full") /\ Up(mutex)
              /\ UNCHANGED <<empty, full, data>>
UpFull     == /\ PGoto("up_full", "down_empty") /\ Up(full)
              /\ UNCHANGED <<mutex, empty, data>>

DownFull   == /\ CGoto("down_full", "c_down_mutex") /\ Down(full)
              /\ UNCHANGED <<mutex, empty, data>>
CDownMutex == /\ CGoto("c_down_mutex", "remove") /\ Down(mutex)
              /\ UNCHANGED <<empty, full, data>>
Remove     == /\ CGoto("remove", "c_up_mutex")
              /\ used' = Head(buffer) /\ buffer' = Tail(buffer)
              /\ UNCHANGED <<mutex, empty, full, made>>
CUpMutex   == /\ CGoto("c_up_mutex", "up_empty") /\ Up(mutex)
              /\ UNCHANGED <<empty, full, data>>
UpEmpty    == /\ CGoto("up_empty", "down_full") /\ Up(empty)
              /\ UNCHANGED <<mutex, full, data>>

\* Mutant: down(&mutex) before down(&empty).
ProducerSwapped ==
  \/ /\ made < MaxItems /\ PGoto("down_empty", "down_mutex")
     /\ Down(mutex) /\ UNCHANGED <<empty, full, data>>
  \/ /\ PGoto("down_mutex", "insert") /\ Down(empty) /\ UNCHANGED <<mutex, full, data>>
  \/ Insert \/ PUpMutex \/ UpFull
Producer == DownEmpty \/ PDownMutex \/ Insert \/ PUpMutex \/ UpFull
Consumer == DownFull \/ CDownMutex \/ Remove \/ CUpMutex \/ UpEmpty
Next     == Producer \/ Consumer

-----------------------------------------------------------------------------
(* Properties.                                                             *)

\* insert_item and remove_item are never both running (line 15, line 29).
Exclusive == ~(ppc \in {"insert", "p_up_mutex"} /\ cpc \in {"remove", "c_up_mutex"})

\* Each slot is free, holds an item or is in a process's hands: empty counts
\* the first, full the second but for the item a process is about to announce
\* or to take.
Hand(pc, states) == IF pc \in states THEN 1 ELSE 0
Counted ==
  /\ empty + Len(buffer) + Hand(ppc, {"down_mutex", "insert"})
       + Hand(cpc, {"c_up_mutex", "up_empty"}) = N
  /\ full + Hand(ppc, {"p_up_mutex", "up_full"})
       + Hand(cpc, {"c_down_mutex", "remove"}) = Len(buffer)

\* Why they hold, as an inductive invariant: mutex is free, or exactly one
\* process is between its down and its up.
Typed == /\ mutex \in Nat /\ empty \in Nat /\ full \in Nat
         /\ buffer \in Seq(Nat) /\ made \in Nat /\ used \in Nat
         /\ ppc \in {"down_empty", "down_mutex", "insert", "p_up_mutex", "up_full"}
         /\ cpc \in {"down_full", "c_down_mutex", "remove", "c_up_mutex", "up_empty"}
MutexCounted == mutex + Hand(ppc, {"insert", "p_up_mutex"})
                      + Hand(cpc, {"remove", "c_up_mutex"}) = 1
Inv == Typed /\ MutexCounted /\ Counted
=============================================================================
