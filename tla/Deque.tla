------------------------------- MODULE Deque -------------------------------
(***************************************************************************)
(* What pr1/mtgf/steque.h promises of a steque_t: a sequence of items that *)
(* grows at both ends and shrinks at the front.  Its users call it one     *)
(* operation at a time; an operation on an empty steque that needs an item *)
(* ends the process.                                                       *)
(***************************************************************************)
EXTENDS Integers, Sequences

CONSTANTS Items,     \* what a steque_item can be
          MaxLen     \* bound: elements in the steque

VARIABLES q,         \* the elements, front first
          ret,       \* what the last call returned
          phase      \* "use", "destroy" while steque_destroy runs, "exited"

Init == q = <<>> /\ ret = 0 /\ phase = "use"

Using == phase = "use" /\ UNCHANGED phase

Enqueue(x) == Using /\ Len(q) < MaxLen /\ q' = Append(q, x) /\ UNCHANGED ret
Push(x)    == Using /\ Len(q) < MaxLen /\ q' = <<x>> \o q /\ UNCHANGED ret
Pop        == Using /\ q # <<>> /\ ret' = Head(q) /\ q' = Tail(q)
Front      == Using /\ q # <<>> /\ ret' = Head(q) /\ UNCHANGED q
Size       == Using /\ ret' = Len(q) /\ UNCHANGED q
IsEmpty    == Using /\ ret' = (IF q = <<>> THEN 1 ELSE 0) /\ UNCHANGED q
Cycle      == Using /\ UNCHANGED ret
                    /\ q' = IF q = <<>> THEN q ELSE Append(Tail(q), Head(q))
Underflow  == phase = "use" /\ q = <<>> /\ phase' = "exited" /\ UNCHANGED <<q, ret>>

\* Destroying discards every element, then the steque is empty and usable.
Destroy   == phase = "use" /\ phase' = "destroy" /\ UNCHANGED <<q, ret>>
Discard   == phase = "destroy" /\ q # <<>> /\ q' = Tail(q) /\ UNCHANGED <<ret, phase>>
Destroyed == phase = "destroy" /\ q = <<>> /\ phase' = "use" /\ UNCHANGED <<q, ret>>

Next == \/ \E x \in Items : Enqueue(x) \/ Push(x)
        \/ Pop \/ Front \/ Size \/ IsEmpty \/ Cycle \/ Underflow
        \/ Destroy \/ Discard \/ Destroyed

Spec == Init /\ [][Next]_<<q, ret, phase>>
=============================================================================
