---------------------------- MODULE BoundedBuffer ----------------------------
(***************************************************************************)
(* What the producers and consumers of Preparation promise: at most N      *)
(* items wait at any time, and each item made is used once, in order.  An  *)
(* item is its number.                                                     *)
(***************************************************************************)
EXTENDS Integers, Sequences

CONSTANT N           \* the slots of the buffer

VARIABLES buffer,    \* the items waiting, oldest first
          made,      \* the last item inserted
          used       \* the last item removed

Init == buffer = <<>> /\ made = 0 /\ used = 0

Insert == /\ Len(buffer) < N
          /\ made' = made + 1
          /\ buffer' = Append(buffer, made')
          /\ UNCHANGED used

Remove == /\ buffer # <<>>
          /\ used' = Head(buffer)
          /\ buffer' = Tail(buffer)
          /\ UNCHANGED made

Next == Insert \/ Remove

Spec == Init /\ [][Next]_<<buffer, made, used>>
=============================================================================
