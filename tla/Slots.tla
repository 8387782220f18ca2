--------------------------------- MODULE Slots ---------------------------------
(* The parameters of the producers and consumers of Preparation.           *)
EXTENDS Integers, Sequences

CONSTANTS N,          \* slots of the buffer, or messages in the system
          MaxItems    \* bound: items the producer makes

ASSUME SlotAssumption == N \in Nat \ {0} /\ MaxItems \in Nat
=============================================================================
