------------------------------ MODULE JavaMonitor ------------------------------
(***************************************************************************)
(* Preparation/PriducerConsumer.java: a monitor with a ring of N slots,    *)
(* and one thread that inserts and one that removes.  insert and remove    *)
(* are synchronized: but for the wait, each is one step.                   *)
(***************************************************************************)
EXTENDS Slots

VARIABLES ring, count, lo, hi,
          made, used,      \* the last item inserted and removed
          ppc, cpc,        \* "call", "wait" or "resume"
          damaged          \* a wait returned and its condition did not hold

slots == <<ring, count, lo, hi>>
vars  == <<slots, made, used, ppc, cpc, damaged>>

Init == /\ ring = [k \in 0..(N - 1) |-> 0] /\ count = 0 /\ lo = 0 /\ hi = 0
        /\ made = 0 /\ used = 0 /\ ppc = "call" /\ cpc = "call" /\ damaged = FALSE

Notified(pc, condition) == IF condition /\ pc = "wait" THEN "resume" ELSE pc

Put == /\ made' = made + 1 /\ ring' = [ring EXCEPT ![hi] = made']
       /\ hi' = (hi + 1) % N /\ count' = count + 1 /\ ppc' = "call"
       /\ cpc' = Notified(cpc, count' = 1) /\ UNCHANGED <<lo, used, damaged>>
Take == /\ used' = ring[lo] /\ lo' = (lo + 1) % N /\ count' = count - 1 /\ cpc' = "call"
        /\ ppc' = Notified(ppc, count' = N - 1) /\ UNCHANGED <<ring, hi, made, damaged>>

Insert == /\ ppc = "call" /\ made < MaxItems
          /\ IF count = N THEN ppc' = "wait" /\ UNCHANGED <<slots, made, used, cpc, damaged>> ELSE Put
Remove == /\ cpc = "call"
          /\ IF count = 0 THEN cpc' = "wait" /\ UNCHANGED <<slots, made, used, ppc, damaged>> ELSE Take

\* After the wait the condition is not tested again: an item is overwritten
\* or removed twice when it does not hold.  What follows is not modelled.
Damage == damaged' = TRUE /\ UNCHANGED <<slots, made, used, ppc, cpc>>
InsertResumes == ppc = "resume" /\ IF count = N THEN Damage ELSE Put
RemoveResumes == cpc = "resume" /\ IF count = 0 THEN Damage ELSE Take

Spurious == /\ \/ ppc = "wait" /\ ppc' = "resume" /\ UNCHANGED cpc
               \/ cpc = "wait" /\ cpc' = "resume" /\ UNCHANGED ppc
            /\ UNCHANGED <<slots, made, used, damaged>>

Producer == ~damaged /\ (Insert \/ InsertResumes)
Consumer == ~damaged /\ (Remove \/ RemoveResumes)
Next     == Producer \/ Consumer \/ (~damaged /\ Spurious)

Contents == [k \in 1..count |-> ring[(lo + k - 1) % N]]

\* The ring holds count items from lo up to hi.
Inv == /\ ring \in [0..(N - 1) -> Nat] /\ count \in 0..N
       /\ lo \in 0..(N - 1) /\ hi \in 0..(N - 1) /\ hi = (lo + count) % N
       /\ made \in Nat /\ used \in Nat /\ damaged \in BOOLEAN
=============================================================================
