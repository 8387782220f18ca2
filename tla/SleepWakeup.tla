----------------------------- MODULE SleepWakeup -----------------------------
(***************************************************************************)
(* Preparation/producer-consumer.c: a producer and a consumer that sleep   *)
(* when the buffer is full or empty and wake each other.  count is an int: *)
(* it is changed by a load and a store, and a test of it is a step apart   *)
(* from the call it decides on.  insert_item, remove_item, sleep and       *)
(* wakeup are external; waking a process that is not asleep has no effect. *)
(***************************************************************************)
EXTENDS Slots

VARIABLES count,
          reg,                   \* what each process has loaded of count
          buffer, made, used,    \* the buffer; last item inserted and removed
          ppc, cpc,              \* control of the producer and the consumer
          lost,                  \* history: a wakeup met a process about to sleep
                                 \* although its condition had come
          damaged                \* history: the updates of count overlapped, or a
                                 \* stale wakeup came, after the condition had gone

data == <<buffer, made, used>>
vars == <<count, reg, data, ppc, cpc, lost, damaged>>

Init == /\ count = 0 /\ reg = [producer |-> 0, consumer |-> 0]
        /\ buffer = <<>> /\ made = 0 /\ used = 0
        /\ ppc = "test" /\ cpc = "test"
        /\ lost = FALSE /\ damaged = FALSE

PTest == /\ ppc = "test" /\ made < MaxItems
         /\ ppc' = IF count = N THEN "sleep" ELSE "insert"
         /\ UNCHANGED <<count, reg, data, cpc, lost, damaged>>
PSleep == /\ ppc = "sleep" /\ ppc' = "asleep"
          /\ UNCHANGED <<count, reg, data, cpc, lost, damaged>>
Insert == /\ ppc = "insert" /\ ppc' = "load"
          /\ made' = made + 1 /\ buffer' = Append(buffer, made')
          /\ UNCHANGED <<count, reg, used, cpc, lost, damaged>>
PLoad == /\ ppc = "load" /\ ppc' = "store"
         /\ reg' = [reg EXCEPT !.producer = count]
         /\ damaged' = (damaged \/ cpc = "store")
         /\ UNCHANGED <<count, data, cpc, lost>>
PStore == /\ ppc = "store" /\ ppc' = "wake"
          /\ count' = reg.producer + 1
          /\ UNCHANGED <<reg, data, cpc, lost, damaged>>
\* Mutant: wakeup is sent only when the buffer has become full.
PWakeLate == /\ ppc = "wake" /\ ppc' = IF count = N THEN "wakeup" ELSE "test"
             /\ UNCHANGED <<count, reg, data, cpc, lost, damaged>>
PWake == /\ ppc = "wake" /\ ppc' = IF count = 1 THEN "wakeup" ELSE "test"
         /\ UNCHANGED <<count, reg, data, cpc, lost, damaged>>
PWakeup == /\ ppc = "wakeup" /\ ppc' = "test"
           /\ cpc' = IF cpc = "asleep" THEN "remove" ELSE cpc
           /\ lost' = (lost \/ (cpc = "sleep" /\ count # 0))
           /\ damaged' = (damaged \/ (cpc = "asleep" /\ count = 0))
           /\ UNCHANGED <<count, reg, data>>

\* Bound: a count below zero, which only a stale wakeup leads to, stops at -N.
CTest == /\ cpc = "test" /\ count > -N
         /\ cpc' = IF count = 0 THEN "sleep" ELSE "remove"
         /\ UNCHANGED <<count, reg, data, ppc, lost, damaged>>
CSleep == /\ cpc = "sleep" /\ cpc' = "asleep"
          /\ UNCHANGED <<count, reg, data, ppc, lost, damaged>>
\* What remove_item returns of an empty buffer is no item.
Remove == /\ cpc = "remove" /\ cpc' = "load"
          /\ IF buffer = <<>> THEN used' = 0 /\ UNCHANGED buffer
             ELSE used' = Head(buffer) /\ buffer' = Tail(buffer)
          /\ UNCHANGED <<count, reg, made, ppc, lost, damaged>>
CLoad == /\ cpc = "load" /\ cpc' = "store"
         /\ reg' = [reg EXCEPT !.consumer = count]
         /\ damaged' = (damaged \/ ppc = "store")
         /\ UNCHANGED <<count, data, ppc, lost>>
CStore == /\ cpc = "store" /\ cpc' = "wake"
          /\ count' = reg.consumer - 1
          /\ UNCHANGED <<reg, data, ppc, lost, damaged>>
CWake == /\ cpc = "wake" /\ cpc' = IF count = N - 1 THEN "wakeup" ELSE "test"
         /\ UNCHANGED <<count, reg, data, ppc, lost, damaged>>
CWakeup == /\ cpc = "wakeup" /\ cpc' = "test"
           /\ ppc' = IF ppc = "asleep" THEN "insert" ELSE ppc
           /\ lost' = (lost \/ (ppc = "sleep" /\ count # N))
           /\ damaged' = (damaged \/ (ppc = "asleep" /\ count = N))
           /\ UNCHANGED <<count, reg, data>>

Producer == PTest \/ PSleep \/ Insert \/ PLoad \/ PStore \/ PWake \/ PWakeup
Consumer == CTest \/ CSleep \/ Remove \/ CLoad \/ CStore \/ CWake \/ CWakeup
Next     == Producer \/ Consumer

\* A process is asleep, the buffer has what it waits for, and the other is not on
\* its way from the buffer to the wakeup.
ToWakeup  == {"load", "store", "wake", "wakeup"}
Overslept == \/ cpc = "asleep" /\ Len(buffer) > 0 /\ ppc \notin ToWakeup
             \/ ppc = "asleep" /\ Len(buffer) < N /\ cpc \notin ToWakeup

\* Why a wakeup must have been lost for that.  Until the updates of count overlap
\* or a stale wakeup comes, count is the number of items but for those in hand, and
\* what a process tested still holds when it acts; until a wakeup is lost too, a
\* process that sleeps still has reason to, or the other is about to wake it.
Hand(pc, states) == IF pc \in states THEN 1 ELSE 0
Typed == /\ count \in Int /\ reg \in [producer : Int, consumer : Int]
         /\ buffer \in Seq(Nat) /\ made \in Nat /\ used \in Nat
         /\ ppc \in {"test", "sleep", "asleep", "insert", "load", "store", "wake", "wakeup"}
         /\ cpc \in {"test", "sleep", "asleep", "remove", "load", "store", "wake", "wakeup"}
         /\ lost \in BOOLEAN /\ damaged \in BOOLEAN
CountInv ==
  /\ count \in 0..N
  /\ count + Hand(ppc, {"load", "store"}) - Hand(cpc, {"load", "store"}) = Len(buffer)
  /\ ppc = "store" => reg.producer = count /\ cpc # "store"
  /\ cpc = "store" => reg.consumer = count
  /\ ppc \in {"insert", "load", "store"} => count < N
  /\ cpc \in {"remove", "load", "store"} => count > 0
WakeInv ==
  /\ cpc \in {"sleep", "asleep"} => count = 0 \/ (count = 1 /\ ppc \in {"wake", "wakeup"})
  /\ ppc \in {"sleep", "asleep"} => count = N \/ (count = N - 1 /\ cpc \in {"wake", "wakeup"})
Inv == Typed /\ (~damaged => CountInv) /\ (~damaged /\ ~lost => WakeInv)
=============================================================================
