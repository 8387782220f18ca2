------------------------------ MODULE PathCounter ------------------------------
(***************************************************************************)
(* pr2's workload_get_path: threads increment a counter under              *)
(* counter_mutex and read it again after the unlock.                       *)
(***************************************************************************)
EXTENDS Integers, Sequences

CONSTANTS Threads,
          MaxCalls      \* bound: calls of each thread

VARIABLES counter_mutex, counter,
          reg,          \* what each thread has loaded of counter
          pc,
          entries,      \* the entries each thread has got
          overlapped    \* history: an increment came between another's and its reading

vars == <<counter_mutex, counter, reg, pc, entries, overlapped>>

Init == /\ counter_mutex = "free" /\ counter = 0 /\ reg = [t \in Threads |-> 0]
        /\ pc = [t \in Threads |-> "lock"] /\ entries = [t \in Threads |-> <<>>]
        /\ overlapped = FALSE

Goto(t, from, to) == pc[t] = from /\ pc' = [pc EXCEPT ![t] = to]

\* Mutant: the mutex is not taken.
LockForgotten(t) == /\ Len(entries[t]) < MaxCalls /\ Goto(t, "lock", "load")
                    /\ UNCHANGED <<counter_mutex, counter, reg, entries, overlapped>>
Lock(t)   == /\ Len(entries[t]) < MaxCalls /\ Goto(t, "lock", "load")
             /\ counter_mutex = "free" /\ counter_mutex' = t
             /\ UNCHANGED <<counter, reg, entries, overlapped>>
Load(t)   == /\ Goto(t, "load", "store") /\ reg' = [reg EXCEPT ![t] = counter]
             /\ UNCHANGED <<counter_mutex, counter, entries, overlapped>>
Store(t)  == /\ Goto(t, "store", "unlock") /\ counter' = reg[t] + 1
             /\ overlapped' = (overlapped \/ \E u \in Threads \ {t} : pc[u] \in {"unlock", "read"})
             /\ UNCHANGED <<counter_mutex, reg, entries>>
Unlock(t) == /\ Goto(t, "unlock", "read") /\ counter_mutex' = "free"
             /\ UNCHANGED <<counter, reg, entries, overlapped>>
Read(t)   == /\ Goto(t, "read", "lock") /\ entries' = [entries EXCEPT ![t] = Append(@, counter)]
             /\ UNCHANGED <<counter_mutex, counter, reg, overlapped>>

Thread(t) == Lock(t) \/ Load(t) \/ Store(t) \/ Unlock(t) \/ Read(t)
Next      == \E t \in Threads : Thread(t)

\* Until an increment overlaps another thread's reading, entries are distinct
\* and at most the counter; while a thread has incremented and not yet read, it
\* is the only one, and the counter is in no entry.
Typed == /\ counter \in Nat /\ reg \in [Threads -> Nat]
         /\ pc \in [Threads -> {"lock", "load", "store", "unlock", "read"}]
         /\ entries \in [Threads -> Seq(Nat)] /\ overlapped \in BOOLEAN
LockInv == \A t \in Threads :
  /\ pc[t] \in {"load", "store", "unlock"} <=> counter_mutex = t
  /\ pc[t] = "store" => reg[t] = counter
Reading == {t \in Threads : pc[t] \in {"unlock", "read"}}
EntriesInv ==
  /\ \A t, u \in Reading : t = u
  /\ \A t \in Threads : \A k \in 1..Len(entries[t]) :
       entries[t][k] <= counter /\ (Reading # {} => entries[t][k] < counter)
  /\ \A t, u \in Threads : \A k \in 1..Len(entries[t]), l \in 1..Len(entries[u]) :
       entries[t][k] = entries[u][l] => t = u /\ k = l
Inv == Typed /\ LockInv /\ (~overlapped => EntriesInv)
=============================================================================
