-------------------------------- MODULE Monitor --------------------------------
(***************************************************************************)
(* Preparation/buffer-mutex.c: a producer and a consumer thread that share *)
(* one item under the_mutex, with a condition variable each, and the main  *)
(* program that creates and joins them.  Items are numbered from 1, as in  *)
(* the code, and 0 is the empty buffer; MAX is MaxItems.  The pthread      *)
(* calls are external; a wait may return without a signal.                 *)
(***************************************************************************)
EXTENDS Integers

CONSTANTS MaxItems,
          MaxWakes    \* bound: waits that return without a signal

VARIABLES buffer, the_mutex,
          made, used,         \* the last item put and grabbed
          ppc, cpc, mpc,      \* control of the producer, the consumer and main
          wakes

vars == <<buffer, the_mutex, made, used, ppc, cpc, mpc, wakes>>

Init == /\ buffer = 0 /\ the_mutex = "free" /\ made = 0 /\ used = 0 /\ wakes = 0
        /\ ppc = "new" /\ cpc = "new" /\ mpc = "create_consumer"

items == <<buffer, made, used, mpc, wakes>>
PGoto(from, to) == ppc = from /\ ppc' = to
CGoto(from, to) == cpc = from /\ cpc' = to
Lock(t)   == the_mutex = "free" /\ the_mutex' = t
Unlock    == the_mutex' = "free"

PLock   == /\ made < MaxItems /\ PGoto("lock", "test") /\ Lock("producer")
           /\ UNCHANGED <<items, cpc>>
PTest   == PGoto("test", "put") /\ buffer = 0 /\ UNCHANGED <<items, the_mutex, cpc>>
PWait   == PGoto("test", "wait") /\ buffer # 0 /\ Unlock /\ UNCHANGED <<items, cpc>>
\* Mutant: the condition is tested with if, not while.
PResumeUntested == PGoto("resume", "put") /\ Lock("producer") /\ UNCHANGED <<items, cpc>>
PResume == PGoto("resume", "test") /\ Lock("producer") /\ UNCHANGED <<items, cpc>>
Put     == /\ PGoto("put", "unlock") /\ made' = made + 1 /\ buffer' = made'
           /\ cpc' = IF cpc = "wait" THEN "resume" ELSE cpc
           /\ UNCHANGED <<the_mutex, used, mpc, wakes>>
PUnlock == /\ PGoto("unlock", IF made = MaxItems THEN "exit" ELSE "lock") /\ Unlock
           /\ UNCHANGED <<items, cpc>>

CLock   == /\ used < MaxItems /\ CGoto("lock", "test") /\ Lock("consumer")
           /\ UNCHANGED <<items, ppc>>
CTest   == CGoto("test", "grab") /\ buffer # 0 /\ UNCHANGED <<items, the_mutex, ppc>>
CWait   == CGoto("test", "wait") /\ buffer = 0 /\ Unlock /\ UNCHANGED <<items, ppc>>
CResume == CGoto("resume", "test") /\ Lock("consumer") /\ UNCHANGED <<items, ppc>>
Grab    == /\ CGoto("grab", "unlock") /\ used' = buffer /\ buffer' = 0
           /\ ppc' = IF ppc = "wait" THEN "resume" ELSE ppc
           /\ UNCHANGED <<the_mutex, made, mpc, wakes>>
CUnlock == /\ CGoto("unlock", IF used = MaxItems THEN "exit" ELSE "lock") /\ Unlock
           /\ UNCHANGED <<items, ppc>>

Spurious == /\ wakes < MaxWakes /\ wakes' = wakes + 1
            /\ \/ PGoto("wait", "resume") /\ UNCHANGED cpc
               \/ CGoto("wait", "resume") /\ UNCHANGED ppc
            /\ UNCHANGED <<buffer, the_mutex, made, used, mpc>>

threads == <<buffer, the_mutex, made, used, wakes>>
\* pthread_create may fail, and main goes on.
CreateConsumer == /\ mpc = "create_consumer" /\ mpc' = "create_producer"
                  /\ cpc = "new" /\ cpc' \in {"new", "lock"} /\ UNCHANGED <<threads, ppc>>
CreateProducer == /\ mpc = "create_producer" /\ mpc' = "join_producer"
                  /\ ppc = "new" /\ ppc' \in {"new", "lock"} /\ UNCHANGED <<threads, cpc>>
\* The id of a thread that was not created is not set: joining it returns, faults
\* or never returns.
Join(pc, next) == /\ \/ pc = "exit" /\ mpc' = next
                     \/ pc = "new" /\ mpc' \in {next, "fault", "hung"}
                  /\ UNCHANGED <<threads, ppc, cpc>>
JoinProducer   == mpc = "join_producer" /\ Join(ppc, "join_consumer")
JoinConsumer   == mpc = "join_consumer" /\ Join(cpc, "end")

Running  == mpc \notin {"fault", "end"}
Producer == Running /\ (PLock \/ PTest \/ PWait \/ PResume \/ Put \/ PUnlock)
Consumer == Running /\ (CLock \/ CTest \/ CWait \/ CResume \/ Grab \/ CUnlock)
Main     == CreateConsumer \/ CreateProducer \/ JoinProducer \/ JoinConsumer
Next     == Producer \/ Consumer \/ Main \/ Spurious

Contents == IF buffer = 0 THEN <<>> ELSE <<buffer>>
NotCreated == \/ cpc = "new" /\ mpc # "create_consumer"
              \/ ppc = "new" /\ mpc \notin {"create_consumer", "create_producer"}

-----------------------------------------------------------------------------
(* Properties.                                                             *)

\* A thread between lock and unlock or wait holds the_mutex, what it tested
\* under it still holds when it acts (lines 16, 31), and the buffer is the only
\* item made and not used.
Holds == {"test", "put", "grab", "unlock"}
Typed == /\ buffer \in Nat /\ made \in Nat /\ used \in Nat
         /\ ppc \in {"new", "lock", "wait", "resume", "exit"} \cup (Holds \ {"grab"})
         /\ cpc \in {"new", "lock", "wait", "resume", "exit"} \cup (Holds \ {"put"})
LockInv == /\ the_mutex = "producer" <=> ppc \in Holds
           /\ the_mutex = "consumer" <=> cpc \in Holds
TestedInv == (ppc = "put" => buffer = 0) /\ (cpc = "grab" => buffer # 0)
ItemsInv == IF buffer = 0 THEN used = made ELSE buffer = made /\ used = made - 1
Inv == Typed /\ LockInv /\ TestedInv /\ ItemsInv
=============================================================================
