----------------------------- MODULE SharedMemory -----------------------------
(***************************************************************************)
(* The programs in which two threads share memory or messages: the five    *)
(* producers and consumers of Preparation, and the path counter of pr2.  A *)
(* behaviour is one of one program.                                        *)
(***************************************************************************)
EXTENDS Slots

CONSTANTS MaxWakes, Threads, MaxCalls

ASSUME ThreadsAssumption == "free" \notin Threads

VARIABLES program,          \* the program, which never changes
          buffer,           \* its buffer
          made, used,       \* the last item inserted and removed
          ppc, cpc,         \* control of the producer and the consumer
          m1, m2, m3,       \* what else its processes share
          lost, damaged     \* history: see SleepWakeup and JavaMonitor

state == <<buffer, made, used, ppc, cpc, m1, m2, m3, lost, damaged>>
vars  == <<program, state>>

Sem == INSTANCE Semaphores  WITH mutex <- m1, empty <- m2, full <- m3
Sle == INSTANCE SleepWakeup WITH count <- m1, reg <- m2
Mon == INSTANCE Monitor     WITH the_mutex <- m1, mpc <- m2, wakes <- m3
Mes == INSTANCE Messages    WITH toConsumer <- buffer, toProducer <- m1, i <- m2
Jav == INSTANCE JavaMonitor WITH ring <- buffer, count <- m1, lo <- m2, hi <- m3
Pat == INSTANCE PathCounter WITH pc <- ppc, reg <- cpc, entries <- buffer, counter_mutex <- m1,
                                 counter <- m2, overlapped <- damaged

None == 0
Init ==
  \/ program = "semaphores" /\ Sem!Init /\ lost = FALSE /\ damaged = FALSE
  \/ program = "sleep"      /\ Sle!Init /\ m3 = None
  \/ program = "monitor"    /\ Mon!Init /\ lost = FALSE /\ damaged = FALSE
  \/ program = "messages"   /\ Mes!Init /\ m3 = None /\ lost = FALSE /\ damaged = FALSE
  \/ program = "java"       /\ Jav!Init /\ lost = FALSE
  \/ program = "paths"      /\ Pat!Init /\ m3 = None /\ made = 0 /\ used = 0 /\ lost = FALSE

Producer ==
  /\ UNCHANGED program
  /\ \/ program = "semaphores" /\ Sem!Producer /\ UNCHANGED <<lost, damaged>>
     \/ program = "sleep"      /\ Sle!Producer /\ UNCHANGED m3
     \/ program = "monitor"    /\ Mon!Producer /\ UNCHANGED <<lost, damaged>>
     \/ program = "messages"   /\ Mes!Producer /\ UNCHANGED <<m3, lost, damaged>>
     \/ program = "java"       /\ Jav!Producer /\ UNCHANGED lost
Consumer ==
  /\ UNCHANGED program
  /\ \/ program = "semaphores" /\ Sem!Consumer /\ UNCHANGED <<lost, damaged>>
     \/ program = "sleep"      /\ Sle!Consumer /\ UNCHANGED m3
     \/ program = "monitor"    /\ Mon!Consumer /\ UNCHANGED <<lost, damaged>>
     \/ program = "messages"   /\ Mes!Consumer /\ UNCHANGED <<m3, lost, damaged>>
     \/ program = "java"       /\ Jav!Consumer /\ UNCHANGED lost
\* The threads of the last two are not a producer and a consumer.
Main     == /\ program = "monitor" /\ Mon!Main /\ UNCHANGED <<program, lost, damaged>>
Wakes    == /\ UNCHANGED <<program, lost>>
            /\ \/ program = "monitor" /\ Mon!Spurious /\ UNCHANGED damaged
               \/ program = "java" /\ ~damaged /\ Jav!Spurious
Thread(t) == /\ program = "paths" /\ Pat!Thread(t)
             /\ UNCHANGED <<program, made, used, m3, lost>>

Next == Producer \/ Consumer \/ Main \/ Wakes \/ \E t \in Threads : Thread(t)
Spec == /\ Init /\ [][Next]_vars
        /\ WF_vars(Producer) /\ WF_vars(Consumer) /\ WF_vars(Main)
        /\ \A t \in Threads : WF_vars(Thread(t))

-----------------------------------------------------------------------------
(* Properties.                                                             *)

Contents == CASE program = "monitor" -> Mon!Contents
              [] program = "java"    -> Jav!Contents
              [] program = "paths"   -> <<>>
              [] OTHER               -> buffer
B == INSTANCE BoundedBuffer WITH buffer <- Contents

\* Each program is a buffer of at most N slots: no item is lost, overwritten,
\* repeated or out of order.  The Java monitor is so until its counter is damaged
\* (PriducerConsumer.java 43), sleep/wakeup until the updates of count overlap
\* (producer-consumer.c 13, 26) or a wakeup comes so late after its test that the
\* buffer is empty, or full, again (14, 27).
ImplementsBuffer == B!Init /\ [][damaged' \/ B!Next]_<<Contents, made, used>>

\* The invariants of the programs (see the modules).
Inv == /\ program = "semaphores" => Sem!Inv
       /\ program = "sleep" => Sle!Inv
       /\ program = "monitor" => Mon!Inv
       /\ program = "messages" => Mes!Inv
       /\ program = "java" => Jav!Inv
       /\ program = "paths" => Pat!Inv

\* The semaphores count the slots that are free and in use, and insert_item and
\* remove_item exclude each other (mutex-pro-con.c 14-18, 28-32); the N messages
\* of information.c are conserved.
SlotsConserved == /\ program = "semaphores" => Sem!Exclusive /\ Sem!Counted
                  /\ program = "messages" => Mes!Conserved

\* A process stays asleep beside an item, or a free slot, only if a wakeup met it
\* after its test of count and before sleep() (producer-consumer.c 11, 24), updates
\* of count overlapped (13, 26), or a stale wakeup set count off the items (14, 27).
SleepHasCause == program = "sleep" /\ Sle!Overslept => lost \/ damaged

\* Two calls of workload_get_path return one entry, or skip one, only if an
\* increment came between another thread's and its reading (workload.c 47-51).
PathsOnce ==
  program = "paths" /\ ~damaged =>
    \A t, u \in Threads : \A i \in DOMAIN buffer[t], j \in DOMAIN buffer[u] :
      buffer[t][i] = buffer[u][j] => t = u /\ i = j

\* Every item made is used, and main's threads are joined, unless a wakeup was
\* lost or came stale, the counter was damaged, or a thread could not be created:
\* the other then waits for it, and main for the other (buffer-mutex.c 45-48).
AllUsed == program # "paths" =>
  <>(lost \/ damaged \/ (used = MaxItems /\ (program = "monitor" => m2 = "end"))
     \/ (program = "monitor" /\ Mon!NotCreated))
=============================================================================
