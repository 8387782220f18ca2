-------------------------- MODULE SharedMemory_proofs --------------------------
(***************************************************************************)
(* Proofs about the programs of SharedMemory, for a buffer of any size,    *)
(* any number of items, of threads and of spurious wake-ups: the producers *)
(* and consumers implement the bounded buffer, slots and messages are      *)
(* conserved, the races of the unsafe programs are the only ones, and two  *)
(* processes never wait for each other.                                    *)
(***************************************************************************)
EXTENDS SharedMemory, SequenceTheorems, TLAPS

-----------------------------------------------------------------------------
(* mutex-pro-con.c: each operation of a semaphore moves one unit between   *)
(* it and the hands of the process that calls it.                          *)

SemStep == Sem!Producer \/ Sem!Consumer

LEMMA SemInit == Sem!Init => Sem!Inv
BY SlotAssumption
DEF Sem!Init, Sem!Inv, Sem!Typed, Sem!MutexCounted, Sem!Counted, Sem!Hand

\* What the buffer and the three counts are after one item went in.
LEMMA SemInsert ==
  ASSUME Sem!Inv, Sem!Insert
  PROVE  Sem!Inv' /\ Len(buffer) < N
<1> USE DEF Sem!Inv, Sem!Insert, Sem!PGoto
<1>1. buffer' \in Seq(Nat) /\ made' \in Nat /\ Len(buffer') = Len(buffer) + 1
  <2>1. made' \in Nat /\ buffer \in Seq(Nat)
    BY DEF Sem!Typed
  <2> QED BY <2>1, AppendProperties
<1>2. Sem!Typed'
  BY <1>1 DEF Sem!Typed
<1>3. Sem!MutexCounted'
  BY DEF Sem!MutexCounted, Sem!Hand
<1>4. Sem!Counted' /\ Len(buffer) < N
  BY <1>1, SlotAssumption DEF Sem!Counted, Sem!Hand, Sem!Typed
<1> QED BY <1>2, <1>3, <1>4

\* remove_item finds an item: full counts it, in the consumer's hands.
LEMMA SemRemove == ASSUME Sem!Inv, Sem!Remove PROVE Sem!Inv' /\ buffer # <<>>
<1>1. Len(buffer) > 0 /\ buffer \in Seq(Nat)
  BY DEF Sem!Inv, Sem!Typed, Sem!Counted, Sem!Hand, Sem!Remove, Sem!CGoto
<1>2. /\ buffer # <<>> /\ used' \in Nat /\ buffer' \in Seq(Nat)
      /\ Len(buffer) \in Nat /\ Len(buffer') = Len(buffer) - 1
  BY <1>1, EmptySeq, HeadTailProperties, LenProperties DEF Sem!Remove
<1>3. cpc = "remove" /\ cpc' = "c_up_mutex" /\ UNCHANGED <<ppc, m1, m2, m3, made>>
  BY DEF Sem!Remove, Sem!CGoto
<1>4. Sem!Typed'
  BY <1>2, <1>3 DEF Sem!Inv, Sem!Typed
<1>5. Sem!MutexCounted'
  BY <1>3 DEF Sem!Inv, Sem!MutexCounted, Sem!Hand
<1>6. Sem!Counted'
  BY <1>2, <1>3, SlotAssumption DEF Sem!Inv, Sem!Typed, Sem!Counted, Sem!Hand
<1> QED BY <1>2, <1>4, <1>5, <1>6 DEF Sem!Inv

LEMMA SemOther ==
  ASSUME Sem!Inv, SemStep, ~Sem!Insert, ~Sem!Remove
  PROVE  Sem!Inv' /\ UNCHANGED <<buffer, made, used>>
<1> USE SlotAssumption
    DEF Sem!Inv, Sem!Typed, Sem!MutexCounted, Sem!Counted, Sem!Hand, Sem!PGoto, Sem!CGoto,
        Sem!Down, Sem!Up, Sem!data
<1>1. CASE Sem!DownEmpty
  BY <1>1 DEF Sem!DownEmpty
<1>2. CASE Sem!PDownMutex
  BY <1>2 DEF Sem!PDownMutex
<1>3. CASE Sem!PUpMutex
  BY <1>3 DEF Sem!PUpMutex
<1>4. CASE Sem!UpFull
  BY <1>4 DEF Sem!UpFull
<1>5. CASE Sem!DownFull
  BY <1>5 DEF Sem!DownFull
<1>6. CASE Sem!CDownMutex
  BY <1>6 DEF Sem!CDownMutex
<1>7. CASE Sem!CUpMutex
  BY <1>7 DEF Sem!CUpMutex
<1>8. CASE Sem!UpEmpty
  BY <1>8 DEF Sem!UpEmpty
<1> QED BY <1>1, <1>2, <1>3, <1>4, <1>5, <1>6, <1>7, <1>8 DEF SemStep, Sem!Producer, Sem!Consumer

\* A step of the program is one of a buffer of N slots.
LEMMA SemImplements ==
  ASSUME Sem!Inv, SemStep, Contents = buffer, Contents' = buffer'
  PROVE  Sem!Inv' /\ [B!Next]_<<Contents, made, used>>
<1>1. CASE Sem!Insert
  BY <1>1, SemInsert DEF Sem!Insert, B!Next, B!Insert
<1>2. CASE Sem!Remove
  BY <1>2, SemRemove DEF Sem!Remove, B!Next, B!Remove
<1>3. CASE ~Sem!Insert /\ ~Sem!Remove
  BY <1>3, SemOther
<1> QED BY <1>1, <1>2, <1>3

-----------------------------------------------------------------------------
(* buffer-mutex.c: a thread that the other lets go does not hold the lock. *)

MonStep == Mon!Producer \/ Mon!Consumer \/ Mon!Main \/ Mon!Spurious

LEMMA MonInit == Mon!Init => Mon!Inv
BY DEF Mon!Init, Mon!Inv, Mon!Typed, Mon!LockInv, Mon!TestedInv, Mon!ItemsInv, Mon!Holds

LEMMA MonItems == ASSUME Mon!Inv, Mon!Put \/ Mon!Grab PROVE Mon!Inv'
BY DEF Mon!Put, Mon!PGoto, Mon!Grab, Mon!CGoto, Mon!Inv, Mon!Typed, Mon!LockInv,
       Mon!TestedInv, Mon!ItemsInv, Mon!Holds

\* Every other step leaves the items alone.
LEMMA MonProducer ==
  ASSUME Mon!Inv, Mon!Producer, ~Mon!Put
  PROVE  Mon!Inv' /\ UNCHANGED <<buffer, made, used>>
<1> USE DEF Mon!PGoto, Mon!Lock, Mon!Unlock, Mon!items, Mon!Inv, Mon!Typed, Mon!LockInv,
            Mon!TestedInv, Mon!ItemsInv, Mon!Holds
<1>1. CASE Mon!PLock
  BY <1>1 DEF Mon!PLock
<1>2. CASE Mon!PTest
  BY <1>2 DEF Mon!PTest
<1>3. CASE Mon!PWait
  BY <1>3 DEF Mon!PWait
<1>4. CASE Mon!PResume
  BY <1>4 DEF Mon!PResume
<1>5. CASE Mon!PUnlock
  BY <1>5 DEF Mon!PUnlock
<1> QED BY <1>1, <1>2, <1>3, <1>4, <1>5 DEF Mon!Producer

LEMMA MonConsumer ==
  ASSUME Mon!Inv, Mon!Consumer, ~Mon!Grab
  PROVE  Mon!Inv' /\ UNCHANGED <<buffer, made, used>>
<1> USE DEF Mon!CGoto, Mon!Lock, Mon!Unlock, Mon!items, Mon!Inv, Mon!Typed, Mon!LockInv,
            Mon!TestedInv, Mon!ItemsInv, Mon!Holds
<1>1. CASE Mon!CLock
  BY <1>1 DEF Mon!CLock
<1>2. CASE Mon!CTest
  BY <1>2 DEF Mon!CTest
<1>3. CASE Mon!CWait
  BY <1>3 DEF Mon!CWait
<1>4. CASE Mon!CResume
  BY <1>4 DEF Mon!CResume
<1>5. CASE Mon!CUnlock
  BY <1>5 DEF Mon!CUnlock
<1> QED BY <1>1, <1>2, <1>3, <1>4, <1>5 DEF Mon!Consumer

LEMMA MonOther ==
  ASSUME Mon!Inv, Mon!Main \/ Mon!Spurious
  PROVE  Mon!Inv' /\ UNCHANGED <<buffer, made, used>>
<1> USE DEF Mon!PGoto, Mon!CGoto, Mon!threads, Mon!Inv, Mon!Typed, Mon!LockInv,
            Mon!TestedInv, Mon!ItemsInv, Mon!Holds
<1>1. CASE Mon!Main
  BY <1>1 DEF Mon!Main, Mon!CreateConsumer, Mon!CreateProducer, Mon!JoinProducer, Mon!JoinConsumer,
              Mon!Join
<1>2. CASE Mon!Spurious
  BY <1>2 DEF Mon!Spurious
<1> QED BY <1>1, <1>2

\* A step of the program is one of a buffer of N slots: it uses one of them.
LEMMA MonImplements ==
  ASSUME Mon!Inv, MonStep, Contents = Mon!Contents, Contents' = Mon!Contents'
  PROVE  Mon!Inv' /\ [B!Next]_<<Contents, made, used>>
<1>1. CASE Mon!Put
  <2>1. /\ Contents = <<>> /\ Contents' = <<made + 1>> /\ made' = made + 1
        /\ UNCHANGED used /\ 0 < N
    BY <1>1, SlotAssumption
    DEF Mon!Put, Mon!PGoto, Mon!Inv, Mon!Typed, Mon!TestedInv, Mon!Contents
  <2>2. B!Insert
    BY <2>1 DEF B!Insert
  <2> QED BY <1>1, <2>2, MonItems DEF B!Next
<1>2. CASE Mon!Grab
  <2>1. Contents = <<buffer>> /\ Contents' = <<>> /\ used' = buffer /\ UNCHANGED made
    BY <1>2 DEF Mon!Grab, Mon!CGoto, Mon!Inv, Mon!TestedInv, Mon!Contents
  <2>2. B!Remove
    BY <2>1 DEF B!Remove
  <2> QED BY <1>2, <2>2, MonItems DEF B!Next
<1>3. CASE ~Mon!Put /\ ~Mon!Grab
  <2>1. Mon!Inv' /\ UNCHANGED <<buffer, made, used>>
    BY <1>3, MonProducer, MonConsumer, MonOther DEF MonStep
  <2> QED BY <2>1 DEF Mon!Contents
<1> QED BY <1>1, <1>2, <1>3

-----------------------------------------------------------------------------
(* information.c: a message waits or is in the hands of a process.         *)

MesStep == Mes!Producer \/ Mes!Consumer

LEMMA MesInit == Mes!Init => Mes!Inv
BY SlotAssumption DEF Mes!Init, Mes!Inv, Mes!Typed, Mes!Conserved

LEMMA MesImplements ==
  ASSUME Mes!Inv, MesStep, Contents = buffer, Contents' = buffer'
  PROVE  Mes!Inv' /\ [B!Next]_<<Contents, made, used>>
<1> USE SlotAssumption DEF Mes!Inv, Mes!Typed, Mes!Conserved
<1>1. CASE Mes!PReceive
  BY <1>1 DEF Mes!PReceive
<1>2. CASE Mes!PSend
  <2>1. /\ buffer' \in Seq(Nat) /\ Len(buffer') = Len(buffer) + 1
        /\ made' \in Nat /\ Len(buffer) \in Nat
    BY <1>2, AppendProperties, LenProperties DEF Mes!PSend
  <2>2. Mes!Inv' /\ Len(buffer) < N
    BY <1>2, <2>1 DEF Mes!PSend
  <2>3. B!Insert
    BY <1>2, <2>2 DEF Mes!PSend, B!Insert
  <2> QED BY <2>2, <2>3 DEF B!Next
<1>3. CASE Mes!SendEmpties
  BY <1>3 DEF Mes!SendEmpties
<1>4. CASE Mes!CReceive
  <2>1. /\ buffer' \in Seq(Nat) /\ Len(buffer') = Len(buffer) - 1
        /\ used' \in Nat /\ Len(buffer) \in Nat
    BY <1>4, HeadTailProperties, LenProperties DEF Mes!CReceive
  <2>2. Mes!Inv'
    BY <1>4, <2>1 DEF Mes!CReceive
  <2>3. B!Remove
    BY <1>4 DEF Mes!CReceive, B!Remove
  <2> QED BY <2>2, <2>3 DEF B!Next
<1>5. CASE Mes!CSend
  BY <1>5 DEF Mes!CSend
<1> QED BY <1>1, <1>2, <1>3, <1>4, <1>5 DEF MesStep, Mes!Producer, Mes!Consumer

-----------------------------------------------------------------------------
(* producer-consumer.c: correct until two updates of count overlap, or a   *)
(* wakeup comes after its test has become stale.                           *)

SleStep == Sle!Producer \/ Sle!Consumer

LEMMA SleInit == Sle!Init => Sle!Inv
<1> SUFFICES ASSUME Sle!Init PROVE Sle!Inv
  OBVIOUS
<1>1. Sle!Typed
  <2>1. m2 \in [producer : Int, consumer : Int]
    BY DEF Sle!Init
  <2>2. buffer \in Seq(Nat)
    BY EmptySeq DEF Sle!Init
  <2>3. m1 \in Int /\ made \in Nat /\ used \in Nat /\ ppc = "test" /\ cpc = "test"
    BY DEF Sle!Init
  <2>4. lost \in BOOLEAN /\ damaged \in BOOLEAN
    BY Zenon DEF Sle!Init
  <2> QED BY <2>1, <2>2, <2>3, <2>4 DEF Sle!Typed
<1>2. Sle!CountInv /\ Sle!WakeInv
  BY SlotAssumption DEF Sle!Init, Sle!CountInv, Sle!WakeInv, Sle!Hand
<1> QED BY <1>1, <1>2 DEF Sle!Inv

\* The insertion finds a free slot, since count was below N at the test, or when
\* the other process woke this one in time.
LEMMA SleInsert ==
  ASSUME Sle!Inv, Sle!Insert PROVE Sle!Inv' /\ (damaged' \/ Len(buffer) < N)
<1>1. /\ buffer' \in Seq(Nat) /\ Len(buffer') = Len(buffer) + 1
      /\ made' \in Nat /\ Len(buffer) \in Nat
  <2>1. made' \in Nat /\ buffer \in Seq(Nat)
    BY DEF Sle!Inv, Sle!Typed, Sle!Insert
  <2> QED BY <2>1, AppendProperties, LenProperties DEF Sle!Insert
<1>2. /\ ppc = "insert" /\ ppc' = "load"
      /\ UNCHANGED <<m1, m2, used, cpc, lost, damaged>>
  BY DEF Sle!Insert
<1>3. Sle!Typed'
  BY <1>1, <1>2 DEF Sle!Inv, Sle!Typed
<1>4. ~damaged => Sle!CountInv' /\ Len(buffer) < N
  BY <1>1, <1>2, SlotAssumption DEF Sle!Inv, Sle!Typed, Sle!CountInv, Sle!Hand
<1>5. ~damaged /\ ~lost => Sle!WakeInv'
  BY <1>2 DEF Sle!Inv, Sle!WakeInv
<1> QED BY <1>2, <1>3, <1>4, <1>5 DEF Sle!Inv

\* Until the count is damaged, remove_item finds an item.
LEMMA SleRemove ==
  ASSUME Sle!Inv, Sle!Remove PROVE Sle!Inv' /\ (damaged' \/ buffer # <<>>)
<1>1. /\ cpc = "remove" /\ cpc' = "load"
      /\ UNCHANGED <<m1, m2, made, ppc, lost, damaged>>
  BY DEF Sle!Remove
<1>2. ~damaged => Len(buffer) > 0
  BY <1>1, SlotAssumption DEF Sle!Inv, Sle!Typed, Sle!CountInv, Sle!Hand
<1>3. /\ buffer' \in Seq(Nat) /\ used' \in Nat /\ Len(buffer) \in Nat
      /\ ~damaged => buffer # <<>> /\ Len(buffer') = Len(buffer) - 1
  <2>1. buffer \in Seq(Nat)
    BY DEF Sle!Inv, Sle!Typed
  <2> QED BY <1>2, <2>1, HeadTailProperties, LenProperties, EmptySeq DEF Sle!Remove
<1>4. Sle!Typed'
  BY <1>1, <1>3 DEF Sle!Inv, Sle!Typed
<1>5. ~damaged => Sle!CountInv'
  BY <1>1, <1>3, SlotAssumption DEF Sle!Inv, Sle!Typed, Sle!CountInv, Sle!Hand
<1>6. ~damaged /\ ~lost => Sle!WakeInv'
  BY <1>1 DEF Sle!Inv, Sle!WakeInv
<1> QED BY <1>1, <1>3, <1>4, <1>5, <1>6 DEF Sle!Inv

\* The other steps move no item.
LEMMA SleProducer ==
  ASSUME Sle!Inv, Sle!Producer, ~Sle!Insert
  PROVE  Sle!Inv' /\ UNCHANGED <<buffer, made, used>>
<1> USE SlotAssumption
    DEF Sle!Inv, Sle!Typed, Sle!CountInv, Sle!WakeInv, Sle!Hand, Sle!data
<1>1. CASE Sle!PTest
  BY <1>1 DEF Sle!PTest
<1>2. CASE Sle!PSleep
  BY <1>2 DEF Sle!PSleep
<1>3. CASE Sle!PLoad
  BY <1>3 DEF Sle!PLoad
<1>4. CASE Sle!PStore
  BY <1>4 DEF Sle!PStore
<1>5. CASE Sle!PWake
  BY <1>5 DEF Sle!PWake
<1>6. CASE Sle!PWakeup
  <2>1. CASE cpc = "sleep"
    <3>1. /\ ppc = "wakeup" /\ ppc' = "test" /\ UNCHANGED <<m1, m2, buffer, made, used, cpc>>
          /\ damaged' \in BOOLEAN /\ lost' \in BOOLEAN
          /\ (~damaged' => ~damaged) /\ (~lost' => ~lost /\ m1 = 0)
      BY <1>6, <2>1 DEF Sle!PWakeup
    <3> QED BY <2>1, <3>1
  <2>2. CASE cpc = "asleep"
    <3>1. /\ ppc = "wakeup" /\ ppc' = "test" /\ cpc' = "remove"
          /\ UNCHANGED <<m1, m2, buffer, made, used>>
          /\ damaged' \in BOOLEAN /\ lost' \in BOOLEAN
          /\ (~damaged' => ~damaged /\ m1 # 0) /\ (~lost' => ~lost)
      BY <1>6, <2>2 DEF Sle!PWakeup
    <3> QED BY <2>2, <3>1
  <2>3. CASE cpc \notin {"sleep", "asleep"}
    <3>1. /\ ppc = "wakeup" /\ ppc' = "test" /\ UNCHANGED <<m1, m2, buffer, made, used, cpc>>
          /\ damaged' \in BOOLEAN /\ lost' \in BOOLEAN
          /\ (~damaged' => ~damaged) /\ (~lost' => ~lost)
      BY <1>6, <2>3 DEF Sle!PWakeup
    <3> QED BY <2>3, <3>1
  <2> QED BY <2>1, <2>2, <2>3
<1> QED BY <1>1, <1>2, <1>3, <1>4, <1>5, <1>6 DEF Sle!Producer

LEMMA SleConsumer ==
  ASSUME Sle!Inv, Sle!Consumer, ~Sle!Remove
  PROVE  Sle!Inv' /\ UNCHANGED <<buffer, made, used>>
<1> USE SlotAssumption
    DEF Sle!Inv, Sle!Typed, Sle!CountInv, Sle!WakeInv, Sle!Hand, Sle!data
<1>1. CASE Sle!CTest
  BY <1>1 DEF Sle!CTest
<1>2. CASE Sle!CSleep
  BY <1>2 DEF Sle!CSleep
<1>3. CASE Sle!CLoad
  BY <1>3 DEF Sle!CLoad
<1>4. CASE Sle!CStore
  BY <1>4 DEF Sle!CStore
<1>5. CASE Sle!CWake
  BY <1>5 DEF Sle!CWake
<1>6. CASE Sle!CWakeup
  <2>1. CASE ppc = "sleep"
    <3>1. /\ cpc = "wakeup" /\ cpc' = "test" /\ UNCHANGED <<m1, m2, buffer, made, used, ppc>>
          /\ damaged' \in BOOLEAN /\ lost' \in BOOLEAN
          /\ (~damaged' => ~damaged) /\ (~lost' => ~lost /\ m1 = N)
      BY <1>6, <2>1 DEF Sle!CWakeup
    <3> QED BY <2>1, <3>1
  <2>2. CASE ppc = "asleep"
    <3>1. /\ cpc = "wakeup" /\ cpc' = "test" /\ ppc' = "insert"
          /\ UNCHANGED <<m1, m2, buffer, made, used>>
          /\ damaged' \in BOOLEAN /\ lost' \in BOOLEAN
          /\ (~damaged' => ~damaged /\ m1 # N) /\ (~lost' => ~lost)
      BY <1>6, <2>2 DEF Sle!CWakeup
    <3> QED BY <2>2, <3>1
  <2>3. CASE ppc \notin {"sleep", "asleep"}
    <3>1. /\ cpc = "wakeup" /\ cpc' = "test" /\ UNCHANGED <<m1, m2, buffer, made, used, ppc>>
          /\ damaged' \in BOOLEAN /\ lost' \in BOOLEAN
          /\ (~damaged' => ~damaged) /\ (~lost' => ~lost)
      BY <1>6, <2>3 DEF Sle!CWakeup
    <3> QED BY <2>3, <3>1
  <2> QED BY <2>1, <2>2, <2>3
<1> QED BY <1>1, <1>2, <1>3, <1>4, <1>5, <1>6 DEF Sle!Consumer

LEMMA SleImplements ==
  ASSUME Sle!Inv, SleStep, Contents = buffer, Contents' = buffer'
  PROVE  Sle!Inv' /\ [damaged' \/ B!Next]_<<Contents, made, used>>
<1>1. CASE Sle!Insert
  BY <1>1, SleInsert DEF Sle!Insert, B!Next, B!Insert
<1>2. CASE Sle!Remove
  BY <1>2, SleRemove DEF Sle!Remove, B!Next, B!Remove
<1>3. CASE ~Sle!Insert /\ ~Sle!Remove
  BY <1>3, SleProducer, SleConsumer DEF SleStep
<1> QED BY <1>1, <1>2, <1>3

-----------------------------------------------------------------------------
(* PriducerConsumer.java: correct until a wait returns too early.          *)

JavStep == Jav!Producer \/ Jav!Consumer \/ (~damaged /\ Jav!Spurious)

\* Indices of the ring, at most one turn around it.
Ring(k) == k % N
LEMMA RingTurn == \A k \in 0..(2 * N - 1) : Ring(k) = IF k < N THEN k ELSE k - N
BY SlotAssumption DEF Ring

\* The slots of the items, and what an insertion and a removal do to the indices.
LEMMA RingSlots ==
  ASSUME NEW lo \in 0..(N - 1), NEW count \in 0..N
  PROVE  /\ Ring(lo + 1) \in 0..(N - 1)
         /\ Ring(lo + count) \in 0..(N - 1)
         /\ \A k \in 1..count : Ring(lo + k - 1) \in 0..(N - 1)
         /\ count < N => \A k \in 1..count : Ring(lo + k - 1) # Ring(lo + count)
BY SlotAssumption, RingTurn

LEMMA RingInsert ==
  ASSUME NEW lo \in 0..(N - 1), NEW count \in 0..(N - 1)
  PROVE  Ring(Ring(lo + count) + 1) = Ring(lo + (count + 1))
BY SlotAssumption, RingTurn

LEMMA RingRemove ==
  ASSUME NEW lo \in 0..(N - 1), NEW k \in 0..(N - 1)
  PROVE  Ring(Ring(lo + 1) + k) = Ring(lo + (k + 1))
BY SlotAssumption, RingTurn

LEMMA JavInit == Jav!Init => Jav!Inv
<1> SUFFICES ASSUME Jav!Init PROVE Jav!Inv
  OBVIOUS
<1>1. 0 % N = 0 /\ 0 \in 0..(N - 1)
  BY SlotAssumption
<1>2. buffer \in [0..(N - 1) -> Nat]
  BY DEF Jav!Init
<1>3. m3 = (m2 + m1) % N /\ m2 \in 0..(N - 1) /\ m3 \in 0..(N - 1)
  <2>1. m1 = 0 /\ m2 = 0 /\ m3 = 0 /\ 0 + 0 = 0
    BY DEF Jav!Init
  <2> QED BY <1>1, <2>1
<1>4. m1 \in 0..N /\ made \in Nat /\ used \in Nat
  BY SlotAssumption DEF Jav!Init
<1>5. damaged \in BOOLEAN
  BY Zenon DEF Jav!Init
<1> QED BY <1>2, <1>3, <1>4, <1>5 DEF Jav!Inv

LEMMA JavPut ==
  ASSUME Jav!Inv, Jav!Put, m1 # N
  PROVE  Jav!Inv' /\ Len(Jav!Contents) < N /\ Jav!Contents' = Append(Jav!Contents, made')
<1>1. /\ m1 \in 0..(N - 1) /\ m1' = m1 + 1 /\ m1' \in 0..N /\ m2 \in 0..(N - 1) /\ m2' = m2
      /\ m3 = Ring(m2 + m1) /\ m3 \in 0..(N - 1) /\ m3' = Ring(m3 + 1)
      /\ made' \in Nat /\ used' \in Nat /\ damaged' \in BOOLEAN
      /\ buffer \in [0..(N - 1) -> Nat] /\ buffer' = [buffer EXCEPT ![m3] = made']
  BY SlotAssumption DEF Jav!Inv, Jav!Put, Ring
<1>2. m3' = Ring(m2' + m1') /\ m3' \in 0..(N - 1)
  BY <1>1, RingInsert, RingSlots
<1>3. Jav!Inv'
  BY <1>1, <1>2 DEF Jav!Inv, Ring
<1> DEFINE C == [k \in 1..m1 |-> buffer[Ring(m2 + k - 1)]]
           D == [k \in 1..(m1 + 1) |-> buffer'[Ring(m2 + k - 1)]]
<1>4. Jav!Contents = C /\ Jav!Contents' = D
  BY <1>1 DEF Jav!Contents, Ring
<1>5. /\ \A k \in 1..m1 : Ring(m2 + k - 1) \in 0..(N - 1) /\ Ring(m2 + k - 1) # m3
      /\ m2 + (m1 + 1) - 1 = m2 + m1
  <2>1. m1 \in 0..N /\ m1 < N
    BY <1>1, SlotAssumption
  <2>2. \A k \in 1..m1 : Ring(m2 + k - 1) \in 0..(N - 1) /\ Ring(m2 + k - 1) # m3
    BY <1>1, <2>1, RingSlots
  <2> QED BY <1>1, <2>2
<1>6. C \in Seq(Nat) /\ Len(C) = m1
  <2>1. \A k \in 1..m1 : buffer[Ring(m2 + k - 1)] \in Nat
    BY <1>1, <1>5
  <2> QED BY <1>1, <2>1
<1>7. Append(C, made') \in Seq(Nat) /\ Len(Append(C, made')) = m1 + 1
  BY <1>1, <1>6, AppendProperties
<1>8. \A k \in 1..(m1 + 1) : D[k] = Append(C, made')[k] /\ D[k] \in Nat
  <2> SUFFICES ASSUME NEW k \in 1..(m1 + 1) PROVE D[k] = Append(C, made')[k] /\ D[k] \in Nat
    OBVIOUS
  <2>1. CASE k = m1 + 1
    BY <1>1, <1>5, <1>6, <2>1, AppendProperties
  <2>2. CASE k \in 1..m1
    <3>1. D[k] = buffer[Ring(m2 + k - 1)] /\ D[k] \in Nat
      BY <1>1, <1>5, <2>2
    <3>2. C[k] = buffer[Ring(m2 + k - 1)]
      BY <2>2
    <3>3. Append(C, made')[k] = C[k]
      BY <1>1, <1>6, <2>2, AppendProperties
    <3> HIDE DEF C, D
    <3> QED BY <3>1, <3>2, <3>3
  <2> QED BY <1>1, <2>1, <2>2
<1>9. D \in Seq(Nat) /\ Len(D) = m1 + 1
  <2>1. ASSUME NEW k \in 1..(m1 + 1) PROVE buffer'[Ring(m2 + k - 1)] \in Nat
    <3>1. D[k] = buffer'[Ring(m2 + k - 1)]
      OBVIOUS
    <3> HIDE DEF C, D
    <3> QED BY <1>8, <3>1
  <2>2. m1 + 1 \in Nat
    BY <1>1
  <2> QED BY <2>1, <2>2
<1>10. D = Append(C, made')
  <2> HIDE DEF C, D
  <2> QED BY <1>7, <1>8, <1>9, SeqEqual
<1> HIDE DEF C, D
<1> QED BY <1>1, <1>3, <1>4, <1>6, <1>10, SlotAssumption

LEMMA JavTake ==
  ASSUME Jav!Inv, Jav!Take, m1 # 0
  PROVE  /\ Jav!Inv' /\ Jav!Contents # <<>>
         /\ used' = Head(Jav!Contents) /\ Jav!Contents' = Tail(Jav!Contents)
<1>1. /\ m1 \in 1..N /\ m1' = m1 - 1 /\ m1' \in 0..(N - 1) /\ m2 \in 0..(N - 1)
      /\ m2' = Ring(m2 + 1) /\ m3 = Ring(m2 + m1) /\ m3 \in 0..(N - 1) /\ m3' = m3
      /\ made' \in Nat /\ damaged' \in BOOLEAN /\ used' = buffer[m2]
      /\ buffer \in [0..(N - 1) -> Nat] /\ buffer' = buffer
  BY SlotAssumption DEF Jav!Inv, Jav!Take, Ring
<1>2. /\ \A k \in 0..(m1 - 1) : Ring(m2' + k) = Ring(m2 + (k + 1))
      /\ Ring(m2) = m2 /\ m2' \in 0..(N - 1)
  <2>1. \A k \in 0..(m1 - 1) : k \in 0..(N - 1)
    BY <1>1, SlotAssumption
  <2>2. Ring(m2) = m2
    BY <1>1, SlotAssumption, RingTurn
  <2>3. m2' \in 0..(N - 1)
    BY <1>1, SlotAssumption, RingSlots
  <2> QED BY <1>1, <2>1, <2>2, <2>3, RingRemove
<1>3. Jav!Inv'
  <2>1. m3' = Ring(m2' + m1')
    BY <1>1, <1>2
  <2>2. used' \in Nat /\ m1' \in 0..N
    BY <1>1, SlotAssumption
  <2> QED BY <1>1, <1>2, <2>1, <2>2 DEF Jav!Inv, Ring
<1> DEFINE C == [k \in 1..m1 |-> buffer[Ring(m2 + k - 1)]]
           D == [k \in 1..(m1 - 1) |-> buffer[Ring(m2' + k - 1)]]
<1>4. Jav!Contents = C /\ Jav!Contents' = D
  BY <1>1 DEF Jav!Contents, Ring
<1>5. \A k \in 1..m1 : buffer[Ring(m2 + k - 1)] \in Nat
  BY <1>1, RingSlots, SlotAssumption
<1>6. C \in Seq(Nat) /\ Len(C) = m1 /\ m1 \in Nat
  BY <1>1, <1>5
<1>7. \A k \in 1..(m1 - 1) :
        /\ Ring(m2' + k - 1) = Ring(m2 + (k + 1) - 1)
        /\ D[k] = C[k + 1]
        /\ buffer[Ring(m2' + k - 1)] \in Nat
  <2> SUFFICES ASSUME NEW k \in 1..(m1 - 1)
               PROVE  /\ Ring(m2' + k - 1) = Ring(m2 + (k + 1) - 1)
                      /\ D[k] = C[k + 1]
                      /\ buffer[Ring(m2' + k - 1)] \in Nat
    OBVIOUS
  <2>1. k - 1 \in 0..(m1 - 1) /\ k + 1 \in 1..m1 /\ k \in Int
    BY <1>1
  <2>2. Ring(m2' + (k - 1)) = Ring(m2 + ((k - 1) + 1))
    BY <1>2, <2>1
  <2>3. m2' + (k - 1) = m2' + k - 1 /\ m2 + ((k - 1) + 1) = m2 + (k + 1) - 1
    BY <1>1, <1>2, <2>1
  <2>4. Ring(m2' + k - 1) = Ring(m2 + (k + 1) - 1)
    BY <2>2, <2>3
  <2>5. buffer[Ring(m2' + k - 1)] \in Nat
    BY <1>5, <2>1, <2>4
  <2>6. D[k] = C[k + 1]
    BY <2>1, <2>4
  <2> QED BY <2>4, <2>5, <2>6
<1>8. D \in Seq(Nat) /\ Len(D) = m1 - 1
  <2>1. m1 - 1 \in Nat
    BY <1>1
  <2>2. \A k \in 1..(m1 - 1) : buffer[Ring(m2' + k - 1)] \in Nat
    BY <1>7
  <2> QED BY <2>1, <2>2
<1>9. C[1] = used' /\ C # <<>>
  <2>1. m2 + 1 - 1 = m2 /\ 1 \in 1..m1
    BY <1>1
  <2>2. C[1] = buffer[Ring(m2)]
    BY <2>1
  <2> QED BY <1>1, <1>2, <1>6, <2>1, <2>2
<1> HIDE DEF C, D
<1>10. used' = Head(C)
  BY <1>6, <1>9, HeadTailProperties
<1>11. Tail(C) \in Seq(Nat) /\ Len(Tail(C)) = m1 - 1 /\ \A k \in 1..(m1 - 1) : Tail(C)[k] = C[k + 1]
  BY <1>6, <1>9, HeadTailProperties
<1>12. D = Tail(C)
  BY <1>7, <1>8, <1>11, SeqEqual
<1> QED BY <1>3, <1>4, <1>9, <1>10, <1>12

\* A step of the program is one of a buffer of N slots, but for the return from a
\* wait whose condition does not hold.
LEMMA JavImplements ==
  ASSUME Jav!Inv, JavStep, Contents = Jav!Contents, Contents' = Jav!Contents'
  PROVE  Jav!Inv' /\ [damaged' \/ B!Next]_<<Contents, made, used>>
<1>1. ASSUME Jav!Put, m1 # N
      PROVE  Jav!Inv' /\ [damaged' \/ B!Next]_<<Contents, made, used>>
  <2>1. B!Insert
    BY <1>1, JavPut DEF Jav!Put, B!Insert
  <2> QED BY <1>1, <2>1, JavPut DEF B!Next
<1>2. ASSUME Jav!Take, m1 # 0
      PROVE  Jav!Inv' /\ [damaged' \/ B!Next]_<<Contents, made, used>>
  <2>1. B!Remove
    BY <1>2, JavTake DEF Jav!Take, B!Remove
  <2> QED BY <1>2, <2>1, JavTake DEF B!Next
<1>3. ASSUME Jav!Damage PROVE Jav!Inv' /\ damaged'
  BY <1>3 DEF Jav!Damage, Jav!Inv, Jav!slots
<1>4. ASSUME UNCHANGED <<buffer, m1, m2, m3, made, used, damaged>>
      PROVE  Jav!Inv' /\ UNCHANGED <<Contents, made, used>>
  BY <1>4 DEF Jav!Inv, Jav!Contents
<1>5. CASE Jav!Producer
  BY <1>1, <1>3, <1>4, <1>5 DEF Jav!Producer, Jav!Insert, Jav!InsertResumes, Jav!slots
<1>6. CASE Jav!Consumer
  BY <1>2, <1>3, <1>4, <1>6 DEF Jav!Consumer, Jav!Remove, Jav!RemoveResumes, Jav!slots
<1>7. CASE Jav!Spurious
  BY <1>4, <1>7 DEF Jav!Spurious, Jav!slots
<1> QED BY <1>5, <1>6, <1>7 DEF JavStep

-----------------------------------------------------------------------------
(* workload_get_path: until an increment comes between another thread's    *)
(* and its reading, the counter is in no entry while a thread has yet to   *)
(* read it, and each call returns an entry of its own.                     *)

LEMMA PatInit == Pat!Init => Pat!Inv
<1> SUFFICES ASSUME Pat!Init PROVE Pat!Inv
  OBVIOUS
<1>1. /\ \A t \in Threads : ppc[t] = "lock" /\ buffer[t] = <<>> /\ cpc[t] = 0
      /\ ppc = [t \in Threads |-> "lock"] /\ buffer = [t \in Threads |-> <<>>]
      /\ cpc = [t \in Threads |-> 0] /\ m1 = "free" /\ m2 = 0
  BY DEF Pat!Init
<1>2. damaged \in BOOLEAN
  BY Zenon DEF Pat!Init
<1>3. Pat!Typed
  BY <1>1, <1>2, EmptySeq DEF Pat!Typed
<1>4. Pat!LockInv
  BY <1>1, ThreadsAssumption DEF Pat!LockInv
<1>5. Pat!EntriesInv
  BY <1>1, EmptySeq DEF Pat!EntriesInv, Pat!Reading
<1> QED BY <1>3, <1>4, <1>5 DEF Pat!Inv

\* The steps that move neither the counter nor the entries.
LEMMA PatOther ==
  ASSUME Pat!Inv, NEW t \in Threads, Pat!Lock(t) \/ Pat!Load(t) \/ Pat!Unlock(t)
  PROVE  Pat!Inv'
<1> USE DEF Pat!Goto, Pat!Typed
<1>1. Pat!Typed /\ Pat!LockInv
  BY DEF Pat!Inv
<1>2. Pat!Typed'
  BY <1>1 DEF Pat!Lock, Pat!Load, Pat!Unlock
<1>3. Pat!LockInv'
  BY <1>1, ThreadsAssumption DEF Pat!Lock, Pat!Load, Pat!Unlock, Pat!LockInv
<1>4. Pat!Reading' = Pat!Reading /\ UNCHANGED <<buffer, m2, damaged>>
  BY <1>1 DEF Pat!Lock, Pat!Load, Pat!Unlock, Pat!Reading
<1>5. ~damaged' => Pat!EntriesInv'
  BY <1>4 DEF Pat!Inv, Pat!EntriesInv
<1> QED BY <1>2, <1>3, <1>5 DEF Pat!Inv

LEMMA PatStore ==
  ASSUME Pat!Inv, NEW t \in Threads, Pat!Store(t)
  PROVE  Pat!Inv'
<1>1. /\ Pat!Typed /\ Pat!LockInv /\ ppc[t] = "store" /\ ppc' = [ppc EXCEPT ![t] = "unlock"]
      /\ m2' = cpc[t] + 1 /\ cpc[t] = m2 /\ m1 = t /\ UNCHANGED <<m1, cpc, buffer>>
  BY DEF Pat!Inv, Pat!Store, Pat!Goto, Pat!LockInv
<1>2. damaged' \in BOOLEAN /\ (damaged => damaged')
  BY Zenon DEF Pat!Store
<1>3. Pat!Typed'
  BY <1>1, <1>2 DEF Pat!Typed
<1>4. Pat!LockInv'
  BY <1>1 DEF Pat!Typed, Pat!LockInv
<1>5. ASSUME ~damaged' PROVE Pat!EntriesInv'
  <2>1. Pat!EntriesInv /\ ~\E u \in Threads \ {t} : ppc[u] \in {"unlock", "read"}
    BY <1>2, <1>5 DEF Pat!Inv, Pat!Store
  <2>2. Pat!Reading' = {t}
    BY <1>1, <2>1 DEF Pat!Typed, Pat!Reading
  <2>3. \A u \in Threads : \A k \in 1..Len(buffer[u]) : buffer[u][k] \in Nat /\ buffer[u][k] <= m2
    BY <1>1, <2>1 DEF Pat!Typed, Pat!EntriesInv
  <2>4. m2 \in Nat /\ m2' = m2 + 1
    BY <1>1 DEF Pat!Typed
  <2> QED BY <1>1, <2>1, <2>2, <2>3, <2>4 DEF Pat!EntriesInv
<1> QED BY <1>3, <1>4, <1>5 DEF Pat!Inv

LEMMA PatRead ==
  ASSUME Pat!Inv, NEW t \in Threads, Pat!Read(t)
  PROVE  Pat!Inv'
<1>1. /\ Pat!Typed /\ Pat!LockInv /\ ppc[t] = "read" /\ ppc' = [ppc EXCEPT ![t] = "lock"]
      /\ buffer' = [buffer EXCEPT ![t] = Append(buffer[t], m2)]
      /\ UNCHANGED <<m1, m2, cpc, damaged>>
  BY DEF Pat!Inv, Pat!Read, Pat!Goto
<1>2. Append(buffer[t], m2) \in Seq(Nat)
  BY <1>1, AppendProperties DEF Pat!Typed
<1>3. Pat!Typed'
  BY <1>1, <1>2 DEF Pat!Typed
<1>4. Pat!LockInv'
  BY <1>1 DEF Pat!Typed, Pat!LockInv
<1>5. ASSUME ~damaged PROVE Pat!EntriesInv'
  <2>1. Pat!EntriesInv /\ t \in Pat!Reading
    BY <1>1, <1>5 DEF Pat!Inv, Pat!Reading
  <2>2. Pat!Reading' = {}
    BY <1>1, <2>1 DEF Pat!Typed, Pat!Reading, Pat!EntriesInv
  <2>3. ASSUME NEW u \in Threads, NEW k \in 1..Len(buffer'[u])
        PROVE  /\ buffer'[u][k] \in Nat
               /\ \/ k \in 1..Len(buffer[u]) /\ buffer'[u][k] = buffer[u][k] /\ buffer[u][k] < m2
                  \/ u = t /\ k = Len(buffer[t]) + 1 /\ buffer'[u][k] = m2
    <3>1. CASE u = t
      <4>1. /\ buffer'[t] = Append(buffer[t], m2) /\ Len(buffer'[t]) = Len(buffer[t]) + 1
            /\ Len(buffer[t]) \in Nat /\ buffer[t] \in Seq(Nat) /\ m2 \in Nat
        BY <1>1, <1>2, AppendProperties, LenProperties DEF Pat!Typed
      <4>2. CASE k = Len(buffer[t]) + 1
        BY <3>1, <4>1, <4>2, AppendProperties
      <4>3. CASE k \in 1..Len(buffer[t])
        <5>1. buffer'[t][k] = buffer[t][k] /\ buffer[t][k] \in Nat
          BY <4>1, <4>3, AppendProperties
        <5>2. buffer[t][k] < m2
          BY <2>1, <4>3 DEF Pat!EntriesInv
        <5> QED BY <3>1, <4>3, <5>1, <5>2
      <4> QED BY <3>1, <4>1, <4>2, <4>3
    <3>2. CASE u # t
      <4>1. buffer'[u] = buffer[u] /\ buffer[u] \in Seq(Nat)
        BY <1>1, <3>2 DEF Pat!Typed
      <4>2. buffer[u][k] < m2
        BY <2>1, <4>1 DEF Pat!EntriesInv
      <4> QED BY <4>1, <4>2
    <3> QED BY <3>1, <3>2
  <2>4. \A u \in Threads : \A k \in 1..Len(buffer'[u]) : buffer'[u][k] <= m2'
    BY <1>1, <2>3 DEF Pat!Typed
  <2>5. ASSUME NEW u \in Threads, NEW v \in Threads, NEW k \in 1..Len(buffer'[u]),
               NEW l \in 1..Len(buffer'[v]), buffer'[u][k] = buffer'[v][l]
        PROVE  u = v /\ k = l
    <3>1. m2 \in Nat
      BY <1>1 DEF Pat!Typed
    <3>2. CASE k \in 1..Len(buffer[u]) /\ buffer'[u][k] = buffer[u][k] /\ buffer[u][k] < m2
      <4>1. buffer'[v][l] # m2
        BY <2>3, <2>5, <3>1, <3>2
      <4>2. l \in 1..Len(buffer[v]) /\ buffer'[v][l] = buffer[v][l]
        BY <2>3, <4>1
      <4>3. \A x, y \in Threads : \A i \in 1..Len(buffer[x]), j \in 1..Len(buffer[y]) :
              buffer[x][i] = buffer[y][j] => x = y /\ i = j
        BY <2>1 DEF Pat!EntriesInv
      <4>4. buffer[u][k] = buffer[v][l]
        BY <2>5, <3>2, <4>2
      <4> QED BY <3>2, <4>2, <4>3, <4>4
    <3>3. CASE u = t /\ k = Len(buffer[t]) + 1 /\ buffer'[u][k] = m2
      <4>1. \/ buffer'[v][l] = buffer[v][l] /\ buffer[v][l] < m2
            \/ v = t /\ l = Len(buffer[t]) + 1
        BY <2>3
      <4>2. buffer'[v][l] = m2 /\ buffer'[v][l] \in Nat
        BY <2>3, <2>5, <3>3
      <4>3. ~(m2 < m2)
        BY <3>1
      <4> QED BY <3>3, <4>1, <4>2, <4>3
    <3> QED BY <2>3, <3>2, <3>3
  <2> QED BY <2>2, <2>4, <2>5 DEF Pat!EntriesInv
<1> QED BY <1>1, <1>3, <1>4, <1>5 DEF Pat!Inv

LEMMA PatImplements ==
  ASSUME Pat!Inv, NEW t \in Threads, Pat!Thread(t), UNCHANGED <<made, used>>,
         Contents = <<>>, Contents' = <<>>
  PROVE  Pat!Inv' /\ [damaged' \/ B!Next]_<<Contents, made, used>>
BY PatOther, PatStore, PatRead DEF Pat!Thread

-----------------------------------------------------------------------------
(* The programs together.                                                  *)

LEMMA InitInv == Init => Inv
BY SemInit, MonInit, MesInit, SleInit, JavInit, PatInit DEF Init, Inv

\* The buffer of each program is empty at the start.
LEMMA InitBuffer == Init => B!Init
<1> SUFFICES ASSUME Init PROVE Contents = <<>> /\ made = 0 /\ used = 0
  BY DEF B!Init
<1>1. CASE program = "semaphores"
  BY <1>1 DEF Init, Contents, Sem!Init
<1>2. CASE program = "sleep"
  BY <1>2 DEF Init, Contents, Sle!Init
<1>3. CASE program = "monitor"
  BY <1>3 DEF Init, Contents, Mon!Init, Mon!Contents
<1>4. CASE program = "messages"
  BY <1>4 DEF Init, Contents, Mes!Init
<1>5. CASE program = "java"
  <2>1. m1 = 0 /\ made = 0 /\ used = 0 /\ Contents = Jav!Contents
    BY <1>5 DEF Init, Contents, Jav!Init
  <2>2. Jav!Contents = <<>>
    BY <2>1, EmptySeq DEF Jav!Contents
  <2> QED BY <2>1, <2>2
<1>6. CASE program = "paths"
  BY <1>6 DEF Init, Contents
<1> QED BY <1>1, <1>2, <1>3, <1>4, <1>5, <1>6 DEF Init

\* A step of the system is one of its program.
LEMMA NextCases ==
  ASSUME Next
  PROVE  /\ UNCHANGED program
         /\ \/ program = "semaphores" /\ SemStep
            \/ program = "sleep" /\ SleStep
            \/ program = "monitor" /\ MonStep
            \/ program = "messages" /\ MesStep
            \/ program = "java" /\ JavStep
            \/ /\ program = "paths" /\ UNCHANGED <<made, used>>
               /\ \E t \in Threads : Pat!Thread(t)
BY DEF Next, Producer, Consumer, Main, Wakes, Thread, SemStep, SleStep, MonStep, MesStep, JavStep

LEMMA StepInv ==
  ASSUME Inv, Next
  PROVE  Inv' /\ [damaged' \/ B!Next]_<<Contents, made, used>>
<1> USE NextCases DEF Inv, Contents
<1>1. CASE program = "semaphores"
  BY <1>1, SemImplements
<1>2. CASE program = "sleep"
  BY <1>2, SleImplements
<1>3. CASE program = "monitor"
  BY <1>3, MonImplements
<1>4. CASE program = "messages"
  BY <1>4, MesImplements
<1>5. CASE program = "java"
  BY <1>5, JavImplements
<1>6. CASE program = "paths"
  BY <1>6, PatImplements
<1> QED BY <1>1, <1>2, <1>3, <1>4, <1>5, <1>6

LEMMA StutterInv ==
  ASSUME Inv, UNCHANGED vars
  PROVE  Inv' /\ UNCHANGED <<Contents, made, used>>
<1> USE DEF vars, state
<1>1. CASE program = "semaphores"
  BY <1>1 DEF Inv, Contents, Sem!Inv, Sem!Typed, Sem!MutexCounted, Sem!Counted, Sem!Hand
<1>2. CASE program = "sleep"
  BY <1>2 DEF Inv, Contents, Sle!Inv, Sle!Typed, Sle!CountInv, Sle!WakeInv, Sle!Hand
<1>3. CASE program = "monitor"
  BY <1>3
  DEF Inv, Contents, Mon!Contents, Mon!Inv, Mon!Typed, Mon!LockInv, Mon!TestedInv,
      Mon!ItemsInv, Mon!Holds
<1>4. CASE program = "messages"
  BY <1>4 DEF Inv, Contents, Mes!Inv, Mes!Typed, Mes!Conserved
<1>5. CASE program = "java"
  BY <1>5 DEF Inv, Contents, Jav!Contents, Jav!Inv
<1>6. CASE program = "paths"
  BY <1>6
  DEF Inv, Contents, Pat!Inv, Pat!Typed, Pat!LockInv, Pat!EntriesInv, Pat!Reading
<1>7. CASE program \notin {"semaphores", "sleep", "monitor", "messages", "java", "paths"}
  BY <1>7 DEF Inv, Contents
<1> QED BY <1>1, <1>2, <1>3, <1>4, <1>5, <1>6, <1>7

\* The invariants of all programs: a thread that acts under a lock holds it and
\* what it tested, and the counts are those of the items, until the code's own
\* races (buffer-mutex.c 16, 31; mutex-pro-con.c 14-32; producer-consumer.c).
THEOREM Invariance == Spec => []Inv
<1>1. Inv /\ [Next]_vars => Inv'
  BY StepInv, StutterInv
<1> QED BY InitInv, <1>1, PTL DEF Spec

\* Every program is a buffer of N slots, whatever the interleaving, until the
\* races of producer-consumer.c (overlapping updates of count, 13 and 26; a stale
\* wakeup, 14 and 27) and PriducerConsumer.java 43.
THEOREM Refinement == Spec => ImplementsBuffer
<1>1. Inv /\ [Next]_vars => [damaged' \/ B!Next]_<<Contents, made, used>>
  BY StepInv, StutterInv
<1> QED BY InitBuffer, Invariance, <1>1, PTL DEF Spec, ImplementsBuffer

\* The semaphores count the slots, the critical sections exclude each other and
\* no message is lost.
THEOREM Slots_conserved == Spec => []SlotsConserved
<1>1. Inv => SlotsConserved
  BY DEF Inv, SlotsConserved, Sem!Inv, Sem!Typed, Sem!MutexCounted, Sem!Exclusive,
         Sem!Hand, Mes!Inv
<1> QED BY Invariance, <1>1, PTL

\* A process that sleeps beside an item, or a free slot, was passed by a wakeup on
\* its way to sleep, or the updates of count overlapped, or a stale wakeup came
\* (producer-consumer.c 11-14, 24-27).
THEOREM Sleep_has_cause == Spec => []SleepHasCause
<1>1. Inv => SleepHasCause
  BY SlotAssumption
  DEF Inv, SleepHasCause, Sle!Inv, Sle!Typed, Sle!CountInv, Sle!WakeInv, Sle!Overslept,
      Sle!ToWakeup, Sle!Hand
<1> QED BY Invariance, <1>1, PTL

\* The entries of the threads are distinct until an increment overlaps a reading.
THEOREM Paths_once == Spec => []PathsOnce
<1>1. Inv => PathsOnce
  <2> SUFFICES ASSUME Inv, program = "paths", ~damaged PROVE PathsOnce
    BY DEF PathsOnce
  <2>1. Pat!Typed /\ Pat!EntriesInv
    BY DEF Inv, Pat!Inv
  <2>2. \A t \in Threads : DOMAIN buffer[t] = 1..Len(buffer[t])
    BY <2>1, LenProperties DEF Pat!Typed
  <2> QED BY <2>1, <2>2 DEF PathsOnce, Pat!EntriesInv
<1> QED BY Invariance, <1>1, PTL

-----------------------------------------------------------------------------
(* The two processes of a program never wait for each other.               *)

\* At a down of a semaphore that is 0, a wait or a lock that is held, asleep, at a
\* receive from an empty mailbox, in wait().
ProducerWaits ==
  \/ program = "semaphores" /\ \/ ppc = "down_empty" /\ m2 = 0
                               \/ ppc = "down_mutex" /\ m1 = 0
  \/ program = "sleep" /\ ppc = "asleep"
  \/ program = "monitor" /\ (ppc = "wait" \/ (ppc \in {"lock", "resume"} /\ m1 # "free"))
  \/ program = "messages" /\ ppc = "receive" /\ m1 = 0
  \/ program = "java" /\ ppc = "wait"
ConsumerWaits ==
  \/ program = "semaphores" /\ \/ cpc = "down_full" /\ m3 = 0
                               \/ cpc = "c_down_mutex" /\ m1 = 0
  \/ program = "sleep" /\ cpc = "asleep"
  \/ program = "monitor" /\ (cpc = "wait" \/ (cpc \in {"lock", "resume"} /\ m1 # "free"))
  \/ program = "messages" /\ cpc = "receive" /\ buffer = <<>>
  \/ program = "java" /\ cpc = "wait"

\* Never both, but for the three races of producer-consumer.c: a wakeup that meets a
\* process on its way to sleep, overlapping updates of count, and a stale wakeup.
NeverBothWait == ProducerWaits /\ ConsumerWaits => program = "sleep" /\ (lost \/ damaged)

\* Whoever waits in one of the two monitors still has reason to: the other's
\* signal or notify comes in the step that ends it.  information.c has sent all
\* its empty messages before the consumer receives.
WaitInv ==
  /\ program = "monitor" => /\ m1 \in {"free", "producer", "consumer"}
                            /\ ppc = "wait" => buffer # 0
                            /\ cpc = "wait" => buffer = 0
  /\ program = "messages" => m2 \in Nat /\ (cpc # "start" => m2 = N)
  /\ program = "java" => (ppc = "wait" => m1 = N) /\ (cpc = "wait" => m1 = 0)

LEMMA InitWaitInv == Init => WaitInv
BY DEF Init, WaitInv, Mon!Init, Mes!Init, Jav!Init

LEMMA MonWaits ==
  ASSUME WaitInv, Inv, program = "monitor", UNCHANGED program, MonStep
  PROVE  WaitInv'
<1> USE DEF WaitInv, Inv, Mon!Inv, Mon!Typed, Mon!Unlock, Mon!items, Mon!PGoto, Mon!CGoto
<1>1. CASE Mon!Producer
  BY <1>1
  DEF Mon!Producer, Mon!PLock, Mon!PTest, Mon!PWait, Mon!PResume, Mon!Put, Mon!PUnlock, Mon!Lock
<1>2. CASE Mon!Consumer
  BY <1>2
  DEF Mon!Consumer, Mon!CLock, Mon!CTest, Mon!CWait, Mon!CResume, Mon!Grab, Mon!CUnlock, Mon!Lock
<1>3. CASE Mon!Main
  <2>1. UNCHANGED <<buffer, m1>> /\ ppc' \in {ppc, "lock"} /\ cpc' \in {cpc, "lock"}
    BY <1>3 DEF Mon!Main, Mon!CreateConsumer, Mon!CreateProducer, Mon!JoinProducer,
                Mon!JoinConsumer, Mon!Join, Mon!threads
  <2> HIDE DEF Inv
  <2> QED BY <2>1
<1>4. CASE Mon!Spurious
  BY <1>4 DEF Mon!Spurious
<1> QED BY <1>1, <1>2, <1>3, <1>4 DEF MonStep

LEMMA MesWaits ==
  ASSUME WaitInv, Inv, program = "messages", UNCHANGED program, MesStep
  PROVE  WaitInv'
<1>1. CASE Mes!Producer
  BY <1>1 DEF WaitInv, Mes!Producer, Mes!PReceive, Mes!PSend
<1>2. CASE Mes!Consumer
  BY <1>2, SlotAssumption DEF WaitInv, Mes!Consumer, Mes!SendEmpties, Mes!CReceive, Mes!CSend
<1> QED BY <1>1, <1>2 DEF MesStep

LEMMA JavWaits ==
  ASSUME WaitInv, Inv, program = "java", UNCHANGED program, JavStep
  PROVE  WaitInv'
<1>1. m1 \in 0..N /\ N \in Nat \ {0}
  BY SlotAssumption DEF Inv, Jav!Inv
<1>2. CASE Jav!Producer
  BY <1>1, <1>2
  DEF WaitInv, Jav!Producer, Jav!Insert, Jav!InsertResumes, Jav!Put, Jav!Damage, Jav!Notified,
      Jav!slots
<1>3. CASE Jav!Consumer
  BY <1>1, <1>3
  DEF WaitInv, Jav!Consumer, Jav!Remove, Jav!RemoveResumes, Jav!Take, Jav!Damage, Jav!Notified,
      Jav!slots
<1>4. CASE Jav!Spurious
  BY <1>4 DEF WaitInv, Jav!Spurious, Jav!slots
<1> QED BY <1>2, <1>3, <1>4 DEF JavStep

LEMMA StepWaitInv == Inv /\ WaitInv /\ [Next]_vars => WaitInv'
<1> SUFFICES ASSUME Inv, WaitInv, [Next]_vars PROVE WaitInv'
  OBVIOUS
<1>1. CASE UNCHANGED vars
  BY <1>1 DEF vars, state, WaitInv
<1>2. CASE Next
  <2>1. CASE program \in {"semaphores", "sleep", "paths"}
    BY <1>2, <2>1, NextCases DEF WaitInv
  <2> QED BY <1>2, <2>1, NextCases, MonWaits, MesWaits, JavWaits
<1> QED BY <1>1, <1>2

LEMMA OneGoesOn == Inv /\ WaitInv => NeverBothWait
<1> SUFFICES ASSUME Inv, WaitInv, ProducerWaits, ConsumerWaits
             PROVE  program = "sleep" /\ (lost \/ damaged)
  BY DEF NeverBothWait
<1> USE SlotAssumption DEF ProducerWaits, ConsumerWaits
\* N slots free of none and none filled, or mutex free and in nobody's hands.
<1>1. program # "semaphores"
  <2> SUFFICES ASSUME program = "semaphores" PROVE FALSE
    OBVIOUS
  <2>1. Sem!Typed /\ Sem!MutexCounted /\ Sem!Counted
    BY DEF Inv, Sem!Inv
  <2>2. /\ (ppc = "down_empty" /\ m2 = 0) \/ (ppc = "down_mutex" /\ m1 = 0)
        /\ (cpc = "down_full" /\ m3 = 0) \/ (cpc = "c_down_mutex" /\ m1 = 0)
    OBVIOUS
  <2>3. Len(buffer) \in Nat /\ m1 \in Nat /\ m2 \in Nat /\ m3 \in Nat
    BY <2>1, LenProperties DEF Sem!Typed
  <2> HIDE DEF ProducerWaits, ConsumerWaits
  <2>4. m1 = 1
    BY <2>1, <2>2, <2>3 DEF Sem!MutexCounted, Sem!Hand
  <2>5. m2 + Len(buffer) = N /\ m3 = Len(buffer)
    BY <2>1, <2>2, <2>3, <2>4 DEF Sem!Counted, Sem!Hand
  <2> QED BY <2>2, <2>3, <2>4, <2>5
<1>2. program = "sleep" => lost \/ damaged
  BY DEF Inv, Sle!Inv, Sle!Typed, Sle!WakeInv
<1>3. program # "monitor"
  BY DEF Inv, WaitInv, Mon!Inv, Mon!LockInv, Mon!Holds
<1>4. program # "messages"
  <2> SUFFICES ASSUME program = "messages" PROVE FALSE
    OBVIOUS
  <2>1. Len(buffer) = 0
    BY EmptySeq
  <2> QED BY <2>1 DEF Inv, WaitInv, Mes!Inv, Mes!Typed, Mes!Conserved
<1>5. program # "java"
  BY DEF WaitInv
<1> QED BY <1>1, <1>2, <1>3, <1>4, <1>5

\* The two processes of a program never wait for each other, whatever the size of
\* the buffer and the spurious wake-ups (mutex-pro-con.c 14-32, buffer-mutex.c
\* 15-34, information.c 12-28, PriducerConsumer.java 44-57), but for the lost
\* wakeup, the overlapping updates and the stale wakeup of producer-consumer.c: what
\* AllUsed rests on.
THEOREM Never_both_wait == Spec => []NeverBothWait
BY InitWaitInv, StepWaitInv, OneGoesOn, Invariance, PTL DEF Spec
=============================================================================
