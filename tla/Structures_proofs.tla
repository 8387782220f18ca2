-------------------------- MODULE Structures_proofs --------------------------
(***************************************************************************)
(* Proofs about the two data structures of the server, the queue (Steque)  *)
(* and the table (Content).  The linked list is well formed after every    *)
(* operation, and implements the sequence of Deque, for any items and any  *)
(* finite set of addresses.  The table is never overrun and content_get    *)
(* answers what the file says, for any content file.                       *)
(***************************************************************************)
EXTENDS Steque, Content, FiniteSetTheorems, SequenceTheorems, TLAPS

IInv == TypeOK /\ ListOK

\* The empty list satisfies the invariant.
LEMMA InitIInv == Init => IInv
BY CellsAssumption DEF Init, IInv, TypeOK, ListOK

LEMMA EnqueueIInv == ASSUME IInv, NEW x \in Items, Enqueue(x) PROVE IInv'
<1> USE CellsAssumption DEF IInv, TypeOK, ListOK, Using
<1>1. PICK c \in Cells \ live :
          /\ item' = [item EXCEPT ![c] = x]
          /\ live' = live \cup {c}
          /\ \/ /\ back = NULL
                /\ front' = c
                /\ next' = [next EXCEPT ![c] = NULL]
             \/ /\ back # NULL
                /\ next' = [next EXCEPT ![c] = NULL, ![back] = c]
                /\ UNCHANGED front
          /\ back' = c
          /\ order' = Append(order, c)
  BY DEF Enqueue
<1>2. /\ N' = N + 1 /\ ret' = ret /\ phase' = phase
  BY DEF Enqueue
<1>3. /\ Len(order') = Len(order) + 1
      /\ order'[Len(order) + 1] = c
      /\ \A i \in 1..Len(order) : order'[i] = order[i]
      /\ order' \in Seq(Cells)
  BY <1>1
<1>4. TypeOK'
  BY <1>1, <1>2, <1>3
<1>5. (\A i, j \in 1..Len(order) : order[i] = order[j] => i = j)'
  BY <1>1, <1>3
<1>6. (live = {order[i] : i \in 1..Len(order)})'
  <2>1. \A d \in live' : \E i \in 1..Len(order') : order'[i] = d
    BY <1>1, <1>3
  <2>2. \A i \in 1..Len(order') : order'[i] \in live'
    BY <1>1, <1>3
  <2> QED BY <2>1, <2>2
<1>7. (\A i \in 1..Len(order) :
          next[order[i]] = IF i = Len(order) THEN NULL ELSE order[i + 1])'
  BY <1>1, <1>3
<1>8. (IF order = <<>> THEN front = NULL /\ back = NULL
       ELSE front = order[1] /\ back = order[Len(order)])'
  BY <1>1, <1>3
<1> QED
  BY <1>2, <1>3, <1>4, <1>5, <1>6, <1>7, <1>8

LEMMA PushIInv == ASSUME IInv, NEW x \in Items, Push(x) PROVE IInv'
<1> USE CellsAssumption DEF IInv, TypeOK, ListOK, Using
<1>1. PICK c \in Cells \ live :
          /\ item' = [item EXCEPT ![c] = x]
          /\ next' = [next EXCEPT ![c] = front]
          /\ live' = live \cup {c}
          /\ back' = IF back = NULL THEN c ELSE back
          /\ front' = c
          /\ order' = <<c>> \o order
  BY DEF Push
<1>2. /\ N' = N + 1 /\ ret' = ret /\ phase' = phase
  BY DEF Push
<1>3. /\ Len(order') = Len(order) + 1
      /\ order'[1] = c
      /\ \A i \in 1..Len(order) : order'[i + 1] = order[i]
      /\ \A i \in 2..Len(order') : order'[i] = order[i - 1]
      /\ order' \in Seq(Cells)
  BY <1>1
<1>4. TypeOK'
  BY <1>1, <1>2, <1>3
<1>5. (\A i, j \in 1..Len(order) : order[i] = order[j] => i = j)'
  <2> SUFFICES ASSUME NEW i \in 1..Len(order'), NEW j \in 1..Len(order'),
                      order'[i] = order'[j]
               PROVE  i = j
    OBVIOUS
  <2>1. CASE i = 1
    BY <1>1, <1>3, <2>1
  <2>2. CASE i # 1
    BY <1>1, <1>3, <2>2
  <2> QED BY <2>1, <2>2
<1>6. (live = {order[i] : i \in 1..Len(order)})'
  <2>1. \A d \in live' : \E i \in 1..Len(order') : order'[i] = d
    BY <1>1, <1>3
  <2>2. \A i \in 1..Len(order') : order'[i] \in live'
    BY <1>1, <1>3
  <2> QED BY <2>1, <2>2
<1>7. (\A i \in 1..Len(order) :
          next[order[i]] = IF i = Len(order) THEN NULL ELSE order[i + 1])'
  <2> SUFFICES ASSUME NEW i \in 1..Len(order')
               PROVE  next'[order'[i]] = IF i = Len(order') THEN NULL
                                         ELSE order'[i + 1]
    OBVIOUS
  <2>1. CASE i = 1
    BY <1>1, <1>3, <2>1
  <2>2. CASE i # 1
    <3>1. order'[i] = order[i - 1] /\ i - 1 \in 1..Len(order)
      BY <1>3, <2>2
    <3>2. next'[order'[i]] = next[order[i - 1]]
      BY <1>1, <3>1
    <3> QED BY <1>3, <2>2, <3>1, <3>2
  <2> QED BY <2>1, <2>2
<1>8. (IF order = <<>> THEN front = NULL /\ back = NULL
       ELSE front = order[1] /\ back = order[Len(order)])'
  BY <1>1, <1>3
<1> QED
  BY <1>2, <1>3, <1>4, <1>5, <1>6, <1>7, <1>8

LEMMA UnlinkIInv ==
    ASSUME IInv, Unlink, ret' \in Items \cup Nat,
           phase' \in {"use", "destroy", "exited"}
    PROVE  IInv'
<1> USE CellsAssumption DEF IInv, TypeOK, ListOK, Unlink
<1>1. order # <<>> /\ front = order[1] /\ Len(order) >= 1
  OBVIOUS
<1>2. /\ Len(order') = Len(order) - 1
      /\ \A i \in 1..Len(order') : order'[i] = order[i + 1]
      /\ order' \in Seq(Cells)
  BY <1>1
<1>3. next[front] = IF Len(order) = 1 THEN NULL ELSE order[2]
  BY <1>1
<1>4. N' \in Nat /\ N' = Len(order')
  BY <1>1, <1>2
<1>5. TypeOK'
  BY <1>1, <1>2, <1>3, <1>4
<1>6. (\A i, j \in 1..Len(order) : order[i] = order[j] => i = j)'
  BY <1>2
<1>7. (live = {order[i] : i \in 1..Len(order)})'
  <2>1. \A d \in live' : \E i \in 1..Len(order') : order'[i] = d
    <3> SUFFICES ASSUME NEW d \in live'
                 PROVE  \E i \in 1..Len(order') : order'[i] = d
      OBVIOUS
    <3>1. PICK k \in 1..Len(order) : order[k] = d /\ k # 1
      BY <1>1
    <3>2. k - 1 \in 1..Len(order') /\ order'[k - 1] = d
      BY <1>1, <1>2, <3>1
    <3> QED BY <3>2
  <2>2. \A i \in 1..Len(order') : order'[i] \in live'
    BY <1>1, <1>2
  <2> HIDE DEF IInv, TypeOK, Unlink
  <2> QED BY <2>1, <2>2
<1>8. (\A i \in 1..Len(order) :
          next[order[i]] = IF i = Len(order) THEN NULL ELSE order[i + 1])'
  BY <1>1, <1>2
<1>9. (IF order = <<>> THEN front = NULL /\ back = NULL
       ELSE front = order[1] /\ back = order[Len(order)])'
  BY <1>1, <1>2, <1>3
<1> QED
  BY <1>4, <1>5, <1>6, <1>7, <1>8, <1>9

LEMMA CycleIInv == ASSUME IInv, Cycle PROVE IInv'
<1> USE CellsAssumption DEF IInv, TypeOK, ListOK, Cycle, Using
<1>1. CASE back = NULL
  BY <1>1 DEF struct
<1>2. CASE back # NULL
  <2> DEFINE linked == [next EXCEPT ![back] = front]
  <2>1. /\ order # <<>> /\ Len(order) >= 1
        /\ front = order[1] /\ back = order[Len(order)]
        /\ front \in Cells /\ back \in Cells
    BY <1>2
  <2>2. /\ back' = front /\ front' = linked[front]
        /\ next' = [linked EXCEPT ![front] = NULL]
        /\ order' = Append(Tail(order), Head(order))
        /\ N' = N /\ item' = item /\ live' = live /\ ret' = ret /\ phase' = phase
    BY <1>2
  <2>3. /\ Len(order') = Len(order)
        /\ order'[Len(order)] = order[1]
        /\ \A i \in 1..(Len(order) - 1) : order'[i] = order[i + 1]
        /\ order' \in Seq(Cells)
    BY <2>1, <2>2
  <2>4. linked[front] = IF Len(order) = 1 THEN front ELSE order[2]
    BY <2>1
  <2>5. /\ next' \in [Cells -> Cells \cup {NULL}]
        /\ front' \in Cells /\ back' \in Cells
    BY <2>1, <2>2, <2>4
  <2>6. TypeOK'
    BY <2>2, <2>3, <2>5
  <2>7. (\A i, j \in 1..Len(order) : order[i] = order[j] => i = j)'
    <3> SUFFICES ASSUME NEW i \in 1..Len(order), NEW j \in 1..Len(order),
                        order'[i] = order'[j]
                 PROVE  i = j
      BY <2>3
    <3>1. CASE i = Len(order)
      BY <2>1, <2>3, <3>1
    <3>2. CASE i # Len(order)
      BY <2>1, <2>3, <3>2
    <3> QED BY <3>1, <3>2
  <2>8. (live = {order[i] : i \in 1..Len(order)})'
    <3>1. \A d \in live : \E i \in 1..Len(order) : order'[i] = d
      <4> SUFFICES ASSUME NEW d \in live
                   PROVE  \E i \in 1..Len(order) : order'[i] = d
        OBVIOUS
      <4>1. PICK k \in 1..Len(order) : order[k] = d
        OBVIOUS
      <4>2. CASE k = 1
        BY <2>1, <2>3, <4>1, <4>2
      <4>3. CASE k # 1
        <5>1. order'[k - 1] = d
          BY <2>3, <4>1, <4>3
        <5> QED BY <4>3, <5>1
      <4> QED BY <4>2, <4>3
    <3>2. \A i \in 1..Len(order) : order'[i] \in live
      BY <2>1, <2>3
    <3> HIDE DEF IInv, TypeOK, Cycle
    <3> QED BY <2>2, <2>3, <3>1, <3>2
  <2>9. (\A i \in 1..Len(order) :
            next[order[i]] = IF i = Len(order) THEN NULL ELSE order[i + 1])'
    <3> SUFFICES ASSUME NEW i \in 1..Len(order)
                 PROVE  next'[order'[i]] = IF i = Len(order) THEN NULL
                                           ELSE order'[i + 1]
      BY <2>3
    <3>1. CASE i = Len(order)
      BY <2>1, <2>2, <2>3, <3>1
    <3>2. CASE i # Len(order)
      <4>1. order'[i] = order[i + 1] /\ i + 1 \in 1..Len(order)
        BY <2>3, <3>2
      <4>2. order[i + 1] # front
        BY <2>1, <4>1
      <4>3. next'[order'[i]] = linked[order[i + 1]]
        BY <2>1, <2>2, <4>1, <4>2
      <4>4. CASE i + 1 = Len(order)
        BY <2>1, <2>3, <4>1, <4>3, <4>4
      <4>5. CASE i + 1 # Len(order)
        <5>1. order[i + 1] # back
          BY <2>1, <4>1, <4>5
        <5>2. linked[order[i + 1]] = next[order[i + 1]]
          BY <4>1, <5>1
        <5>3. next[order[i + 1]] = order[i + 2]
          BY <4>1, <4>5
        <5>4. order'[i + 1] = order[i + 2]
          BY <2>3, <4>1, <4>5
        <5> QED BY <3>2, <4>3, <5>2, <5>3, <5>4
      <4> QED BY <4>4, <4>5
    <3> QED BY <3>1, <3>2
  <2>10. (IF order = <<>> THEN front = NULL /\ back = NULL
          ELSE front = order[1] /\ back = order[Len(order)])'
    BY <2>1, <2>2, <2>3, <2>4
  <2> QED
    BY <2>2, <2>3, <2>6, <2>7, <2>8, <2>9, <2>10
<1> QED BY <1>1, <1>2

LEMMA StepIInv == IInv /\ [Next]_vars => IInv'
<1> SUFFICES ASSUME IInv, [Next]_vars PROVE IInv'
  OBVIOUS
<1> USE DEF struct, nodes
<1>1. CASE \E x \in Items : Enqueue(x) \/ Push(x)
  BY <1>1, EnqueueIInv, PushIInv
<1>2. CASE Pop
  <2>1. front \in Cells /\ Unlink
    BY <1>2 DEF Pop, Unlink, IInv, TypeOK
  <2>2. ret' \in Items \cup Nat /\ phase' \in {"use", "destroy", "exited"}
    BY <1>2, <2>1 DEF Pop, IInv, TypeOK, Using
  <2> QED BY <2>1, <2>2, UnlinkIInv
<1>3. CASE Cycle
  BY <1>3, CycleIInv
<1>4. CASE Front
  BY <1>4, CellsAssumption DEF Front, IInv, TypeOK, ListOK, Using
<1>5. CASE Size \/ IsEmpty
  BY <1>5 DEF Size, IsEmpty, IInv, TypeOK, ListOK, Using
<1>6. CASE Underflow \/ Destroy \/ DestroyEnd
  BY <1>6 DEF Underflow, Destroy, DestroyEnd, IInv, TypeOK, ListOK
<1>7. CASE DestroyPop
  <2>1. CASE front = NULL
    BY <1>7, <2>1 DEF DestroyPop, IInv, TypeOK, ListOK
  <2>2. CASE front # NULL
    BY <1>7, <2>2, UnlinkIInv DEF DestroyPop, IInv, TypeOK
  <2> QED BY <2>1, <2>2
<1>8. CASE UNCHANGED vars
  BY <1>8 DEF vars, IInv, TypeOK, ListOK
<1> QED
  BY <1>1, <1>2, <1>3, <1>4, <1>5, <1>6, <1>7, <1>8 DEF Next

\* The type invariant of steque_t holds after every operation.
THEOREM Typing == Spec => []TypeOK
<1>1. IInv => TypeOK
  BY DEF IInv
<1> QED BY <1>1, InitIInv, StepIInv, PTL DEF Spec

\* After every operation the nodes form one list from front to back that N
\* counts, with no leak, no dangling pointer and no cycle.
THEOREM WellFormedList == Spec => []ListOK
<1>1. IInv => ListOK
  BY DEF IInv
<1> QED BY <1>1, InitIInv, StepIInv, PTL DEF Spec

\* The loop of steque_destroy: each turn pops one node and never meets the exit
\* of steque_pop, and the loop ends with no node left, so N bounds its turns.
DestroyStep == phase = "destroy" =>
    IF N = 0 THEN phase' = "use" /\ live = {} ELSE phase' = "destroy" /\ N' = N - 1

LEMMA DestroyStepHolds == IInv /\ Next => DestroyStep
<1> SUFFICES ASSUME IInv, Next, phase = "destroy" PROVE DestroyStep
  BY DEF DestroyStep
<1>1. DestroyPop \/ DestroyEnd
  BY DEF Next, Enqueue, Push, Pop, Underflow, Cycle, Front, Size, IsEmpty, Destroy, Using
<1>2. CASE N = 0
  <2>1. phase' = "use"
    BY <1>1, <1>2 DEF DestroyPop, DestroyEnd
  <2>2. live = {}
    BY <1>2 DEF IInv, TypeOK, ListOK
  <2> QED BY <1>2, <2>1, <2>2 DEF DestroyStep
<1>3. CASE N # 0
  <2>1. front # NULL
    BY <1>3, CellsAssumption DEF IInv, TypeOK, ListOK
  <2> QED BY <1>1, <1>3, <2>1 DEF DestroyPop, DestroyEnd, Unlink, DestroyStep
<1> QED BY <1>2, <1>3

\* steque_destroy frees every node in N turns and then returns, for a queue of
\* any length.
THEOREM DestroyFrees == Spec => [][DestroyStep]_vars
<1>1. IInv /\ [Next]_vars => [DestroyStep]_vars
  BY DestroyStepHolds
<1> QED BY <1>1, InitIInv, StepIInv, PTL DEF Spec

-----------------------------------------------------------------------------
(* Refinement: Contents, the items read along the list, is the sequence.   *)

\* The bound of the abstract sequence is the number of addresses.
LEMMA LengthBound == IInv => Len(order) = Cardinality(live) /\ Len(order) <= Cardinality(Cells)
<1> SUFFICES ASSUME IInv PROVE Len(order) = Cardinality(live) /\ Len(order) <= Cardinality(Cells)
  OBVIOUS
<1>1. ExistsBijection(1..Len(order), live)
  <2> order \in Bijection(1..Len(order), live)
    BY DEF IInv, TypeOK, ListOK, Bijection, Injection, Surjection, IsInjective
  <2> QED BY DEF ExistsBijection
<1>2. Len(order) \in Nat
  BY DEF IInv, TypeOK
<1>3. Cardinality(live) = Len(order)
  BY <1>1, <1>2, FS_CountingElements
<1>4. Cardinality(live) <= Cardinality(Cells)
  BY CellsAssumption, FS_Subset DEF IInv, TypeOK
<1> QED BY <1>3, <1>4

ContentsFacts ==
    /\ Contents \in Seq(Items) /\ Len(Contents) = Len(order)
    /\ \A i \in 1..Len(order) : Contents[i] = item[order[i]]
    /\ Contents = <<>> <=> front = NULL
    /\ Contents = <<>> <=> N = 0
    /\ N = Len(Contents)
    /\ Len(Contents) <= Cardinality(Cells)

LEMMA ContentsSeq == IInv => ContentsFacts
<1> SUFFICES ASSUME IInv PROVE ContentsFacts
  OBVIOUS
<1>1. Len(order) <= Cardinality(Cells)
  BY LengthBound
<1> QED
  BY <1>1, CellsAssumption DEF IInv, TypeOK, ListOK, Contents, ContentsFacts

LEMMA ContentsSeqPrime == IInv' => ContentsFacts'
BY ContentsSeq, PTL


LEMMA EnqueueRefines ==
    ASSUME IInv, IInv', NEW x \in Items, Enqueue(x) PROVE D!Enqueue(x)
<1>1. phase = "use" /\ phase' = phase /\ ret' = ret
  BY DEF Enqueue, Using
<1>2. PICK c \in Cells \ live : item' = [item EXCEPT ![c] = x] /\ order' = Append(order, c)
  BY DEF Enqueue
<1>3. /\ Len(order) \in Nat /\ Len(order') = Len(order) + 1
      /\ order'[Len(order) + 1] = c
      /\ \A i \in 1..Len(order) : order'[i] = order[i] /\ order[i] # c /\ order[i] \in Cells
      /\ item'[c] = x /\ \A d \in Cells : d # c => item'[d] = item[d]
  BY <1>2 DEF IInv, TypeOK, ListOK
<1>4. ContentsFacts /\ ContentsFacts'
  BY ContentsSeq, ContentsSeqPrime
<1>5. Len(Contents) < Cardinality(Cells)
  BY <1>3, <1>4, FS_CardinalityType, CellsAssumption DEF ContentsFacts
<1>6. Contents' = Append(Contents, x)
  <2>1. /\ Contents' \in Seq(Items) /\ Append(Contents, x) \in Seq(Items)
        /\ Len(Contents') = Len(Append(Contents, x))
    BY <1>3, <1>4 DEF ContentsFacts
  <2>2. \A i \in 1..Len(Contents') : Contents'[i] = Append(Contents, x)[i]
    BY <1>3, <1>4 DEF ContentsFacts
  <2> QED BY <2>1, <2>2, SeqEqual
<1> QED BY <1>1, <1>5, <1>6 DEF D!Enqueue, D!Using

LEMMA PushRefines ==
    ASSUME IInv, IInv', NEW x \in Items, Push(x) PROVE D!Push(x)
<1>1. phase = "use" /\ phase' = phase /\ ret' = ret
  BY DEF Push, Using
<1>2. PICK c \in Cells \ live : item' = [item EXCEPT ![c] = x] /\ order' = <<c>> \o order
  BY DEF Push
<1>3. /\ Len(order) \in Nat /\ Len(order') = Len(order) + 1
      /\ order'[1] = c
      /\ \A i \in 2..Len(order') : order'[i] = order[i - 1]
      /\ \A i \in 1..Len(order) : order[i] # c /\ order[i] \in Cells
      /\ item'[c] = x /\ \A d \in Cells : d # c => item'[d] = item[d]
  BY <1>2 DEF IInv, TypeOK, ListOK
<1>4. ContentsFacts /\ ContentsFacts'
  BY ContentsSeq, ContentsSeqPrime
<1>5. Len(Contents) < Cardinality(Cells)
  BY <1>3, <1>4, FS_CardinalityType, CellsAssumption DEF ContentsFacts
<1>6. Contents' = <<x>> \o Contents
  <2>1. /\ Contents' \in Seq(Items) /\ <<x>> \o Contents \in Seq(Items)
        /\ Len(Contents') = Len(<<x>> \o Contents)
    BY <1>3, <1>4 DEF ContentsFacts
  <2>2. ASSUME NEW i \in 1..Len(Contents')
        PROVE  Contents'[i] = (<<x>> \o Contents)[i]
    <3>1. CASE i = 1
      BY <1>3, <1>4, <3>1 DEF ContentsFacts
    <3>2. CASE i # 1
      <4>1. i \in 2..Len(order') /\ i - 1 \in 1..Len(order)
        BY <1>3, <1>4, <3>2 DEF ContentsFacts
      <4>2. Contents'[i] = Contents[i - 1]
        BY <1>3, <1>4, <4>1 DEF ContentsFacts
      <4>3. (<<x>> \o Contents)[i] = Contents[i - 1]
        BY <1>3, <1>4, <4>1 DEF ContentsFacts
      <4> QED BY <4>2, <4>3
    <3> QED BY <3>1, <3>2
  <2> QED BY <2>1, <2>2, SeqEqual
<1> QED BY <1>1, <1>5, <1>6 DEF D!Push, D!Using

LEMMA UnlinkRefines ==
    ASSUME IInv, IInv', Unlink
    PROVE  /\ Contents # <<>> /\ Contents' = Tail(Contents)
           /\ item[front] = Head(Contents)
<1>1. /\ Len(order) \in Nat /\ Len(order) >= 1 /\ front = order[1]
      /\ Len(order') = Len(order) - 1
      /\ \A i \in 1..Len(order') : order'[i] = order[i + 1]
      /\ item' = item
  BY CellsAssumption DEF Unlink, IInv, TypeOK, ListOK
<1>2. ContentsFacts /\ ContentsFacts'
  BY ContentsSeq, ContentsSeqPrime
<1>3. Contents # <<>> /\ item[front] = Head(Contents)
  BY <1>1, <1>2 DEF ContentsFacts
<1>4. /\ Tail(Contents) \in Seq(Items) /\ Contents' \in Seq(Items)
      /\ Len(Contents') = Len(Tail(Contents))
  BY <1>1, <1>2, <1>3 DEF ContentsFacts
<1>5. \A i \in 1..Len(Contents') : Contents'[i] = Tail(Contents)[i]
  BY <1>1, <1>2, <1>3 DEF ContentsFacts
<1>6. Contents' = Tail(Contents)
  BY <1>4, <1>5, SeqEqual
<1> QED BY <1>3, <1>6

LEMMA CycleRefines == ASSUME IInv, IInv', Cycle PROVE D!Cycle
<1>1. phase = "use" /\ phase' = phase /\ ret' = ret /\ item' = item
  BY DEF Cycle, Using
<1>2. ContentsFacts /\ ContentsFacts'
  BY ContentsSeq, ContentsSeqPrime
<1>3. CASE back = NULL
  <2>1. Contents = <<>> /\ order' = order
    BY <1>2, <1>3, CellsAssumption DEF Cycle, IInv, TypeOK, ListOK, ContentsFacts
  <2>2. Contents' = Contents
    BY <1>1, <2>1 DEF Contents
  <2> QED BY <1>1, <2>1, <2>2 DEF D!Cycle, D!Using
<1>4. CASE back # NULL
  <2>1. /\ Len(order) \in Nat /\ Len(order) >= 1
        /\ Len(order') = Len(order)
        /\ order'[Len(order)] = order[1]
        /\ \A i \in 1..(Len(order) - 1) : order'[i] = order[i + 1]
    <3>1. order # <<>> /\ order \in Seq(Cells)
      BY <1>4 DEF IInv, TypeOK, ListOK
    <3>2. order' = Append(Tail(order), Head(order))
      BY <1>4 DEF Cycle
    <3> QED BY <3>1, <3>2
  <2>2. Contents # <<>>
    BY <1>2, <2>1 DEF ContentsFacts
  <2>3. /\ Append(Tail(Contents), Head(Contents)) \in Seq(Items)
        /\ Contents' \in Seq(Items)
        /\ Len(Contents') = Len(Append(Tail(Contents), Head(Contents)))
    BY <1>2, <2>1, <2>2 DEF ContentsFacts
  <2>4. ASSUME NEW i \in 1..Len(Contents')
        PROVE  Contents'[i] = Append(Tail(Contents), Head(Contents))[i]
    <3>1. CASE i = Len(order)
      BY <1>1, <1>2, <2>1, <2>2, <3>1 DEF ContentsFacts
    <3>2. CASE i # Len(order)
      BY <1>1, <1>2, <2>1, <2>2, <3>2 DEF ContentsFacts
    <3> QED BY <3>1, <3>2
  <2>5. Contents' = Append(Tail(Contents), Head(Contents))
    BY <2>3, <2>4, SeqEqual
  <2> QED BY <1>1, <2>2, <2>5 DEF D!Cycle, D!Using
<1> QED BY <1>3, <1>4

LEMMA StepRefines ==
    ASSUME IInv, IInv', [Next]_vars PROVE [D!Next]_<<Contents, ret, phase>>
<1> USE DEF struct, nodes
<1>1. ContentsFacts
  BY ContentsSeq
<1>2. CASE \E x \in Items : Enqueue(x) \/ Push(x)
  BY <1>2, EnqueueRefines, PushRefines DEF D!Next
<1>3. CASE Pop
  BY <1>3, UnlinkRefines DEF Pop, Using, D!Next, D!Pop, D!Using
<1>4. CASE Cycle
  BY <1>4, CycleRefines DEF D!Next
<1>5. CASE Front
  <2>1. Contents # <<>> /\ item[front] = Head(Contents)
    BY <1>5, <1>1 DEF Front, IInv, TypeOK, ListOK, ContentsFacts
  <2> QED BY <1>5, <2>1 DEF Front, Using, Contents, D!Next, D!Front, D!Using
<1>6. CASE Size
  BY <1>6, <1>1 DEF Size, Using, Contents, ContentsFacts, D!Next, D!Size, D!Using
<1>7. CASE IsEmpty
  BY <1>7, <1>1 DEF IsEmpty, Using, Contents, ContentsFacts, D!Next, D!IsEmpty, D!Using
<1>8. CASE Underflow
  BY <1>8, <1>1 DEF Underflow, Contents, ContentsFacts, D!Next, D!Underflow
<1>9. CASE Destroy
  BY <1>9 DEF Destroy, Contents, D!Next, D!Destroy
<1>10. CASE DestroyPop
  <2>1. front # NULL
    BY <1>10, <1>1 DEF DestroyPop, ContentsFacts
  <2> QED BY <1>10, <2>1, UnlinkRefines DEF DestroyPop, D!Next, D!Discard
<1>11. CASE DestroyEnd
  BY <1>11, <1>1 DEF DestroyEnd, Contents, ContentsFacts, D!Next, D!Destroyed
<1>12. CASE UNCHANGED vars
  BY <1>12 DEF vars, Contents
<1> QED
  BY <1>2, <1>3, <1>4, <1>5, <1>6, <1>7, <1>8, <1>9, <1>10, <1>11, <1>12 DEF Next

\* steque.c implements the sequence promised by steque.h: every call returns
\* what the sequence would, the process exits only on an empty steque, and the
\* loop of steque_destroy empties the list without an underflow.
THEOREM Refinement == Spec => ImplementsDeque
<1>1. Init => D!Init
  BY DEF Init, D!Init, Contents
<1> QED
  BY <1>1, InitIInv, StepIInv, StepRefines, PTL DEF Spec, D!Spec, ImplementsDeque

-----------------------------------------------------------------------------
(* The table.                                                              *)

\* What the variables hold.
Typed ==
    /\ list \in Seq(Line)
    /\ stage \in {"fill", "ready", "search", "exit"}
    /\ nitems \in Nat /\ capacity \in Nat
    /\ items \in [0..(nitems - 1) -> [key : Keys, fildes : Nat]]
    /\ key \in Keys /\ lo \in Int /\ hi \in Int /\ answer \in Int

TableInv == Typed /\ InBounds /\ SearchInv

\* The element the search looks at is between its bounds.
LEMMA MidBounds ==
    ASSUME NEW l \in Int, NEW h \in Int, l <= h
    PROVE  LET m == l + (h - l) \div 2 IN m \in Int /\ l <= m /\ m <= h
OBVIOUS

LEMMA InitTableInv == ContentInit => TableInv
<1> SUFFICES ASSUME ContentInit PROVE TableInv
  OBVIOUS
<1> USE ListAssumption, CapacityAssumption DEF ContentInit
<1>1. Typed
  <2>1. 0..(nitems - 1) = {}
    OBVIOUS
  <2>2. items \in [0..(nitems - 1) -> [key : Keys, fildes : Nat]]
    BY <2>1
  <2> QED BY <2>2 DEF Typed
<1>2. InBounds
  BY <1>1 DEF InBounds, Typed
<1>3. SearchInv
  BY DEF SearchInv, TableOK
<1> QED BY <1>1, <1>2, <1>3 DEF TableInv

LEMMA ReadLineTableInv == ASSUME TableInv, ReadLine PROVE TableInv'
<1> USE ListAssumption DEF TableInv, ReadLine, table, search
<1>1. /\ nitems' = nitems + 1 /\ nitems + 1 \in 1..Len(list)
      /\ list' = list /\ list \in Seq(Line)
  BY DEF Typed
<1>2. list[nitems + 1] \in Line
  BY <1>1
<1>3. Opened(nitems + 1) \in [key : Keys, fildes : Nat]
  BY <1>1, <1>2 DEF Opened, Line
<1>4. /\ \A i \in 0..(nitems - 1) : items'[i] = items[i]
      /\ items'[nitems] = Opened(nitems + 1)
  BY DEF Typed
<1>5. Typed'
  <2>1. items' \in [0..nitems -> [key : Keys, fildes : Nat]]
    BY <1>3 DEF Typed
  <2>2. nitems' - 1 = nitems
    BY <1>1 DEF Typed
  <2> QED BY <1>1, <2>1, <2>2 DEF Typed
<1>6. InBounds'
  BY <1>1 DEF Typed, InBounds
<1>7. SearchInv'
  <2>1. \A n \in 1..nitems' : Opened(n)' = Opened(n)
    BY <1>1 DEF Opened
  <2>2. \A n \in 1..nitems' : \E i \in 0..(nitems' - 1) : items'[i] = Opened(n)'
    <3> SUFFICES ASSUME NEW n \in 1..nitems'
                 PROVE  \E i \in 0..(nitems' - 1) : items'[i] = Opened(n)'
      OBVIOUS
    <3>1. CASE n = nitems + 1
      BY <1>1, <1>4, <2>1, <3>1 DEF Typed
    <3>2. CASE n # nitems + 1
      <4>1. PICK i \in 0..(nitems - 1) : items[i] = Opened(n)
        BY <1>1, <3>2 DEF Typed, SearchInv, TableOK
      <4> QED BY <1>1, <1>4, <2>1, <4>1 DEF Typed
    <3> QED BY <3>1, <3>2
  <2>3. \A i \in 0..(nitems' - 1) : \E n \in 1..nitems' : items'[i] = Opened(n)'
    <3> SUFFICES ASSUME NEW i \in 0..(nitems' - 1)
                 PROVE  \E n \in 1..nitems' : items'[i] = Opened(n)'
      OBVIOUS
    <3>1. CASE i = nitems
      BY <1>1, <1>4, <2>1, <3>1 DEF Typed
    <3>2. CASE i # nitems
      <4>1. PICK n \in 1..nitems : items[i] = Opened(n)
        BY <1>1, <3>2 DEF Typed, SearchInv, TableOK
      <4> QED BY <1>1, <1>4, <2>1, <3>2, <4>1 DEF Typed
    <3> QED BY <3>1, <3>2
  <2> QED BY <2>2, <2>3 DEF SearchInv, TableOK
<1> QED BY <1>5, <1>6, <1>7

LEMMA SortTableInv == ASSUME TableInv, Sort PROVE TableInv'
<1> USE DEF TableInv, search
<1>1. PICK p \in [0..(nitems - 1) -> 0..(nitems - 1)] :
          /\ \A i \in 0..(nitems - 1) : \E j \in 0..(nitems - 1) : p[j] = i
          /\ items' = [i \in 0..(nitems - 1) |-> items[p[i]]]
  BY DEF Sort
<1>2. /\ nitems' = nitems /\ nitems = Len(list) /\ list' = list
      /\ capacity' = capacity /\ stage' = "ready"
      /\ key' = key /\ lo' = lo /\ hi' = hi /\ answer' = answer
  BY DEF Sort
<1>3. Typed'
  BY <1>1, <1>2 DEF Typed
<1>4. InBounds'
  BY <1>2 DEF Typed, InBounds
<1>5. SearchInv'
  <2>1. \A n \in 1..nitems' : Opened(n)' = Opened(n)
    BY <1>2 DEF Opened
  <2>2. \A n \in 1..nitems' : \E i \in 0..(nitems' - 1) : items'[i] = Opened(n)'
    <3> SUFFICES ASSUME NEW n \in 1..nitems
                 PROVE  \E i \in 0..(nitems - 1) : items'[i] = Opened(n)
      BY <1>2, <2>1
    <3>1. PICK i \in 0..(nitems - 1) : items[i] = Opened(n)
      BY DEF SearchInv, TableOK
    <3>2. PICK j \in 0..(nitems - 1) : p[j] = i
      BY <1>1
    <3> QED BY <1>1, <3>1, <3>2
  <2>3. \A i \in 0..(nitems' - 1) : \E n \in 1..nitems' : items'[i] = Opened(n)'
    <3> SUFFICES ASSUME NEW i \in 0..(nitems - 1)
                 PROVE  \E n \in 1..nitems : items'[i] = Opened(n)
      BY <1>2, <2>1
    <3>1. p[i] \in 0..(nitems - 1) /\ items'[i] = items[p[i]]
      BY <1>1
    <3> QED BY <3>1 DEF SearchInv, TableOK
  <2>4. Sorted'
    BY <1>2 DEF Sort, Sorted
  <2> QED BY <1>2, <2>2, <2>3, <2>4 DEF SearchInv, TableOK
<1> QED BY <1>3, <1>4, <1>5

\* A step that leaves the table alone leaves what is said of the table alone.
LEMMA SameTable ==
    ASSUME UNCHANGED table
    PROVE  (TableOK' <=> TableOK) /\ (Sorted' <=> Sorted)
BY DEF table, TableOK, Sorted, Opened

LEMMA SearchTableInv ==
    ASSUME TableInv, NEW k \in Keys, Get(k) \/ Search
    PROVE  TableInv'
<1> USE ListAssumption DEF TableInv
<1>1. UNCHANGED table
  BY DEF Get, Search, GoLeft, GoRight, Found, NotFound
<1>2. TableOK' /\ stage \in {"ready", "search"} /\ Sorted' /\ nitems = Len(list)
  BY <1>1, SameTable
  DEF SearchInv, Get, Search, GoLeft, GoRight, Found, NotFound, Searching
<1>3. CASE Get(k)
  <2>1. Typed' /\ InBounds'
    BY <1>1, <1>3 DEF Get, Typed, InBounds, table
  <2>2. SearchInv'
    BY <1>1, <1>2, <1>3 DEF Get, SearchInv, Typed, table
  <2> QED BY <2>1, <2>2
<1>4. CASE GoLeft \/ GoRight
  <2>1. /\ mid \in Int /\ lo <= mid /\ mid <= hi
        /\ lo >= 0 /\ hi < nitems /\ stage = "search" /\ stage' = "search"
        /\ key' = key /\ answer' = answer
    BY <1>4, MidBounds DEF GoLeft, GoRight, Searching, InBounds, Typed, mid
  <2>2. /\ mid \in 0..(nitems - 1) /\ key \in Int
        /\ \A i \in 0..(nitems - 1) : items[i].key \in Int
    <3>1. \A i \in 0..(nitems - 1) : items[i] \in [key : Keys, fildes : Nat]
      BY DEF Typed
    <3>2. \A i \in 0..(nitems - 1) : items[i].key \in Keys
      BY <3>1
    <3>3. lo \in Int /\ hi \in Int /\ nitems \in Nat /\ key \in Int
      BY DEF Typed
    <3>4. mid \in 0..(nitems - 1)
      BY <2>1, <3>3
    <3> QED BY <3>2, <3>3, <3>4
  <2>3. Typed' /\ InBounds'
    BY <1>1, <1>4, <2>1 DEF GoLeft, GoRight, Typed, InBounds, table
  <2>4. \A i \in 0..(nitems - 1) : items[i].key = key => lo' <= i /\ i <= hi'
    <3> SUFFICES ASSUME NEW i \in 0..(nitems - 1), items[i].key = key
                 PROVE  lo' <= i /\ i <= hi'
      OBVIOUS
    <3>1. lo <= i /\ i <= hi
      BY <2>1 DEF SearchInv
    <3>2. CASE GoLeft
      <4>1. ~(mid <= i)
        <5>1. mid = i => FALSE
          BY <2>2, <3>2 DEF GoLeft
        <5>2. mid < i => items[mid].key <= items[i].key
          BY <2>2, <1>2, <2>1 DEF SearchInv, Sorted
        <5> QED BY <2>1, <2>2, <3>2, <5>1, <5>2 DEF GoLeft
      <4> QED BY <2>1, <3>1, <3>2, <4>1 DEF GoLeft
    <3>3. CASE GoRight
      <4>1. ~(i <= mid)
        <5>1. mid = i => FALSE
          BY <2>2, <3>3 DEF GoRight
        <5>2. i < mid => items[i].key <= items[mid].key
          BY <2>2, <1>2, <2>1 DEF SearchInv, Sorted
        <5> QED BY <2>1, <2>2, <3>3, <5>1, <5>2 DEF GoRight
      <4> QED BY <2>1, <3>1, <3>3, <4>1 DEF GoRight
    <3> QED BY <1>4, <3>2, <3>3
  <2>5. SearchInv'
    BY <1>1, <1>2, <2>1, <2>4 DEF SearchInv, table
  <2> QED BY <2>3, <2>5
<1>5. CASE Found \/ NotFound
  <2>1. answer' \in Int
    <3>1. CASE NotFound
      BY <3>1 DEF NotFound
    <3>2. CASE Found
      <4>1. mid \in 0..(nitems - 1)
        BY <3>2, MidBounds DEF Found, Searching, InBounds, Typed, mid
      <4> QED BY <3>2, <4>1 DEF Found, Typed
    <3> QED BY <1>5, <3>1, <3>2
  <2>2. Typed' /\ InBounds'
    BY <1>1, <1>5, <2>1 DEF Found, NotFound, Typed, InBounds, table
  <2>3. SearchInv'
    BY <1>1, <1>2, <1>5 DEF Found, NotFound, SearchInv, table
  <2> QED BY <2>2, <2>3
<1> QED BY <1>3, <1>4, <1>5 DEF Search

LEMMA NextTableInv == TableInv /\ [ContentNext]_contentVars => TableInv'
<1> SUFFICES ASSUME TableInv, [ContentNext]_contentVars PROVE TableInv'
  OBVIOUS
<1>1. CASE ReadLine
  BY <1>1, ReadLineTableInv
<1>2. CASE OpenFails
  <2>1. UNCHANGED table /\ UNCHANGED search /\ stage' = "exit"
    BY <1>2 DEF OpenFails
  <2>2. Typed' /\ InBounds'
    BY <2>1 DEF TableInv, Typed, InBounds, table, search
  <2>3. SearchInv'
    BY <2>1, SameTable DEF TableInv, SearchInv
  <2> QED BY <2>2, <2>3 DEF TableInv
<1>3. CASE Sort
  BY <1>3, SortTableInv
<1>4. ASSUME NEW k \in Keys, Get(k) PROVE TableInv'
  BY <1>4, SearchTableInv
<1>5. CASE Search
  <2>1. key \in Keys
    BY DEF TableInv, Typed
  <2> QED BY <1>5, <2>1, SearchTableInv
<1>6. CASE UNCHANGED contentVars
  <2>1. UNCHANGED table /\ UNCHANGED search /\ stage' = stage
    BY <1>6 DEF contentVars
  <2>2. Typed' /\ InBounds'
    BY <2>1 DEF TableInv, Typed, InBounds, table, search
  <2>3. SearchInv'
    BY <2>1, SameTable DEF TableInv, SearchInv, table, search
  <2> QED BY <2>2, <2>3 DEF TableInv
<1> QED BY <1>1, <1>2, <1>3, <1>4, <1>5, <1>6 DEF ContentNext

LEMMA ContentInvariance == ContentSpec => []TableInv
BY InitTableInv, NextTableInv, PTL DEF ContentSpec

\* The table of content.c is never written or read beyond its ends, for a
\* content file of any length.
THEOREM TableInBounds == ContentSpec => []InBounds
<1>1. TableInv => InBounds
  BY DEF TableInv
<1> QED BY <1>1, ContentInvariance, PTL

\* What the binary search of content_get keeps true.
THEOREM SearchInvariant == ContentSpec => []SearchInv
<1>1. TableInv => SearchInv
  BY DEF TableInv
<1> QED BY <1>1, ContentInvariance, PTL

LEMMA ReturnIsRight ==
    ASSUME TableInv, ContentNext, stage = "search", stage' = "ready"
    PROVE  IF answer' = -1 THEN ~Listed(key)
           ELSE answer' \in 1..Len(list) /\ list[answer'].key = key
<1>1. CASE Found
  <2>1. mid \in 0..(nitems - 1)
    BY <1>1, MidBounds DEF Found, Searching, TableInv, InBounds, Typed, mid
  <2>2. PICK n \in 1..nitems : items[mid] = Opened(n)
    BY <2>1 DEF TableInv, SearchInv, TableOK
  <2>3. items[mid].fildes = n /\ items[mid].key = list[n].key
    BY <2>2 DEF Opened
  <2>4. n \in 1..Len(list) /\ n # -1
    BY <2>2 DEF TableInv, InBounds, Typed
  <2> QED BY <1>1, <2>3, <2>4 DEF Found
<1>2. CASE NotFound
  <2>1. \A i \in 0..(nitems - 1) : items[i].key # key
    BY <1>2 DEF NotFound, TableInv, SearchInv, Typed
  <2>2. \A n \in 1..Len(list) : \E i \in 0..(nitems - 1) : items[i] = Opened(n)
    BY DEF TableInv, SearchInv, TableOK
  <2>3. \A n \in 1..Len(list) : Opened(n).key # key
    BY <2>1, <2>2
  <2>4. \A n \in 1..Len(list) : list[n].key # key
    BY <2>3 DEF Opened
  <2> QED BY <1>2, <2>4 DEF NotFound, Listed
<1> QED BY <1>1, <1>2
        DEF ContentNext, Search, ReadLine, OpenFails, Sort, Get, GoLeft, GoRight, Searching

\* content_get answers what the content file says, for a file of any length.
THEOREM GetCorrect == ContentSpec => GetIsRight
<1>1. TableInv /\ [ContentNext]_contentVars =>
          [(stage = "search" /\ stage' = "ready") =>
              IF answer' = -1 THEN ~Listed(key)
              ELSE answer' \in 1..Len(list) /\ list[answer'].key = key]_contentVars
  BY ReturnIsRight
<1> QED BY <1>1, ContentInvariance, PTL DEF ContentSpec, GetIsRight

\* A turn of the loop of content_get that does not return leaves at most half of
\* the entries to be searched, and never fewer than none.
Halved == (stage = "search" /\ stage' = "search") =>
    /\ 0 <= hi' + 1 - lo'
    /\ 2 * (hi' + 1 - lo') <= hi + 1 - lo

LEMMA SearchHalved == TableInv /\ ContentNext => Halved
<1> SUFFICES ASSUME TableInv, ContentNext, stage = "search", stage' = "search"
             PROVE  Halved
  BY DEF Halved
<1>1. GoLeft \/ GoRight
  BY DEF ContentNext, ReadLine, OpenFails, Sort, Get, Search, Found, NotFound
<1>2. lo \in Int /\ hi \in Int /\ lo <= hi
  BY <1>1 DEF TableInv, Typed, GoLeft, GoRight, Searching
<1>3. CASE GoLeft
  BY <1>2, <1>3 DEF GoLeft, mid, Halved
<1>4. CASE GoRight
  BY <1>2, <1>4 DEF GoRight, mid, Halved
<1> QED BY <1>1, <1>3, <1>4

\* content_get looks at a number of entries that is logarithmic in the length of
\* the file, for a file of any length.
THEOREM SearchHalves == ContentSpec => [][Halved]_contentVars
<1>1. TableInv /\ [ContentNext]_contentVars => [Halved]_contentVars
  BY SearchHalved
<1> QED BY <1>1, ContentInvariance, PTL DEF ContentSpec
=============================================================================
