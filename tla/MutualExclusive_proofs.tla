----------------------- MODULE MutualExclusive_proofs -----------------------
(***************************************************************************)
(* Proofs about MutualExclusive: with store buffers of any length,         *)
(* enter_region excludes unless a loop test was made with a store pending, *)
(* and lets a waiting process be overtaken once.                           *)
(***************************************************************************)
EXTENDS MutualExclusive, SequenceTheorems, TLAPS

I(b) == Interested(b)

\* As long as every loop test was made with an empty buffer, a buffer holds the
\* end of the stores that led to the control point, and memory lags behind it.
Shape(p) ==
    \/ /\ pending[p] = <<>>
       /\ interested[p] = IF pc[p] = "outside" THEN 0 ELSE 1
    \/ pending[p] = <<I(0)>> /\ pc[p] = "outside" /\ interested[p] = 1
    \/ pending[p] = <<I(1)>> /\ pc[p] = "set turn" /\ interested[p] = 0
    \/ pending[p] = <<I(0), I(1)>> /\ pc[p] = "set turn" /\ interested[p] = 1
    \/ pending[p] = <<Turn(p)>> /\ pc[p] = "test turn" /\ interested[p] = 1
    \/ pending[p] = <<I(1), Turn(p)>> /\ pc[p] = "test turn" /\ interested[p] = 0
    \/ pending[p] = <<I(0), I(1), Turn(p)>> /\ pc[p] = "test turn" /\ interested[p] = 1

\* While p is inside, the turn is that of the other, once its turn is written.
Yields(p) ==
    (/\ pc[p] = "inside"
     /\ pc[other(p)] \in {"test turn", "test interested", "inside"}
     /\ pending[other(p)] = <<>>) => turn = other(p)

\* p waits in the loop and its turn is written.  Once the other process has
\* overtaken p it comes back to the loop only to give the turn to p again.
Waits(p)  == pc[p] \in {"test turn", "test interested"}
Settled(p) == Waits(p) /\ pending[p] = <<>>
Patient(p) ==
    Settled(p) =>
      /\ overtaken[p] <= 1
      /\ overtaken[p] = 1 /\ Settled(other(p)) => turn = other(p)

\* Nothing waits where there is no buffer (for the sequential case only).
Fits(p) == MaxPending = 0 => pending[p] = <<>>

IInv == /\ TypeOK
        /\ \A p \in Process : Fits(p)
        /\ ~unfenced => \A p \in Process : Shape(p) /\ Yields(p) /\ Patient(p)

LEMMA InitIInv == Init => IInv
<1>1. Init => TypeOK /\ \A p \in Process : Fits(p) /\ Shape(p) /\ Yields(p)
  BY DEF Init, TypeOK, Process, Shape, Yields, Fits, other, Entering
<1>2. Init => \A p \in Process : Patient(p)
  BY DEF Init, Process, Patient, Settled, Waits
<1> QED BY <1>1, <1>2 DEF IInv

LEMMA OtherFacts ==
    \A p \in Process : other(p) \in Process /\ other(p) # p /\ other(other(p)) = p
BY DEF Process, other

\* The buffers that occur, one store longer.
LEMMA AppendFacts ==
    ASSUME NEW a, NEW b, NEW c
    PROVE  /\ Append(<<>>, a) = <<a>>
           /\ Append(<<a>>, b) = <<a, b>>
           /\ Append(<<a, b>>, c) = <<a, b, c>>
<1>1. Append(<<>>, a) = <<a>>
  OBVIOUS
<1> DEFINE S == {a, b, c}
           s == Append(<<a>>, b)
           t == Append(<<a, b>>, c)
<1>2. s \in Seq(S) /\ <<a, b>> \in Seq(S) /\ t \in Seq(S) /\ <<a, b, c>> \in Seq(S)
  OBVIOUS
<1>3. Len(s) = 2 /\ s[1] = a /\ s[2] = b
  OBVIOUS
<1>4. Len(t) = 3 /\ t[1] = a /\ t[2] = b /\ t[3] = c
  OBVIOUS
<1>5. \A i \in 1..2 : s[i] = <<a, b>>[i]
  BY <1>3
<1>6. \A i \in 1..3 : t[i] = <<a, b, c>>[i]
  BY <1>4
<1>7. Len(<<a, b>>) = 2 /\ Len(<<a, b, c>>) = 3
  OBVIOUS
<1> HIDE DEF S, s, t
<1>8. s = <<a, b>>
  BY <1>2, <1>3, <1>5, <1>7, SeqEqual
<1>9. t = <<a, b, c>>
  BY <1>2, <1>4, <1>6, <1>7, SeqEqual
<1> QED BY <1>1, <1>8, <1>9 DEF s, t

\* The buffers that occur, one store shorter.
LEMMA TailOfOne == ASSUME NEW a PROVE Head(<<a>>) = a /\ Tail(<<a>>) = <<>>
<1>1. Head(<<a>>) = a
  OBVIOUS
<1>2. Tail(<<a>>) = <<>>
  OBVIOUS
<1> QED BY <1>1, <1>2

LEMMA TailOfTwo == ASSUME NEW a, NEW b PROVE Head(<<a, b>>) = a /\ Tail(<<a, b>>) = <<b>>
<1>1. Head(<<a, b>>) = a
  OBVIOUS
<1>2. Tail(<<a, b>>) = <<b>>
  OBVIOUS
<1> QED BY <1>1, <1>2

LEMMA TailOfThree ==
    ASSUME NEW a, NEW b, NEW c
    PROVE  Head(<<a, b, c>>) = a /\ Tail(<<a, b, c>>) = <<b, c>>
<1>1. Head(<<a, b, c>>) = a
  OBVIOUS
<1>2. Tail(<<a, b, c>>) = <<b, c>>
  OBVIOUS
<1> QED BY <1>1, <1>2

LEMMA PairFacts == ASSUME NEW s, NEW a, NEW b, s = <<a, b>> PROVE s[1] = a /\ s[2] = b
OBVIOUS

LEMMA NotEmpty ==
    /\ \A a : <<a>> # <<>>
    /\ \A a, b : <<a, b>> # <<>>
    /\ \A a, b, c : <<a, b, c>> # <<>>
<1>1. ASSUME NEW a, <<a>> = <<>> PROVE FALSE
  BY <1>1
<1>2. ASSUME NEW a, NEW b, <<a, b>> = <<>> PROVE FALSE
  <2>1. Len(<<a, b>>) = Len(<<>>)
    BY <1>2
  <2> QED BY <2>1
<1>3. ASSUME NEW a, NEW b, NEW c, <<a, b, c>> = <<>> PROVE FALSE
  <2>1. Len(<<a, b, c>>) = Len(<<>>)
    BY <1>3
  <2> QED BY <2>1
<1> QED BY <1>1, <1>2, <1>3

LEMMA AppendNotEmpty ==
    ASSUME NEW a, NEW b, NEW c
    PROVE  /\ Append(<<>>, a) # <<>>
           /\ Append(<<a>>, b) # <<>>
           /\ Append(<<a, b>>, c) # <<>>
BY AppendFacts, NotEmpty

LEMMA NextTypeOK == TypeOK /\ Next => TypeOK'
<1> SUFFICES ASSUME TypeOK, NEW p \in Process, EnterRegion(p) \/ Leave(p) \/ Drain(p)
             PROVE  TypeOK'
  BY DEF Next
<1> DEFINE Stores == {"turn", "interested"} \X {0, 1}
<1>1. /\ Interested(0) \in Stores /\ Interested(1) \in Stores /\ Turn(p) \in Stores
      /\ pending \in [Process -> Seq(Stores)] /\ other(p) \in Process
  BY DEF Interested, Turn, Process, TypeOK, other
<1>2. \A s \in Stores : [pending EXCEPT ![p] = Append(@, s)] \in [Process -> Seq(Stores)]
  BY <1>1
<1>a. /\ [overtaken EXCEPT ![p] = 0] \in [Process -> 0..2]
      /\ [overtaken EXCEPT ![other(p)] = IF @ < 2 THEN @ + 1 ELSE @]
            \in [Process -> 0..2]
  BY <1>1 DEF TypeOK
<1>b. (unfenced \/ pending[p] # <<>>) \in BOOLEAN
  OBVIOUS
<1>3. CASE SetInterested(p)
  BY <1>1, <1>2, <1>3
  DEF SetInterested, Goto, Buffer, WriteInterested, TypeOK, Entering
<1>4. CASE SetTurn(p)
  <2> HIDE DEF Stores
  <2>1. pc' \in [Process -> Entering \cup {"outside", "inside"}]
    BY <1>4 DEF SetTurn, Goto, TypeOK, Entering
  <2>2. pending' \in [Process -> Seq(Stores)]
    BY <1>1, <1>2, <1>4 DEF SetTurn, Buffer
  <2>3. turn' \in Process /\ overtaken' \in [Process -> 0..2]
    BY <1>a, <1>4 DEF SetTurn, Buffer, WriteTurn, TypeOK
  <2>4. interested' = interested /\ unfenced' = unfenced
    BY <1>4 DEF SetTurn, Buffer
  <2> QED BY <2>1, <2>2, <2>3, <2>4 DEF TypeOK, Stores
<1>5. CASE TestTurn(p) \/ TestInterested(p)
  <2>1. pc' \in [Process -> Entering \cup {"outside", "inside"}]
    BY <1>5 DEF TestTurn, TestInterested, Goto, TypeOK, Entering
  <2>2. overtaken' \in [Process -> 0..2]
    BY <1>a, <1>5 DEF TestTurn, TestInterested, Enter, TypeOK
  <2>3. unfenced' \in BOOLEAN /\ UNCHANGED <<turn, interested, pending>>
    BY <1>b, <1>5 DEF TestTurn, TestInterested
  <2> QED BY <2>1, <2>2, <2>3 DEF TypeOK
<1>6. CASE Leave(p)
  BY <1>1, <1>2, <1>6
  DEF Leave, Goto, Buffer, WriteInterested, TypeOK, Entering
<1>7. CASE Drain(p)
  <2>1. /\ Head(pending[p]) \in Stores /\ Tail(pending[p]) \in Seq(Stores)
        /\ Head(pending[p])[2] \in {0, 1}
    BY <1>1, <1>7 DEF Drain
  <2>2. pending' \in [Process -> Seq(Stores)]
    BY <1>1, <1>7, <2>1 DEF Drain
  <2>3. turn' \in Process /\ interested' \in [Process -> {0, 1}]
    BY <1>7, <2>1 DEF Drain, WriteTurn, WriteInterested, TypeOK, Process
  <2>4. overtaken' \in [Process -> 0..2]
    BY <1>a, <1>7 DEF Drain, WriteTurn, TypeOK
  <2>5. pc' = pc /\ unfenced' = unfenced
    BY <1>7 DEF Drain
  <2> QED BY <2>2, <2>3, <2>4, <2>5 DEF TypeOK
<1> QED BY <1>3, <1>4, <1>5, <1>6, <1>7 DEF EnterRegion

\* A step of p leaves the other process's buffer, control and interest alone.
LEMMA OtherAlone ==
    ASSUME TypeOK, NEW p \in Process, EnterRegion(p) \/ Leave(p) \/ Drain(p)
    PROVE  /\ pending'[other(p)] = pending[other(p)]
           /\ pc'[other(p)] = pc[other(p)]
           /\ interested'[other(p)] = interested[other(p)]
BY OtherFacts
DEF EnterRegion, SetInterested, SetTurn, TestTurn, TestInterested, Leave, Drain,
    Goto, Buffer, WriteTurn, WriteInterested, TypeOK

LEMMA EmptyLength == Len(<<>>) = 0
OBVIOUS

LEMMA StepFits ==
    ASSUME TypeOK, NEW p \in Process, Fits(p), EnterRegion(p) \/ Leave(p) \/ Drain(p)
    PROVE  Fits(p)'
<1> SUFFICES ASSUME MaxPending = 0 PROVE UNCHANGED pending
  BY DEF Fits
<1>1. ~Drain(p) /\ \A store : ~Buffer(p, store)
  BY EmptyLength DEF Drain, Buffer, Fits
<1>2. CASE EnterRegion(p)
  BY <1>1, <1>2 DEF EnterRegion, SetInterested, SetTurn, TestTurn, TestInterested
<1>3. CASE Leave(p)
  BY <1>1, <1>3 DEF Leave
<1> QED BY <1>1, <1>2, <1>3

\* What Shape says where p appends a store, and where it has none pending.
LEMMA ShapeAt ==
    ASSUME NEW p \in Process, Shape(p)
    PROVE  /\ pc[p] \in {"outside", "inside", "set turn"} /\ pending[p] = <<>>
                => interested[p] = IF pc[p] = "outside" THEN 0 ELSE 1
           /\ pc[p] = "outside" => \/ pending[p] = <<>> /\ interested[p] = 0
                                   \/ pending[p] = <<I(0)>> /\ interested[p] = 1
           /\ pc[p] = "set turn" => \/ pending[p] = <<>> /\ interested[p] = 1
                                    \/ pending[p] = <<I(1)>> /\ interested[p] = 0
                                    \/ pending[p] = <<I(0), I(1)>> /\ interested[p] = 1
           /\ pc[p] \in {"test interested", "inside"}
                => pending[p] = <<>> /\ interested[p] = 1
           /\ pc[p] = "test turn" /\ pending[p] = <<>> => interested[p] = 1
BY NotEmpty DEF Shape

LEMMA StepShape ==
    ASSUME TypeOK, NEW p \in Process, Shape(p), ~unfenced',
           EnterRegion(p) \/ Leave(p) \/ Drain(p)
    PROVE  Shape(p)'
<1>0. \A store : Buffer(p, store) =>
          pending'[p] = Append(pending[p], store) /\ interested' = interested
  BY DEF Buffer, TypeOK
<1>1. CASE SetInterested(p)
  <2>1. pc[p] = "outside" /\ pc'[p] = "set turn"
    BY <1>1 DEF SetInterested, Goto, TypeOK
  <2>2. CASE Buffer(p, I(1))
    <3>1. pending'[p] = Append(pending[p], I(1)) /\ interested' = interested
      BY <1>0, <2>2
    <3>2. \/ pending'[p] = <<I(1)>> /\ interested'[p] = 0
          \/ pending'[p] = <<I(0), I(1)>> /\ interested'[p] = 1
      BY <2>1, <3>1, AppendFacts, ShapeAt
    <3> QED BY <2>1, <3>2 DEF Shape, I
  <2>3. CASE pending[p] = <<>> /\ WriteInterested(p, 1) /\ UNCHANGED pending
    <3>1. pending'[p] = <<>> /\ interested'[p] = 1
      BY <2>3 DEF WriteInterested, TypeOK
    <3> QED BY <2>1, <3>1 DEF Shape
  <2> QED BY <1>1, <2>2, <2>3 DEF SetInterested, I
<1>2. CASE SetTurn(p)
  <2>1. pc[p] = "set turn" /\ pc'[p] = "test turn"
    BY <1>2 DEF SetTurn, Goto, TypeOK
  <2>2. CASE Buffer(p, Turn(p))
    <3>1. pending'[p] = Append(pending[p], Turn(p)) /\ interested' = interested
      BY <1>0, <2>2
    <3>2. \/ pending'[p] = <<Turn(p)>> /\ interested'[p] = 1
          \/ pending'[p] = <<I(1), Turn(p)>> /\ interested'[p] = 0
          \/ pending'[p] = <<I(0), I(1), Turn(p)>> /\ interested'[p] = 1
      BY <2>1, <3>1, AppendFacts, ShapeAt
    <3> QED BY <2>1, <3>2 DEF Shape, I, Turn
  <2>3. CASE pending[p] = <<>> /\ UNCHANGED <<interested, pending>>
    <3>1. pending'[p] = <<>> /\ interested'[p] = 1
      BY <2>1, <2>3, ShapeAt, NotEmpty
    <3> QED BY <2>1, <3>1 DEF Shape
  <2> QED BY <1>2, <2>2, <2>3 DEF SetTurn
<1>3. CASE TestTurn(p) \/ TestInterested(p)
  <2>1. pending[p] = <<>> /\ UNCHANGED <<pending, interested>>
    BY <1>3 DEF TestTurn, TestInterested
  <2>2. pc[p] \in {"test turn", "test interested"} /\ pc'[p] # "outside"
    BY <1>3 DEF TestTurn, TestInterested, Goto, TypeOK
  <2>3. interested[p] = 1
    BY <2>1, <2>2, ShapeAt
  <2> QED BY <2>1, <2>2, <2>3 DEF Shape
<1>4. CASE Leave(p)
  <2>1. pending[p] = <<>> /\ interested[p] = 1 /\ pc'[p] = "outside"
    BY <1>4, ShapeAt DEF Leave, Goto, TypeOK
  <2>2. CASE Buffer(p, I(0))
    <3>1. pending'[p] = <<I(0)>> /\ interested'[p] = 1
      BY <1>0, <2>1, <2>2, AppendFacts
    <3> QED BY <2>1, <3>1 DEF Shape, I
  <2>3. CASE WriteInterested(p, 0) /\ UNCHANGED pending
    <3>1. pending'[p] = <<>> /\ interested'[p] = 0
      BY <2>1, <2>3 DEF WriteInterested, TypeOK
    <3> QED BY <2>1, <3>1 DEF Shape
  <2> QED BY <1>4, <2>2, <2>3 DEF Leave, I
<1>5. CASE Drain(p)
  <2> DEFINE store == Head(pending[p])
  <2>1. pc' = pc /\ pending'[p] = Tail(pending[p]) /\ pending[p] # <<>>
    BY <1>5 DEF Drain, TypeOK
  <2>2. \A b \in {0, 1} : store = I(b) => interested'[p] = b
    <3>1. ASSUME NEW b \in {0, 1}, store = I(b) PROVE store[1] = "interested" /\ store[2] = b
      BY <3>1, PairFacts DEF I, Interested
    <3> QED BY <1>5, <3>1 DEF Drain, WriteInterested, TypeOK
  <2>3. store = Turn(p) => interested' = interested
    <3>1. store = Turn(p) => store[1] = "turn"
      BY PairFacts DEF Turn
    <3> QED BY <1>5, <3>1 DEF Drain
  <2>4. CASE pending[p] = <<I(0)>> /\ pc[p] = "outside"
    BY <2>1, <2>2, <2>4, TailOfOne DEF Shape
  <2>5. CASE pending[p] = <<I(1)>> /\ pc[p] = "set turn"
    BY <2>1, <2>2, <2>5, TailOfOne DEF Shape
  <2>6. CASE pending[p] = <<I(0), I(1)>> /\ pc[p] = "set turn"
    <3>1. pending'[p] = <<I(1)>> /\ interested'[p] = 0
      BY <2>1, <2>2, <2>6, TailOfTwo
    <3> QED BY <2>1, <2>6, <3>1 DEF Shape, I
  <2>7. CASE pending[p] = <<Turn(p)>> /\ pc[p] = "test turn" /\ interested[p] = 1
    BY <2>1, <2>3, <2>7, TailOfOne DEF Shape
  <2>8. CASE pending[p] = <<I(1), Turn(p)>> /\ pc[p] = "test turn"
    <3>1. pending'[p] = <<Turn(p)>> /\ interested'[p] = 1
      BY <2>1, <2>2, <2>8, TailOfTwo
    <3> QED BY <2>1, <2>8, <3>1 DEF Shape, Turn
  <2>9. CASE pending[p] = <<I(0), I(1), Turn(p)>> /\ pc[p] = "test turn"
    <3>0. /\ Head(<<I(0), I(1), Turn(p)>>) = I(0)
          /\ Tail(<<I(0), I(1), Turn(p)>>) = <<I(1), Turn(p)>>
      BY TailOfThree
    <3>1. pending'[p] = <<I(1), Turn(p)>> /\ interested'[p] = 0
      BY <2>1, <2>2, <2>9, <3>0
    <3> QED BY <2>1, <2>9, <3>1 DEF Shape, I, Turn
  <2> QED BY <2>1, <2>4, <2>5, <2>6, <2>7, <2>8, <2>9 DEF Shape
<1> QED BY <1>1, <1>2, <1>3, <1>4, <1>5 DEF EnterRegion

\* With nothing pending a process reads memory.
LEMMA LoadMemory ==
    ASSUME NEW p \in Process, pending[p] = <<>>, NEW v, NEW memory
    PROVE  Load(p, v, memory) = memory
<1>1. Len(pending[p]) = 0
  OBVIOUS
<1>2. 1..Len(pending[p]) = {}
  BY <1>1
<1>3. Pending(p, v) = {}
  BY <1>2 DEF Pending
<1> QED BY <1>3 DEF Load

LEMMA StepYields ==
    ASSUME TypeOK, NEW p \in Process, ~unfenced',
           Shape(p), Shape(other(p)), Yields(p), Yields(other(p)),
           EnterRegion(p) \/ Leave(p) \/ Drain(p)
    PROVE  Yields(p)' /\ Yields(other(p))'
<1> DEFINE q == other(p)
<1>a. q \in Process /\ q # p /\ other(q) = p
  BY OtherFacts
<1>b. /\ pending'[q] = pending[q] /\ pc'[q] = pc[q]
      /\ interested'[q] = interested[q]
  BY OtherAlone
<1>c. Shape(q) /\ Yields(q)
  OBVIOUS
<1>e. 0 # 1
  OBVIOUS
<1>d. \A t \in Process : t # p => t = q
  BY DEF Process, other
<1> HIDE DEF q
<1>1. Yields(p)'
  <2> SUFFICES ASSUME pc'[p] = "inside",
                      pc[q] \in {"test turn", "test interested", "inside"},
                      pending[q] = <<>>
               PROVE  turn' = q
    BY <1>a, <1>b DEF Yields, q
  <2>1. CASE TestTurn(p)
    <3>1. pending[p] = <<>> /\ turn' = turn
      BY <2>1 DEF TestTurn
    <3>2. Load(p, "turn", turn) # p
      BY <2>1 DEF TestTurn, Goto, TypeOK
    <3>3. turn # p /\ turn \in Process
      <4>1. Load(p, "turn", turn) = turn
        BY <3>1, LoadMemory
      <4>2. turn \in Process
        BY DEF TypeOK
      <4> QED BY <3>2, <4>1, <4>2, Zenon
    <3> QED BY <3>1, <3>3, <1>d
  <2>2. CASE TestInterested(p)
    <3>1. interested[q] = 0
      BY <2>2, <1>a DEF TestInterested, Goto, TypeOK, q
    <3>2. interested[q] = 1
      BY <1>a, <1>c, ShapeAt
    <3> QED BY <3>1, <3>2, <1>e, Zenon
  <2>3. CASE Drain(p)
    BY <2>3, ShapeAt DEF Drain
  <2>4. CASE SetInterested(p) \/ SetTurn(p) \/ Leave(p)
    BY <2>4 DEF SetInterested, SetTurn, Leave, Goto, TypeOK
  <2> QED BY <2>1, <2>2, <2>3, <2>4 DEF EnterRegion
<1>2. Yields(q)'
  <2> SUFFICES ASSUME pc[q] = "inside",
                      pc'[p] \in {"test turn", "test interested", "inside"},
                      pending'[p] = <<>>
               PROVE  turn' = p
    BY <1>a, <1>b DEF Yields, q
  <2>1. CASE SetTurn(p)
    <3>1. ASSUME Buffer(p, Turn(p)) PROVE pending'[p] # <<>>
      <4>1. pending'[p] = Append(pending[p], Turn(p)) /\ pc[p] = "set turn"
        BY <2>1, <3>1 DEF SetTurn, Goto, Buffer, TypeOK
      <4>2. \/ pending[p] = <<>>
            \/ pending[p] = <<I(1)>>
            \/ pending[p] = <<I(0), I(1)>>
        BY <4>1, ShapeAt
      <4> QED BY <4>1, <4>2, AppendNotEmpty
    <3> QED BY <2>1, <3>1 DEF SetTurn, WriteTurn
  <2>2. CASE Drain(p)
    <3>1. pc' = pc /\ pending'[p] = Tail(pending[p]) /\ pending[p] # <<>>
      BY <2>2 DEF Drain, TypeOK
    <3>2. pc[p] = "test turn"
      BY <3>1, ShapeAt
    <3>3. pending[p] # <<I(1), Turn(p)>> /\ pending[p] # <<I(0), I(1), Turn(p)>>
      <4>1. /\ Tail(<<I(1), Turn(p)>>) = <<Turn(p)>>
            /\ Tail(<<I(0), I(1), Turn(p)>>) = <<I(1), Turn(p)>>
        BY TailOfTwo, TailOfThree
      <4> QED BY <3>1, <4>1, NotEmpty
    <3>4. pending[p] = <<Turn(p)>>
      BY <3>1, <3>2, <3>3 DEF Shape
    <3>5. Head(pending[p]) = Turn(p)
      BY <3>4, TailOfOne
    <3>6. Head(pending[p])[1] = "turn" /\ Head(pending[p])[2] = p
      BY <3>5, PairFacts DEF Turn
    <3> QED BY <2>2, <3>6 DEF Drain, WriteTurn
  <2>3. CASE TestTurn(p) \/ TestInterested(p)
    <3>1. /\ pc[p] \in {"test turn", "test interested"}
          /\ UNCHANGED <<turn, pending>>
      BY <2>3 DEF TestTurn, TestInterested, Goto
    <3> QED BY <3>1, <1>a DEF Yields, q
  <2>4. CASE SetInterested(p) \/ Leave(p)
    BY <2>4 DEF SetInterested, Leave, Goto, TypeOK
  <2> QED BY <2>1, <2>2, <2>3, <2>4 DEF EnterRegion
<1> QED BY <1>1, <1>2 DEF q

\* A turn that p stores is its own.
LEMMA OldestStore ==
    ASSUME NEW p \in Process, Shape(p), pending[p] # <<>>
    PROVE  Head(pending[p])[1] = "turn" => Head(pending[p])[2] = p
<1>1. \A b : I(b)[1] # "turn"
  BY PairFacts DEF I, Interested
<1>2. Turn(p)[2] = p
  BY PairFacts DEF Turn
<1>3. \/ Head(pending[p]) = I(0)
      \/ Head(pending[p]) = I(1)
      \/ Head(pending[p]) = Turn(p)
  <2>1. /\ Head(<<I(0)>>) = I(0) /\ Head(<<I(1)>>) = I(1)
        /\ Head(<<Turn(p)>>) = Turn(p)
    BY TailOfOne
  <2>2. /\ Head(<<I(0), I(1)>>) = I(0)
        /\ Head(<<I(1), Turn(p)>>) = I(1)
    BY TailOfTwo
  <2>3. Head(<<I(0), I(1), Turn(p)>>) = I(0)
    BY TailOfThree
  <2> QED BY <2>1, <2>2, <2>3 DEF Shape
<1> QED BY <1>1, <1>2, <1>3

\* What the turn is once the last pending store of a waiting p was written.
LEMMA LastStore ==
    ASSUME TypeOK, NEW p \in Process, Shape(p), Drain(p), Settled(p)'
    PROVE  turn' = p /\ overtaken'[p] = 0
<1>1. pc' = pc /\ pending'[p] = Tail(pending[p]) /\ pending[p] # <<>>
  BY DEF Drain, TypeOK
<1>2. pc[p] = "test turn" /\ pending'[p] = <<>>
  BY <1>1, ShapeAt DEF Settled, Waits
<1>3. pending[p] # <<I(1), Turn(p)>> /\ pending[p] # <<I(0), I(1), Turn(p)>>
  <2>1. /\ Tail(<<I(1), Turn(p)>>) = <<Turn(p)>>
        /\ Tail(<<I(0), I(1), Turn(p)>>) = <<I(1), Turn(p)>>
    BY TailOfTwo, TailOfThree
  <2> QED BY <1>1, <1>2, <2>1, NotEmpty
<1>4. pending[p] = <<Turn(p)>>
  BY <1>1, <1>2, <1>3 DEF Shape
<1>5. Head(pending[p])[1] = "turn" /\ Head(pending[p])[2] = p
  BY <1>4, TailOfOne, PairFacts DEF Turn
<1>6. WriteTurn(p)
  BY <1>5 DEF Drain
<1> QED BY <1>6 DEF WriteTurn, TypeOK

\* The same when p stores its turn at once; a buffered store is pending.
LEMMA StoreOfTurn ==
    ASSUME TypeOK, NEW p \in Process, Shape(p), SetTurn(p), Settled(p)'
    PROVE  turn' = p /\ overtaken'[p] = 0
<1>1. ASSUME Buffer(p, Turn(p)) PROVE FALSE
  <2>1. pending'[p] = Append(pending[p], Turn(p)) /\ pc[p] = "set turn"
    BY <1>1 DEF SetTurn, Goto, Buffer, TypeOK
  <2>2. \/ pending[p] = <<>>
        \/ pending[p] = <<I(1)>>
        \/ pending[p] = <<I(0), I(1)>>
    BY <2>1, ShapeAt
  <2> QED BY <2>1, <2>2, AppendNotEmpty DEF Settled
<1>2. WriteTurn(p)
  BY <1>1 DEF SetTurn
<1> QED BY <1>2 DEF WriteTurn, TypeOK

LEMMA StepPatient ==
    ASSUME TypeOK, NEW p \in Process, ~unfenced',
           Shape(p), Shape(other(p)), Patient(p), Patient(other(p)),
           EnterRegion(p) \/ Leave(p) \/ Drain(p)
    PROVE  Patient(p)' /\ Patient(other(p))'
<1> DEFINE q == other(p)
<1>a. q \in Process /\ q # p /\ other(q) = p
  BY OtherFacts
<1>b. pending'[q] = pending[q] /\ pc'[q] = pc[q]
  BY OtherAlone
<1>c. Shape(q) /\ Patient(q)
  OBVIOUS
<1> HIDE DEF q
<1>d. Settled(q)' <=> Settled(q)
  BY <1>b DEF Settled, Waits
<1>1. CASE TestTurn(p) \/ TestInterested(p)
  <2>1. pending[p] = <<>> /\ Waits(p) /\ UNCHANGED <<turn, pending>>
    BY <1>1 DEF TestTurn, TestInterested, Goto, Waits
  <2>2. Settled(p)
    BY <2>1 DEF Settled
  <2>3. \/ Waits(p)' /\ UNCHANGED overtaken
        \/ pc'[p] = "inside" /\ Enter(p)
    BY <1>1 DEF TestTurn, TestInterested, Goto, Waits, TypeOK
  <2>4. CASE Waits(p)' /\ UNCHANGED overtaken
    <3>1. Patient(p)'
      BY <2>1, <2>2, <2>4, <1>d DEF Patient, q
    <3>2. Patient(q)'
      BY <2>1, <2>2, <2>4, <1>a, <1>c, <1>d DEF Patient
    <3> QED BY <3>1, <3>2 DEF q
  <2>5. CASE pc'[p] = "inside" /\ Enter(p)
    <3>1. ~Settled(p)'
      BY <2>5 DEF Settled, Waits
    <3>2. Settled(q) => overtaken[q] = 0
      <4> SUFFICES ASSUME Settled(q), overtaken[q] # 0 PROVE FALSE
        OBVIOUS
      <4>1. overtaken[q] \in 0..2
        BY <1>a DEF TypeOK
      <4>2. overtaken[q] = 1 /\ turn = p
        BY <4>1, <1>a, <1>c, <2>2 DEF Patient
      <4>3. interested[q] = 1
        BY <1>a, <1>c, ShapeAt DEF Settled, Waits
      <4>4. CASE TestTurn(p)
        <5>1. Load(p, "turn", turn) # p
          BY <2>5, <4>4 DEF TestTurn, Goto, TypeOK
        <5>2. Load(p, "turn", turn) = turn
          BY <2>1, LoadMemory
        <5> QED BY <5>1, <5>2, <4>2, Zenon
      <4>5. CASE TestInterested(p)
        <5>1. interested[q] = 0
          BY <2>5, <4>5, <1>a DEF TestInterested, Goto, TypeOK, q
        <5> QED BY <5>1, <4>3
      <4> QED BY <1>1, <4>4, <4>5
    <3>3. Settled(q) => overtaken'[q] = 1
      BY <3>2, <2>5, <1>a DEF Enter, TypeOK, q
    <3>4. Patient(q)'
      BY <3>1, <3>3, <1>a, <1>d DEF Patient
    <3> QED BY <3>1, <3>4 DEF Patient, q
  <2> QED BY <2>3, <2>4, <2>5
<1>2. CASE SetTurn(p)
  <2>1. ~Settled(p)
    BY <1>2 DEF SetTurn, Goto, Settled, Waits
  <2>2. overtaken'[q] = overtaken[q]
    BY <1>2, <1>a DEF SetTurn, Buffer, WriteTurn, TypeOK
  <2>3. Settled(p)' => turn' = p /\ overtaken'[p] = 0
    BY <1>2, StoreOfTurn
  <2> QED BY <2>2, <2>3, <1>a, <1>c, <1>d DEF Patient, q
<1>3. CASE Drain(p)
  <2>0. Head(pending[p])[1] = "turn" => Head(pending[p])[2] = p
    BY <1>3, OldestStore DEF Drain
  <2>1. overtaken'[q] = overtaken[q]
    <3>1. CASE Head(pending[p])[1] = "turn"
      BY <1>3, <3>1, <2>0, <1>a DEF Drain, WriteTurn, TypeOK
    <3>2. CASE Head(pending[p])[1] # "turn"
      BY <1>3, <3>2 DEF Drain
    <3> QED BY <3>1, <3>2
  <2>2. Settled(p)' => turn' = p /\ overtaken'[p] = 0
    BY <1>3, LastStore
  <2> QED BY <2>1, <2>2, <1>a, <1>c, <1>d DEF Patient, q
<1>4. CASE SetInterested(p) \/ Leave(p)
  <2>1. ~Settled(p)' /\ UNCHANGED overtaken
    BY <1>4 DEF SetInterested, Leave, Goto, Buffer, Settled, Waits, TypeOK
  <2> QED BY <2>1, <1>a, <1>c, <1>d DEF Patient, q
<1> QED BY <1>1, <1>2, <1>3, <1>4 DEF EnterRegion

LEMMA NextIInv == IInv /\ [Next]_vars => IInv'
<1> SUFFICES ASSUME IInv, [Next]_vars PROVE IInv'
  OBVIOUS
<1>1. CASE UNCHANGED vars
  <2>1. TypeOK' /\ \A p \in Process : Fits(p)'
    BY <1>1 DEF vars, IInv, TypeOK, Fits
  <2>2. ~unfenced' => \A p \in Process : Shape(p)' /\ Yields(p)' /\ Patient(p)'
    BY <1>1 DEF vars, IInv, Shape, Yields, Patient, Settled, Waits
  <2> QED BY <2>1, <2>2 DEF IInv
<1>2. CASE Next
  <2>1. TypeOK'
    BY <1>2, NextTypeOK DEF IInv
  <2>2. PICK p \in Process : EnterRegion(p) \/ Leave(p) \/ Drain(p)
    BY <1>2 DEF Next
  <2>3. \A q \in Process : q = p \/ q = other(p)
    BY DEF Process, other
  <2>4. TypeOK /\ Fits(p) /\ Fits(other(p))
    BY OtherFacts DEF IInv
  <2>5. \A q \in Process : Fits(q)'
    <3>1. Fits(p)'
      BY <2>2, <2>4, StepFits
    <3>2. Fits(other(p))'
      BY <2>2, <2>4, OtherAlone DEF Fits, other
    <3> QED BY <2>3, <3>1, <3>2
  <2>6. ASSUME ~unfenced' PROVE \A q \in Process : Shape(q)' /\ Yields(q)' /\ Patient(q)'
    <3>1. ~unfenced
      BY <2>2, <2>6
      DEF EnterRegion, SetInterested, SetTurn, TestTurn, TestInterested, Leave, Drain
    <3>2. /\ Shape(p) /\ Yields(p) /\ Patient(p)
          /\ Shape(other(p)) /\ Yields(other(p)) /\ Patient(other(p))
      BY <3>1, OtherFacts DEF IInv
    <3>3. Shape(p)'
      BY <2>2, <2>4, <2>6, <3>2, StepShape
    <3>4. Shape(other(p))'
      BY <2>2, <2>4, <3>2, OtherAlone DEF Shape, other, I, Turn, Interested
    <3>5. Yields(p)' /\ Yields(other(p))'
      BY <2>2, <2>4, <2>6, <3>2, StepYields
    <3>6. Patient(p)' /\ Patient(other(p))'
      BY <2>2, <2>4, <2>6, <3>2, StepPatient
    <3> QED BY <2>3, <3>3, <3>4, <3>5, <3>6
  <2> QED BY <2>1, <2>5, <2>6 DEF IInv
<1> QED BY <1>1, <1>2

LEMMA Invariance == Spec => []IInv
BY InitIInv, NextIInv, PTL DEF Spec

\* The types, for store buffers of any length.
THEOREM Typing == Spec => []TypeOK
<1>1. IInv => TypeOK
  BY DEF IInv
<1> QED BY <1>1, Invariance, PTL

\* enter_region of MutualExclusive.c excludes, for store buffers of any length,
\* unless a process tested its loop condition with a store of its own pending.
THEOREM MutualExclusion == Spec => []Exclusion
<1>1. IInv => Exclusion
  <2> SUFFICES ASSUME IInv, \A p \in Process : pc[p] = "inside", ~unfenced
               PROVE  FALSE
    BY DEF Exclusion
  <2>1. \A p \in Process : Shape(p) /\ Yields(p) /\ pending[p] = <<>>
    BY DEF IInv, Shape
  <2>2. 0 \in Process /\ 1 \in Process /\ other(0) = 1 /\ other(1) = 0
    BY DEF Process, other
  <2>3. turn = 1 /\ turn = 0
    BY <2>1, <2>2 DEF Yields
  <2> QED BY <2>3
<1> QED BY <1>1, Invariance, PTL

\* A process that waits in the loop of enter_region is overtaken at most once, for
\* store buffers of any length, as long as no loop test was made with one in use.
THEOREM BoundedOvertaking == Spec => []OvertakenOnce
<1>1. IInv => OvertakenOnce
  BY DEF IInv, OvertakenOnce, Patient, Settled, Waits
<1> QED BY <1>1, Invariance, PTL

\* With no store buffer, no loop test is ever made with a store pending.
LEMMA NothingPending == ASSUME MaxPending = 0 PROVE Spec => []~unfenced
<1>1. Init => ~unfenced
  BY DEF Init
<1>2. IInv /\ ~unfenced /\ [Next]_vars => ~unfenced'
  <2> SUFFICES ASSUME \A p \in Process : pending[p] = <<>>, ~unfenced, [Next]_vars
               PROVE  ~unfenced'
    BY DEF IInv, Fits
  <2>1. CASE UNCHANGED vars
    BY <2>1 DEF vars
  <2>2. ASSUME NEW p \in Process, EnterRegion(p) \/ Leave(p) \/ Drain(p)
        PROVE  ~unfenced'
    BY <2>2
    DEF EnterRegion, SetInterested, SetTurn, TestTurn, TestInterested, Leave, Drain
  <2> QED BY <2>1, <2>2 DEF Next
<1> QED BY <1>1, <1>2, Invariance, PTL DEF Spec

\* On memory that keeps stores before loads, the two processes exclude each other.
THEOREM SequentialExclusion ==
    ASSUME MaxPending = 0
    PROVE  Spec => [](~ \A p \in Process : pc[p] = "inside")
<1>1. Exclusion /\ ~unfenced => ~ \A p \in Process : pc[p] = "inside"
  BY DEF Exclusion
<1> QED BY <1>1, NothingPending, MutualExclusion, PTL
=============================================================================
