--------------------------- MODULE ServerPool_proofs ---------------------------
(***************************************************************************)
(* Proofs about ServerPool, for any number of workers, requests, node      *)
(* addresses and file sizes: typing, mutual exclusion, and that the        *)
(* unlocked enqueue never makes the server repeat or reorder a request.    *)
(***************************************************************************)
EXTENDS ServerPool, FiniteSetTheorems, TLAPS

-----------------------------------------------------------------------------
(* Typing.                                                                 *)

LEMMA InitTypeOK == Init => StateTypeOK
BY CellsAssumption, NullAssumption, SizeAssumption
DEF Init, StateTypeOK, BossPC, WorkerPC, PopPC, Status, Requests

LEMMA BossTypeOK == StateTypeOK /\ Boss => StateTypeOK'
<1> SUFFICES ASSUME StateTypeOK, Boss PROVE StateTypeOK'
  OBVIOUS
<1> USE CellsAssumption, NullAssumption, SizeAssumption
    DEF StateTypeOK, NoWorker, struct, memory, locks, locals, transfer, BossPC, Status
<1>1. CASE HandlerGet
  <2>1. PICK c \in Cells \ live :
          /\ item' = [item EXCEPT ![c] = accepted + 1]
          /\ next' = [next EXCEPT ![c] = NULL]
          /\ live' = live \cup {c}
          /\ bnode' = c
    BY <1>1 DEF HandlerGet
  <2>2. accepted + 1 \in 0..NReq
    BY <1>1 DEF HandlerGet
  <2> QED BY <1>1, <2>1, <2>2 DEF HandlerGet
<1>2. CASE EnqueueTest
  BY <1>2 DEF EnqueueTest
<1>3. CASE EnqueueFirst
  BY <1>3 DEF EnqueueFirst
<1>4. CASE EnqueueLink
  BY <1>4 DEF EnqueueLink
<1>5. CASE EnqueueSetBack
  BY <1>5 DEF EnqueueSetBack
<1>6. CASE EnqueueLoadN
  BY <1>6 DEF EnqueueLoadN
<1>7. CASE EnqueueStoreN
  BY <1>7, SMTT(30) DEF EnqueueStoreN
<1> QED BY <1>1, <1>2, <1>3, <1>4, <1>5, <1>6, <1>7 DEF Boss

LEMMA PopTypeOK ==
    ASSUME StateTypeOK, FrontInv, NEW w \in Workers, Pop(w) PROVE StateTypeOK'
<1> USE CellsAssumption, NullAssumption, SizeAssumption
    DEF StateTypeOK, struct, memory, locks, boss, locals, transfer, WorkerPC,
        PopPC, Status, Goto
<1>1. CASE PopTest(w)
  BY <1>1 DEF PopTest
<1>2. CASE PopItem(w)
  <2>1. front \in Cells /\ item[front] \in 0..NReq
    BY <1>2 DEF PopItem, FrontInv
  <2>2. Append(taken, item[front]) \in Seq(0..NReq)
    BY <2>1
  <2> QED BY <1>2, <2>1, <2>2 DEF PopItem
<1>3. CASE PopLoadNext(w)
  <2>1. front \in Cells
    BY <1>3 DEF PopLoadNext, FrontInv
  <2> QED BY <1>3, <2>1 DEF PopLoadNext
<1>4. CASE PopUnlink(w)
  BY <1>4 DEF PopUnlink
<1>5. CASE PopLast(w)
  BY <1>5 DEF PopLast
<1>6. CASE PopClearBack(w)
  BY <1>6 DEF PopClearBack
<1>7. CASE PopFree(w)
  BY <1>7 DEF PopFree
<1>8. CASE PopLoadN(w)
  BY <1>8 DEF PopLoadN
<1>9. CASE PopStoreN(w)
  <2>1. N' \in Int
    BY <1>9 DEF PopStoreN
  <2>2. pc' \in [Workers -> WorkerPC]
    BY <1>9 DEF PopStoreN
  <2> QED BY <1>9, <2>1, <2>2 DEF PopStoreN
<1> QED
  BY <1>1, <1>2, <1>3, <1>4, <1>5, <1>6, <1>7, <1>8, <1>9 DEF Pop

LEMMA SendTypeOK ==
    ASSUME StateTypeOK, NEW w \in Workers, NEW m \in Message, Send(w, m)
    PROVE  out' \in [Requests -> Seq(Message)]
<1>1. CASE req[w] \in Requests
  BY <1>1 DEF StateTypeOK, Send
<1>2. CASE req[w] \notin Requests
  BY <1>2 DEF StateTypeOK, Send
<1> QED BY <1>1, <1>2

LEMMA RespondTypeOK ==
    ASSUME StateTypeOK, NEW w \in Workers, Respond(w) PROVE StateTypeOK'
<1>0. /\ Missing \in Message /\ Aborted \in Message /\ Chunk(done[w]) \in Message
      /\ OkHeader(len[w]) \in Message
  BY DEF Message, Missing, Aborted, Chunk, OkHeader, StateTypeOK
<1> USE <1>0, SizeAssumption, SendTypeOK
    DEF StateTypeOK, struct, memory, boss, locals, transfer, NoQueue, Goto,
        WorkerPC, Status
<1>1. CASE OpenMissing(w)
  BY <1>1 DEF OpenMissing
<1>2. CASE OpenFile(w)
  BY <1>2 DEF OpenFile
<1>3. CASE SendHeader(w)
  BY <1>3 DEF SendHeader
<1>4. CASE LockFile(w)
  BY <1>4 DEF LockFile
<1>5. CASE SendChunk(w)
  BY <1>5 DEF SendChunk
<1>6. CASE SendFails(w)
  BY <1>6 DEF SendFails
<1>7. CASE SendDone(w)
  BY <1>7 DEF SendDone
<1>8. CASE UnlockFile(w)
  BY <1>8 DEF UnlockFile
<1> QED
  BY <1>1, <1>2, <1>3, <1>4, <1>5, <1>6, <1>7, <1>8 DEF Respond

LEMMA WorkerTypeOK ==
    ASSUME StateTypeOK, FrontInv, NEW w \in Workers, Worker(w) PROVE StateTypeOK'
<1> USE DEF struct, memory, locks, boss, locals, transfer, WorkerPC, PopPC, Goto
<1>1. CASE Check(w)
  <2> DEFINE inPop == {v \in Workers : pc[v] \in PopPC \ {"empty?", "item"}}
  <2>1. Cardinality(inPop) \in Nat
    <3>1. inPop \in SUBSET Workers
      OBVIOUS
    <3>2. IsFiniteSet(inPop)
      BY <3>1, WorkersAssumption, FS_Subset
    <3> QED BY <3>2, FS_CardinalityType
  <2>2. PopsDone \in Int
    BY <2>1 DEF PopsDone, StateTypeOK
  <2> QED BY <1>1, <2>2 DEF Check, StateTypeOK
<1>2. CASE LockQueue(w)
  BY <1>2 DEF LockQueue, StateTypeOK
<1>3. CASE UnlockQueue(w)
  BY <1>3 DEF UnlockQueue, StateTypeOK
<1> QED BY <1>1, <1>2, <1>3, PopTypeOK, RespondTypeOK DEF Worker

-----------------------------------------------------------------------------
(* The race invariant, one lemma per action, one step per conjunct.        *)

IInv == StateTypeOK /\ RaceInv

LEMMA InitRaceInv == Init => RaceInv
BY NullAssumption
DEF Init, RaceInv, LockInv, FrontInv, NodeInv, BackInv, ChainInv, PopInv,
    ServedOnceInOrder, Placing, LastTaken, PopPC

LEMMA AppendFacts ==
    ASSUME NEW S, NEW s \in Seq(S), NEW e \in S
    PROVE  /\ Append(s, e) # <<>>
           /\ Append(s, e)[Len(Append(s, e))] = e
           /\ Len(s) \in Nat
           /\ DOMAIN s = 1..Len(s) /\ DOMAIN Append(s, e) = 1..(Len(s) + 1)
           /\ \A i \in 1..Len(s) : Append(s, e)[i] = s[i] /\ s[i] \in S
           /\ Append(s, e)[Len(s) + 1] = e
OBVIOUS

\* The last request popped is the greatest, and is one of those accepted.
LEMMA LastTakenBound ==
    ASSUME IInv
    PROVE  /\ LastTaken \in 0..accepted
           /\ \A i \in DOMAIN taken : taken[i] <= LastTaken
<1>0. taken \in Seq(0..NReq) /\ ServedOnceInOrder /\ accepted \in Nat
  BY SizeAssumption DEF IInv, StateTypeOK, RaceInv
<1>1. CASE taken = <<>>
  BY <1>0, <1>1 DEF LastTaken
<1>2. CASE taken # <<>>
  <2>1. DOMAIN taken = 1..Len(taken) /\ Len(taken) \in DOMAIN taken
    BY <1>0, <1>2
  <2>2. LastTaken = taken[Len(taken)] /\ LastTaken \in 1..accepted
    BY <1>0, <1>2, <2>1 DEF LastTaken, ServedOnceInOrder
  <2>3. ASSUME NEW i \in DOMAIN taken PROVE taken[i] <= LastTaken
    <3>1. i < Len(taken) \/ i = Len(taken)
      BY <1>0, <2>1
    <3>2. taken[i] \in 1..accepted
      BY <1>0 DEF ServedOnceInOrder
    <3> QED BY <1>0, <2>1, <2>2, <3>1, <3>2 DEF ServedOnceInOrder
  <2> QED BY <1>0, <2>2, <2>3
<1> QED BY <1>1, <1>2

\* Appending something greater than the last keeps the order.
LEMMA TakenStep ==
    ASSUME IInv, NEW r \in 1..accepted, r > LastTaken,
           taken' = Append(taken, r), accepted' = accepted
    PROVE  LastTaken' = r /\ ServedOnceInOrder'
<1>1. taken \in Seq(0..NReq) /\ ServedOnceInOrder /\ accepted \in 0..NReq
  BY DEF IInv, StateTypeOK, RaceInv
<1>2. r \in 0..NReq
  BY <1>1, SizeAssumption
<1>3. /\ taken' # <<>> /\ taken'[Len(taken')] = r
      /\ Len(taken) \in Nat
      /\ DOMAIN taken' = 1..(Len(taken) + 1) /\ DOMAIN taken = 1..Len(taken)
      /\ taken'[Len(taken) + 1] = r
      /\ \A i \in 1..Len(taken) : taken'[i] = taken[i]
  BY <1>1, <1>2, AppendFacts
<1>4. \A i \in 1..Len(taken) : taken[i] < r /\ taken[i] \in 1..accepted
  BY <1>1, <1>3, LastTakenBound DEF ServedOnceInOrder
<1> QED
  BY <1>1, <1>3, <1>4 DEF ServedOnceInOrder, LastTaken

LEMMA HandlerGetInv == ASSUME IInv, HandlerGet PROVE RaceInv'
<1> USE NullAssumption
    DEF IInv, StateTypeOK, RaceInv, HandlerGet, NoWorker, struct, memory,
        locks, locals, Placing, PopPC
<1>0. PICK c \in Cells \ live :
        /\ item' = [item EXCEPT ![c] = accepted + 1]
        /\ next' = [next EXCEPT ![c] = NULL]
        /\ live' = live \cup {c}
        /\ bnode' = c
  OBVIOUS
<1>1. LockInv'
  BY DEF LockInv
<1>2. FrontInv'
  BY DEF LockInv, FrontInv, NodeInv
<1>3. NodeInv'
  <2>1. LastTaken' < accepted' /\ accepted' \in Nat
    BY LastTakenBound DEF LastTaken
  <2>2. (\A d \in live : item[d] \in 1..accepted)'
    BY <1>0, <2>1 DEF NodeInv
  <2>3. (\A d, e \in live : item[d] = item[e] => d = e)'
    BY <1>0 DEF NodeInv
  <2> QED BY <1>0, <2>1, <2>2, <2>3 DEF NodeInv
<1>4. BackInv'
  BY DEF LockInv, FrontInv, NodeInv, BackInv, PopInv
<1>5. ChainInv'
  BY DEF LockInv, FrontInv, NodeInv, BackInv, ChainInv, PopInv
<1>6. PopInv'
  <2>0. LastTaken' = LastTaken
    BY DEF LastTaken
  <2>1. (front # NULL /\ \A w \in Workers : pc[w] \notin {"unlinkload", "unlink"})
           => item'[front] > LastTaken
    BY <1>0 DEF PopInv, NodeInv
  <2> SUFFICES ASSUME NEW w \in Workers
               PROVE  /\ pc[w] \in {"unlinkload", "unlink"} =>
                           node[w] = front /\ item'[front] = LastTaken
                      /\ pc[w] = "unlink" /\ nxt[w] # NULL =>
                            /\ nxt[w] \in live' /\ item'[nxt[w]] > LastTaken
                            /\ nxt[w] # bnode'
                      /\ pc[w] \in {"last?", "clearback", "free"} =>
                            node[w] \in live' /\ item'[node[w]] = LastTaken
    BY <1>0, <2>0, <2>1 DEF PopInv
  <2>2. \A d \in live : item'[d] = item[d] /\ d \in live' /\ d # c
    BY <1>0
  <2>3. pc[w] \in {"unlinkload", "unlink"} => front \in live
    BY DEF FrontInv, NodeInv
  <2> QED BY <1>0, <2>2, <2>3 DEF PopInv
<1>7. ServedOnceInOrder'
  BY DEF FrontInv, NodeInv, PopInv, ServedOnceInOrder, LastTaken
<1> QED BY <1>1, <1>2, <1>3, <1>4, <1>5, <1>6, <1>7

LEMMA EnqueueTestInv == ASSUME IInv, EnqueueTest PROVE RaceInv'
<1> USE NullAssumption
    DEF IInv, StateTypeOK, RaceInv, EnqueueTest, NoWorker, struct, memory,
        locks, locals, Placing, PopPC
<1>1. LockInv'
  BY DEF LockInv
<1>2. FrontInv'
  BY DEF LockInv, FrontInv, NodeInv
<1>3. NodeInv'
  BY DEF LockInv, FrontInv, NodeInv, PopInv, BackInv, LastTaken
<1>4. BackInv'
  BY DEF LockInv, FrontInv, NodeInv, BackInv, PopInv
<1>5. ChainInv'
  BY DEF LockInv, FrontInv, NodeInv, BackInv, ChainInv, PopInv
<1>6. PopInv'
  BY DEF LockInv, FrontInv, NodeInv, BackInv, ChainInv, PopInv, LastTaken
<1>7. ServedOnceInOrder'
  BY DEF FrontInv, NodeInv, PopInv, ServedOnceInOrder, LastTaken
<1> QED BY <1>1, <1>2, <1>3, <1>4, <1>5, <1>6, <1>7

LEMMA EnqueueFirstInv == ASSUME IInv, EnqueueFirst PROVE RaceInv'
<1> USE NullAssumption
    DEF IInv, StateTypeOK, RaceInv, EnqueueFirst, NoWorker, struct, memory,
        locks, locals, Placing, PopPC
<1>1. LockInv'
  BY DEF LockInv
<1>2. FrontInv'
  BY DEF LockInv, FrontInv, NodeInv
<1>3. NodeInv'
  BY DEF LockInv, FrontInv, NodeInv, PopInv, BackInv, LastTaken
<1>4. BackInv'
  BY DEF LockInv, FrontInv, NodeInv, BackInv, PopInv
<1>5. ChainInv'
  <2> SUFFICES ASSUME NEW c \in live, item[c] >= item[bnode]
               PROVE  next[c] = NULL
    BY DEF ChainInv
  <2>1. c = bnode
    BY DEF NodeInv
  <2> QED BY <2>1 DEF NodeInv
<1>6. PopInv'
  BY DEF LockInv, FrontInv, NodeInv, BackInv, ChainInv, PopInv, LastTaken
<1>7. ServedOnceInOrder'
  BY DEF FrontInv, NodeInv, PopInv, ServedOnceInOrder, LastTaken
<1> QED BY <1>1, <1>2, <1>3, <1>4, <1>5, <1>6, <1>7

LEMMA EnqueueLinkInv == ASSUME IInv, EnqueueLink PROVE RaceInv'
<1> USE NullAssumption
    DEF IInv, StateTypeOK, RaceInv, EnqueueLink, NoWorker, struct, memory,
        locks, locals, Placing, PopPC
<1>1. LockInv'
  BY DEF LockInv
<1>2. FrontInv'
  BY DEF LockInv, FrontInv, NodeInv
<1>3. NodeInv'
  BY DEF LockInv, FrontInv, NodeInv, PopInv, BackInv, LastTaken
<1>4. BackInv'
  BY DEF LockInv, FrontInv, NodeInv, BackInv, PopInv
<1>5. ChainInv'
  <2> SUFFICES ASSUME front # NULL, NEW c \in live, item[c] >= item[front],
                      next'[c] # NULL
               PROVE  /\ next'[c] \in live /\ item[next'[c]] > item[c]
                      /\ Placing' => next'[c] # bnode
    BY DEF ChainInv
  <2>1. back \in live /\ item[back] = accepted - 1
    BY DEF BackInv
  <2>2. bnode \in live /\ item[bnode] = accepted
    BY DEF NodeInv
  <2>3. CASE bpc' = "link"
    BY <2>3 DEF ChainInv
  <2>4. CASE next' = [next EXCEPT ![back] = bnode] /\ bpc' = "setback"
    <3>1. CASE c = back
      BY <2>1, <2>2, <2>4, <3>1
    <3>2. CASE c # back
      BY <2>4, <3>2 DEF ChainInv
    <3> QED BY <3>1, <3>2
  <2> QED BY <2>3, <2>4
<1>6. PopInv'
  BY DEF LockInv, FrontInv, NodeInv, BackInv, ChainInv, PopInv, LastTaken
<1>7. ServedOnceInOrder'
  BY DEF FrontInv, NodeInv, PopInv, ServedOnceInOrder, LastTaken
<1> QED BY <1>1, <1>2, <1>3, <1>4, <1>5, <1>6, <1>7

LEMMA EnqueueSetBackInv == ASSUME IInv, EnqueueSetBack PROVE RaceInv'
<1> USE NullAssumption
    DEF IInv, StateTypeOK, RaceInv, EnqueueSetBack, NoWorker, struct, memory,
        locks, locals, Placing, PopPC
<1>1. LockInv'
  BY DEF LockInv
<1>2. FrontInv'
  BY DEF LockInv, FrontInv, NodeInv
<1>3. NodeInv'
  BY DEF LockInv, FrontInv, NodeInv, PopInv, BackInv, LastTaken
<1>4. BackInv'
  BY DEF LockInv, FrontInv, NodeInv, BackInv, PopInv
<1>5. ChainInv'
  BY DEF LockInv, FrontInv, NodeInv, BackInv, ChainInv, PopInv
<1>6. PopInv'
  BY DEF LockInv, FrontInv, NodeInv, BackInv, ChainInv, PopInv, LastTaken
<1>7. ServedOnceInOrder'
  BY DEF FrontInv, NodeInv, PopInv, ServedOnceInOrder, LastTaken
<1> QED BY <1>1, <1>2, <1>3, <1>4, <1>5, <1>6, <1>7

LEMMA EnqueueLoadNInv == ASSUME IInv, EnqueueLoadN PROVE RaceInv'
<1> USE NullAssumption
    DEF IInv, StateTypeOK, RaceInv, EnqueueLoadN, NoWorker, struct, memory,
        locks, locals, Placing, PopPC
<1>1. LockInv'
  BY DEF LockInv
<1>2. FrontInv'
  BY DEF LockInv, FrontInv, NodeInv
<1>3. NodeInv'
  BY DEF LockInv, FrontInv, NodeInv, PopInv, BackInv, LastTaken
<1>4. BackInv'
  BY DEF LockInv, FrontInv, NodeInv, BackInv, PopInv
<1>5. ChainInv'
  BY DEF LockInv, FrontInv, NodeInv, BackInv, ChainInv, PopInv
<1>6. PopInv'
  BY DEF LockInv, FrontInv, NodeInv, BackInv, ChainInv, PopInv, LastTaken
<1>7. ServedOnceInOrder'
  BY DEF FrontInv, NodeInv, PopInv, ServedOnceInOrder, LastTaken
<1> QED BY <1>1, <1>2, <1>3, <1>4, <1>5, <1>6, <1>7

LEMMA EnqueueStoreNInv == ASSUME IInv, EnqueueStoreN PROVE RaceInv'
<1> USE NullAssumption
    DEF IInv, StateTypeOK, RaceInv, EnqueueStoreN, NoWorker, struct, memory,
        locks, locals, Placing, PopPC
<1>1. LockInv'
  BY DEF LockInv
<1>2. FrontInv'
  BY DEF LockInv, FrontInv, NodeInv
<1>3. NodeInv'
  BY DEF LockInv, FrontInv, NodeInv, PopInv, BackInv, LastTaken
<1>4. BackInv'
  BY DEF LockInv, FrontInv, NodeInv, BackInv, PopInv
<1>5. ChainInv'
  BY DEF LockInv, FrontInv, NodeInv, BackInv, ChainInv, PopInv
<1>6. PopInv'
  BY DEF LockInv, FrontInv, NodeInv, BackInv, ChainInv, PopInv, LastTaken
<1>7. ServedOnceInOrder'
  BY DEF FrontInv, NodeInv, PopInv, ServedOnceInOrder, LastTaken
<1> QED BY <1>1, <1>2, <1>3, <1>4, <1>5, <1>6, <1>7

LEMMA CheckInv == ASSUME IInv, NEW w \in Workers, Check(w) PROVE RaceInv'
<1> USE NullAssumption
    DEF IInv, StateTypeOK, RaceInv, Check, Goto, struct, memory,
        locks, boss, locals, Placing, PopPC
<1>1. LockInv'
  BY DEF LockInv
<1>2. FrontInv'
  BY DEF LockInv, FrontInv, NodeInv
<1>3. NodeInv'
  BY DEF LockInv, FrontInv, NodeInv, PopInv, BackInv, LastTaken
<1>4. BackInv'
  BY DEF LockInv, FrontInv, NodeInv, BackInv, PopInv
<1>5. ChainInv'
  BY DEF LockInv, FrontInv, NodeInv, BackInv, ChainInv, PopInv
<1>6. PopInv'
  BY DEF LockInv, FrontInv, NodeInv, BackInv, ChainInv, PopInv, LastTaken
<1>7. ServedOnceInOrder'
  BY DEF FrontInv, NodeInv, PopInv, ServedOnceInOrder, LastTaken
<1> QED BY <1>1, <1>2, <1>3, <1>4, <1>5, <1>6, <1>7

LEMMA LockQueueInv == ASSUME IInv, NEW w \in Workers, LockQueue(w) PROVE RaceInv'
<1> USE NullAssumption
    DEF IInv, StateTypeOK, RaceInv, LockQueue, Goto, struct, memory,
        locks, boss, locals, Placing, PopPC
<1>1. LockInv'
  BY DEF LockInv
<1>2. FrontInv'
  BY DEF LockInv, FrontInv, NodeInv
<1>3. NodeInv'
  BY DEF LockInv, FrontInv, NodeInv, PopInv, BackInv, LastTaken
<1>4. BackInv'
  BY DEF LockInv, FrontInv, NodeInv, BackInv, PopInv
<1>5. ChainInv'
  BY DEF LockInv, FrontInv, NodeInv, BackInv, ChainInv, PopInv
<1>6. PopInv'
  BY DEF LockInv, FrontInv, NodeInv, BackInv, ChainInv, PopInv, LastTaken
<1>7. ServedOnceInOrder'
  BY DEF FrontInv, NodeInv, PopInv, ServedOnceInOrder, LastTaken
<1> QED BY <1>1, <1>2, <1>3, <1>4, <1>5, <1>6, <1>7

LEMMA PopTestInv == ASSUME IInv, NEW w \in Workers, PopTest(w) PROVE RaceInv'
<1> USE NullAssumption
    DEF IInv, StateTypeOK, RaceInv, PopTest, Goto, struct, memory,
        locks, boss, locals, Placing, PopPC
<1>1. LockInv'
  BY DEF LockInv
<1>2. FrontInv'
  BY DEF LockInv, FrontInv, NodeInv
<1>3. NodeInv'
  BY DEF LockInv, FrontInv, NodeInv, PopInv, BackInv, LastTaken
<1>4. BackInv'
  BY DEF LockInv, FrontInv, NodeInv, BackInv, PopInv
<1>5. ChainInv'
  BY DEF LockInv, FrontInv, NodeInv, BackInv, ChainInv, PopInv
<1>6. PopInv'
  BY DEF LockInv, FrontInv, NodeInv, BackInv, ChainInv, PopInv, LastTaken
<1>7. ServedOnceInOrder'
  BY DEF FrontInv, NodeInv, PopInv, ServedOnceInOrder, LastTaken
<1> QED BY <1>1, <1>2, <1>3, <1>4, <1>5, <1>6, <1>7

LEMMA PopItemInv == ASSUME IInv, NEW w \in Workers, PopItem(w) PROVE RaceInv'
<1> USE NullAssumption
    DEF IInv, StateTypeOK, RaceInv, PopItem, Goto, struct, memory,
        locks, boss, locals, Placing, PopPC
<1>1. LockInv'
  BY DEF LockInv
<1>2. FrontInv'
  BY DEF LockInv, FrontInv, NodeInv
<1>3. NodeInv'
  BY DEF LockInv, FrontInv, NodeInv, PopInv, BackInv, LastTaken
<1>4. BackInv'
  BY DEF LockInv, FrontInv, NodeInv, BackInv, PopInv
<1>5. ChainInv'
  BY DEF LockInv, FrontInv, NodeInv, BackInv, ChainInv, PopInv
<1>6. LastTaken' = item[front] /\ ServedOnceInOrder'
  <2>1. \A v \in Workers : pc[v] \notin {"unlinkload", "unlink"}
    BY DEF LockInv
  <2>2. item[front] > LastTaken /\ item[front] \in 1..accepted
    BY <2>1 DEF FrontInv, NodeInv, PopInv
  <2>3. taken' = Append(taken, item[front]) /\ accepted' = accepted
    OBVIOUS
  <2> QED BY <2>2, <2>3, TakenStep
<1>7. PopInv'
  <2>1. \A v \in Workers : v # w => pc[v] \notin PopPC
    BY DEF LockInv
  <2>2. /\ pc'[w] = "unlinkload" /\ node'[w] = front
        /\ \A v \in Workers : v # w => pc'[v] = pc[v]
    OBVIOUS
  <2> QED BY <1>6, <2>1, <2>2 DEF PopInv
<1> QED BY <1>1, <1>2, <1>3, <1>4, <1>5, <1>6, <1>7

LEMMA PopLoadNextInv == ASSUME IInv, NEW w \in Workers, PopLoadNext(w) PROVE RaceInv'
<1> USE NullAssumption
    DEF IInv, StateTypeOK, RaceInv, PopLoadNext, Goto, struct, memory,
        locks, boss, locals, Placing, PopPC
<1>1. LockInv'
  BY DEF LockInv
<1>2. FrontInv'
  BY DEF LockInv, FrontInv, NodeInv
<1>3. NodeInv'
  BY DEF LockInv, FrontInv, NodeInv, PopInv, BackInv, LastTaken
<1>4. BackInv'
  BY DEF LockInv, FrontInv, NodeInv, BackInv, PopInv
<1>5. ChainInv'
  BY DEF LockInv, FrontInv, NodeInv, BackInv, ChainInv, PopInv
<1>6. PopInv'
  BY SMTT(30) DEF LockInv, FrontInv, NodeInv, BackInv, ChainInv, PopInv, LastTaken
<1>7. ServedOnceInOrder'
  BY DEF FrontInv, NodeInv, PopInv, ServedOnceInOrder, LastTaken
<1> QED BY <1>1, <1>2, <1>3, <1>4, <1>5, <1>6, <1>7

LEMMA PopUnlinkInv == ASSUME IInv, NEW w \in Workers, PopUnlink(w) PROVE RaceInv'
<1> USE NullAssumption
    DEF IInv, StateTypeOK, RaceInv, PopUnlink, Goto, struct, memory,
        locks, boss, locals, Placing, PopPC
<1>1. LockInv'
  BY DEF LockInv
<1>2. FrontInv'
  BY DEF LockInv, FrontInv, NodeInv
<1>3. NodeInv'
  BY DEF LockInv, FrontInv, NodeInv, PopInv, BackInv, LastTaken
<1>4. BackInv'
  BY DEF LockInv, FrontInv, NodeInv, BackInv, PopInv
<1>5. ChainInv'
  BY SMTT(30) DEF LockInv, FrontInv, NodeInv, BackInv, ChainInv, PopInv
<1>6. PopInv'
  BY DEF LockInv, FrontInv, NodeInv, BackInv, ChainInv, PopInv, LastTaken
<1>7. ServedOnceInOrder'
  BY DEF FrontInv, NodeInv, PopInv, ServedOnceInOrder, LastTaken
<1> QED BY <1>1, <1>2, <1>3, <1>4, <1>5, <1>6, <1>7

LEMMA PopLastInv == ASSUME IInv, NEW w \in Workers, PopLast(w) PROVE RaceInv'
<1> USE NullAssumption
    DEF IInv, StateTypeOK, RaceInv, PopLast, Goto, struct, memory,
        locks, boss, locals, Placing, PopPC
<1>1. LockInv'
  BY DEF LockInv
<1>2. FrontInv'
  BY SMTT(30) DEF LockInv, FrontInv, NodeInv
<1>3. NodeInv'
  BY DEF LockInv, FrontInv, NodeInv, PopInv, BackInv, LastTaken
<1>4. BackInv'
  BY DEF LockInv, FrontInv, NodeInv, BackInv, PopInv
<1>5. ChainInv'
  BY DEF LockInv, FrontInv, NodeInv, BackInv, ChainInv, PopInv
<1>6. PopInv'
  BY SMTT(30) DEF LockInv, FrontInv, NodeInv, BackInv, ChainInv, PopInv, LastTaken
<1>7. ServedOnceInOrder'
  BY DEF FrontInv, NodeInv, PopInv, ServedOnceInOrder, LastTaken
<1> QED BY <1>1, <1>2, <1>3, <1>4, <1>5, <1>6, <1>7

LEMMA PopClearBackInv == ASSUME IInv, NEW w \in Workers, PopClearBack(w) PROVE RaceInv'
<1> USE NullAssumption
    DEF IInv, StateTypeOK, RaceInv, PopClearBack, Goto, struct, memory,
        locks, boss, locals, Placing, PopPC
<1>1. LockInv'
  BY DEF LockInv
<1>2. FrontInv'
  BY DEF LockInv, FrontInv, NodeInv
<1>3. NodeInv'
  BY DEF LockInv, FrontInv, NodeInv, PopInv, BackInv, LastTaken
<1>4. BackInv'
  BY DEF LockInv, FrontInv, NodeInv, BackInv, PopInv
<1>5. ChainInv'
  BY DEF LockInv, FrontInv, NodeInv, BackInv, ChainInv, PopInv
<1>6. PopInv'
  BY DEF LockInv, FrontInv, NodeInv, BackInv, ChainInv, PopInv, LastTaken
<1>7. ServedOnceInOrder'
  BY DEF FrontInv, NodeInv, PopInv, ServedOnceInOrder, LastTaken
<1> QED BY <1>1, <1>2, <1>3, <1>4, <1>5, <1>6, <1>7

LEMMA PopFreeInv == ASSUME IInv, NEW w \in Workers, PopFree(w) PROVE RaceInv'
<1> USE NullAssumption
    DEF IInv, StateTypeOK, RaceInv, PopFree, Goto, struct, memory,
        locks, boss, locals, Placing, PopPC
<1>1. LockInv'
  BY DEF LockInv
<1>2. FrontInv'
  BY DEF LockInv, FrontInv, NodeInv
<1>3. NodeInv'
  BY DEF LockInv, FrontInv, NodeInv, PopInv, BackInv, LastTaken
<1>4. BackInv'
  <2> SUFFICES ASSUME front # NULL PROVE BackInv'
    BY DEF BackInv
  <2>1. \A v \in Workers : pc[v] \notin {"unlinkload", "unlink"}
    BY DEF LockInv
  <2>2. /\ front \in live /\ item[front] > LastTaken /\ item[front] <= accepted
        /\ node[w] \in live /\ item[node[w]] = LastTaken
        /\ Placing => item[front] # accepted
    BY <2>1 DEF PopInv, NodeInv
  <2>3. CASE bpc = "setback"
    <3>1. bnode \in live /\ item[bnode] = accepted
      BY <2>3 DEF BackInv
    <3>2. bnode # node[w]
      BY <2>2, <3>1, LastTakenBound
    <3> QED BY <2>3, <3>1, <3>2 DEF BackInv
  <2>4. CASE bpc # "setback"
    <3>1. back \in live /\ item[back] = (IF Placing THEN accepted - 1 ELSE accepted)
      BY <2>4 DEF BackInv
    <3>2. back # node[w]
      BY <2>2, <3>1, LastTakenBound
    <3> QED BY <2>4, <3>1, <3>2 DEF BackInv
  <2> QED BY <2>3, <2>4
<1>5. ChainInv'
  BY DEF LockInv, FrontInv, NodeInv, BackInv, ChainInv, PopInv
<1>6. PopInv'
  BY SMTT(30) DEF LockInv, FrontInv, NodeInv, BackInv, ChainInv, PopInv, LastTaken
<1>7. ServedOnceInOrder'
  BY DEF FrontInv, NodeInv, PopInv, ServedOnceInOrder, LastTaken
<1> QED BY <1>1, <1>2, <1>3, <1>4, <1>5, <1>6, <1>7

LEMMA PopLoadNInv == ASSUME IInv, NEW w \in Workers, PopLoadN(w) PROVE RaceInv'
<1> USE NullAssumption
    DEF IInv, StateTypeOK, RaceInv, PopLoadN, Goto, struct, memory,
        locks, boss, locals, Placing, PopPC
<1>1. LockInv'
  BY DEF LockInv
<1>2. FrontInv'
  BY DEF LockInv, FrontInv, NodeInv
<1>3. NodeInv'
  BY DEF LockInv, FrontInv, NodeInv, PopInv, BackInv, LastTaken
<1>4. BackInv'
  BY DEF LockInv, FrontInv, NodeInv, BackInv, PopInv
<1>5. ChainInv'
  BY DEF LockInv, FrontInv, NodeInv, BackInv, ChainInv, PopInv
<1>6. PopInv'
  BY DEF LockInv, FrontInv, NodeInv, BackInv, ChainInv, PopInv, LastTaken
<1>7. ServedOnceInOrder'
  BY DEF FrontInv, NodeInv, PopInv, ServedOnceInOrder, LastTaken
<1> QED BY <1>1, <1>2, <1>3, <1>4, <1>5, <1>6, <1>7

LEMMA PopStoreNInv == ASSUME IInv, NEW w \in Workers, PopStoreN(w) PROVE RaceInv'
<1> USE NullAssumption
    DEF IInv, StateTypeOK, RaceInv, PopStoreN, Goto, struct, memory,
        locks, boss, locals, Placing, PopPC
<1>1. LockInv'
  BY DEF LockInv
<1>2. FrontInv'
  BY DEF LockInv, FrontInv, NodeInv
<1>3. NodeInv'
  BY DEF LockInv, FrontInv, NodeInv, PopInv, BackInv, LastTaken
<1>4. BackInv'
  BY DEF LockInv, FrontInv, NodeInv, BackInv, PopInv
<1>5. ChainInv'
  BY DEF LockInv, FrontInv, NodeInv, BackInv, ChainInv, PopInv
<1>6. PopInv'
  BY DEF LockInv, FrontInv, NodeInv, BackInv, ChainInv, PopInv, LastTaken
<1>7. ServedOnceInOrder'
  BY DEF FrontInv, NodeInv, PopInv, ServedOnceInOrder, LastTaken
<1> QED BY <1>1, <1>2, <1>3, <1>4, <1>5, <1>6, <1>7

LEMMA UnlockQueueInv == ASSUME IInv, NEW w \in Workers, UnlockQueue(w) PROVE RaceInv'
<1> USE NullAssumption
    DEF IInv, StateTypeOK, RaceInv, UnlockQueue, Goto, struct, memory,
        locks, boss, locals, Placing, PopPC
<1>1. LockInv'
  BY DEF LockInv
<1>2. FrontInv'
  BY DEF LockInv, FrontInv, NodeInv
<1>3. NodeInv'
  BY DEF LockInv, FrontInv, NodeInv, PopInv, BackInv, LastTaken
<1>4. BackInv'
  BY DEF LockInv, FrontInv, NodeInv, BackInv, PopInv
<1>5. ChainInv'
  BY DEF LockInv, FrontInv, NodeInv, BackInv, ChainInv, PopInv
<1>6. PopInv'
  BY DEF LockInv, FrontInv, NodeInv, BackInv, ChainInv, PopInv, LastTaken
<1>7. ServedOnceInOrder'
  BY DEF FrontInv, NodeInv, PopInv, ServedOnceInOrder, LastTaken
<1> QED BY <1>1, <1>2, <1>3, <1>4, <1>5, <1>6, <1>7

\* Answering a request leaves the queue alone.
LEMMA RespondInv == ASSUME IInv, NEW w \in Workers, Respond(w) PROVE RaceInv'
<1> DEFINE Away == {"check", "lock", "open", "header", "filelock", "send", "fileunlock"}
<1>1. UNCHANGED <<struct, memory, reqlock, boss, req, locals, taken, seen>>
  BY DEF Respond, NoQueue, OpenMissing, OpenFile, SendHeader, LockFile,
         SendChunk, SendFails, SendDone, UnlockFile
<1>2. /\ pc[w] \in Away /\ pc'[w] \in Away
      /\ \A v \in Workers : v # w => pc'[v] = pc[v]
  BY DEF IInv, StateTypeOK, Respond, OpenMissing, OpenFile, SendHeader, LockFile,
         SendChunk, SendFails, SendDone, UnlockFile, Goto
<1> USE <1>1, <1>2
    DEF IInv, RaceInv, struct, memory, boss, locals, PopPC, Placing
<1>3. LockInv' /\ FrontInv'
  BY DEF LockInv, FrontInv
<1>4. NodeInv' /\ BackInv' /\ ChainInv'
  BY DEF NodeInv, BackInv, ChainInv, LastTaken
<1>5. PopInv'
  BY DEF PopInv, LastTaken
<1>6. ServedOnceInOrder'
  BY DEF ServedOnceInOrder
<1> QED BY <1>3, <1>4, <1>5, <1>6

LEMMA StutterInv == ASSUME IInv, UNCHANGED vars PROVE IInv'
<1>1. StateTypeOK'
  BY DEF IInv, StateTypeOK, vars, struct, memory, locks, boss, locals, transfer
<1>2. LockInv' /\ FrontInv' /\ NodeInv' /\ BackInv' /\ ChainInv'
  BY DEF IInv, RaceInv, LockInv, FrontInv, NodeInv, BackInv, ChainInv, Placing,
         LastTaken, vars, struct, memory, locks, boss, locals
<1>3. PopInv' /\ ServedOnceInOrder'
  BY DEF IInv, RaceInv, PopInv, ServedOnceInOrder, Placing, LastTaken, vars,
         struct, memory, locks, boss, locals
<1> QED BY <1>1, <1>2, <1>3 DEF IInv, RaceInv

LEMMA StepInv == IInv /\ [Next]_vars => IInv'
<1> SUFFICES ASSUME IInv, [Next]_vars PROVE IInv'
  OBVIOUS
<1>1. CASE Boss
  <2>1. RaceInv'
    BY <1>1, HandlerGetInv, EnqueueTestInv, EnqueueFirstInv, EnqueueLinkInv,
       EnqueueSetBackInv, EnqueueLoadNInv, EnqueueStoreNInv DEF Boss
  <2> QED BY <1>1, <2>1, BossTypeOK DEF IInv
<1>2. ASSUME NEW w \in Workers, Worker(w) PROVE IInv'
  <2>1. CASE Pop(w)
    BY <2>1, PopTestInv, PopItemInv, PopLoadNextInv, PopUnlinkInv, PopLastInv,
       PopClearBackInv, PopFreeInv, PopLoadNInv, PopStoreNInv, PopTypeOK
    DEF Pop, IInv, RaceInv
  <2>2. CASE ~Pop(w)
    BY <1>2, <2>2, CheckInv, LockQueueInv, UnlockQueueInv, RespondInv, WorkerTypeOK
    DEF Worker, IInv, RaceInv
  <2> QED BY <2>1, <2>2
<1> QED BY <1>1, <1>2, StutterInv DEF Next

LEMMA Invariance == Spec => []IInv
<1>1. Init => IInv
  BY InitTypeOK, InitRaceInv DEF IInv
<1> QED BY <1>1, StepInv, PTL DEF Spec

\* The history variable overlapped is a truth value.
LEMMA OverlappedBoolean == Spec => [](overlapped \in BOOLEAN)
<1>1. Init => overlapped \in BOOLEAN
  BY DEF Init
<1>2. overlapped \in BOOLEAN /\ [Next]_vars => (overlapped \in BOOLEAN)'
  <2>1. ASSUME overlapped \in BOOLEAN, Next PROVE overlapped' \in BOOLEAN
    BY <2>1, Zenon DEF Next, Overlap
  <2>2. ASSUME overlapped \in BOOLEAN, UNCHANGED vars PROVE overlapped' \in BOOLEAN
    BY <2>2 DEF vars
  <2> QED BY <2>1, <2>2
<1> QED BY <1>1, <1>2, PTL DEF Spec

-----------------------------------------------------------------------------
(* Theorems.                                                               *)

\* handler.c and steque.c keep their types; in particular no worker follows a
\* null front pointer once steque_pop has tested it.
THEOREM Typing == Spec => []TypeOK
<1>1. IInv /\ overlapped \in BOOLEAN => TypeOK
  BY DEF IInv, TypeOK
<1> QED BY <1>1, Invariance, OverlappedBoolean, PTL

\* reqlock: never two workers inside steque_pop.
THEOREM PopMutualExclusion ==
    Spec => [](\A v, w \in Workers : InPop(v) /\ InPop(w) => v = w)
<1>1. IInv => \A v, w \in Workers : InPop(v) /\ InPop(w) => v = w
  BY DEF IInv, RaceInv, LockInv, InPop
<1> QED BY <1>1, Invariance, PTL

\* What every interleaving of the unlocked enqueue with the pops preserves.
THEOREM RaceInvariant == Spec => []RaceInv
<1>1. IInv => RaceInv
  BY DEF IInv
<1> QED BY <1>1, Invariance, PTL

\* However the unlocked enqueue interleaves with the pops, no request is handed
\* to a worker twice and none overtakes an earlier one.
THEOREM ServedOnce == Spec => []ServedOnceInOrder
<1>1. IInv => ServedOnceInOrder
  BY DEF IInv, RaceInv
<1> QED BY <1>1, Invariance, PTL

-----------------------------------------------------------------------------
(* What the workers send: every connection gets one response, in order,    *)
(* and filelock lets one file be in transfer at a time.                    *)

Free   == {"check", "lock", "empty?", "item"}      \* the worker has no request
Taking == {"unlinkload", "unlink", "last?", "clearback", "free", "load", "store",
           "unlock", "open", "header"}             \* it has sent nothing for it

\* s is the header of a file of n buffers and the first k of them.
Sent(s, n, k) == /\ s \in Seq(Message) /\ Len(s) = k + 1 /\ s[1] = OkHeader(n)
                 /\ \A i \in 2..(k + 1) : s[i] = Chunk(i - 2)

FileLockInv == \A w \in Workers : pc[w] \in {"send", "fileunlock"} <=> filelock = w

\* A request belongs to one worker; nothing was sent for those not yet popped.
OwnInv ==
    /\ \A w \in Workers : pc[w] \notin Free => req[w] \in Requests /\ req[w] <= LastTaken
    /\ \A v, w \in Workers :
          v # w /\ pc[v] \notin Free /\ pc[w] \notin Free => req[v] # req[w]
    /\ \A r \in Requests : r > LastTaken => out[r] = <<>>

Progress(w) ==
    /\ pc[w] \in Taking => out[req[w]] = <<>>
    /\ pc[w] = "filelock" => Sent(out[req[w]], len[w], 0)
    /\ pc[w] = "send" => done[w] <= len[w] /\ Sent(out[req[w]], len[w], done[w])
    /\ pc[w] = "fileunlock" => Sent(out[req[w]], len[w], len[w])

\* The response to a request that no worker is busy with has not begun or is whole.
Settled(s) == s = <<>> \/ s = <<Missing>> \/ \E n \in Nat : Sent(s, n, n)
SettledInv == \A r \in Requests :
    (\A w \in Workers : pc[w] \notin Free => req[w] # r) => Settled(out[r])

RunInv == FileLockInv /\ OwnInv /\ (\A w \in Workers : Progress(w)) /\ SettledInv

\* An aborted transfer ends the process, in the middle of a response.
SendInv == RunInv \/ (status # "running" /\ Responses /\ OneTransferAtATime)

-----------------------------------------------------------------------------
(* Responses as sequences.                                                 *)

LEMMA MessageFacts ==
    /\ Missing \in Message /\ Aborted \in Message
    /\ \A n \in Nat : OkHeader(n) \in Message /\ Chunk(n) \in Message
    /\ \A n \in Nat : OkHeader(n).kind = "ok" /\ OkHeader(n).n = n
BY DEF Message, Missing, Aborted, OkHeader, Chunk

LEMMA SentHeader == ASSUME NEW n \in Nat PROVE Sent(Append(<<>>, OkHeader(n)), n, 0)
<1> DEFINE s == Append(<<>>, OkHeader(n))
<1>1. s \in Seq(Message) /\ Len(s) = 1 /\ s[1] = OkHeader(n)
  BY MessageFacts
<1> QED BY <1>1 DEF Sent

LEMMA SentChunk ==
    ASSUME NEW n \in Nat, NEW k \in Nat, NEW s, Sent(s, n, k)
    PROVE  Sent(Append(s, Chunk(k)), n, k + 1)
<1> DEFINE t == Append(s, Chunk(k))
<1>1. s \in Seq(Message) /\ Len(s) = k + 1 /\ Chunk(k) \in Message
  BY MessageFacts DEF Sent
<1>2. /\ t \in Seq(Message) /\ Len(t) = k + 2 /\ t[k + 2] = Chunk(k)
      /\ \A i \in 1..(k + 1) : t[i] = s[i]
  BY <1>1
<1>3. \A i \in 2..(k + 2) : t[i] = Chunk(i - 2)
  <2>1. ASSUME NEW i \in 2..(k + 2) PROVE t[i] = Chunk(i - 2)
    <3>1. CASE i = k + 2
      BY <1>2, <3>1
    <3>2. CASE i # k + 2
      BY <1>2, <3>2 DEF Sent
    <3> QED BY <3>1, <3>2
  <2> QED BY <2>1
<1> QED BY <1>2, <1>3 DEF Sent

\* What has been sent of a file is a response, and is in mid-transfer only
\* between the header and the last buffer.
LEMMA SentIsResponse ==
    ASSUME NEW n \in Nat, NEW k \in 0..n, NEW s, Sent(s, n, k)
    PROVE  IsResponse(s) /\ s[1].n = n /\ Len(s) = k + 1
BY MessageFacts DEF Sent, IsResponse

\* An abort ends a response that was not whole.
LEMMA SentAborted ==
    ASSUME NEW n \in Nat, NEW k \in 0..n, k < n, NEW s, Sent(s, n, k)
    PROVE  /\ IsResponse(Append(s, Aborted))
           /\ Append(s, Aborted)[Len(Append(s, Aborted))] = Aborted
<1> DEFINE t == Append(s, Aborted)
<1>1. s \in Seq(Message) /\ Len(s) = k + 1 /\ Aborted \in Message
  BY MessageFacts DEF Sent
<1>2. /\ Len(t) = k + 2 /\ t[k + 2] = Aborted
      /\ \A i \in 1..(k + 1) : t[i] = s[i]
  BY <1>1
<1>3. t[1].kind = "ok" /\ t[1].n = n
  BY <1>2, MessageFacts DEF Sent
<1>4. \A i \in 2..(k + 2) : t[i] = Chunk(i - 2) \/ (i = k + 2 /\ t[i] = Aborted)
  BY <1>2 DEF Sent
<1> QED BY <1>2, <1>3, <1>4 DEF IsResponse

LEMMA SettledIsResponse ==
    ASSUME NEW s, Settled(s)
    PROVE  IsResponse(s) /\ (Len(s) <= 1 \/ Len(s) = s[1].n + 1)
<1>1. ASSUME NEW n \in Nat, Sent(s, n, n)
      PROVE  IsResponse(s) /\ Len(s) = s[1].n + 1
  BY <1>1, SentIsResponse
<1>2. CASE s = <<>> \/ s = <<Missing>>
  BY <1>2 DEF IsResponse
<1> QED BY <1>1, <1>2 DEF Settled

-----------------------------------------------------------------------------
(* The invariant implies the properties.                                   *)

LEMMA RunInvImplies == ASSUME IInv, RunInv PROVE Responses /\ OneTransferAtATime
<1>1. ASSUME NEW r \in Requests
      PROVE  /\ IsResponse(out[r])
             /\ PartlySent(r) => \E w \in Workers : filelock = w /\ req[w] = r /\ pc[w] = "send"
  <2>1. CASE \A w \in Workers : pc[w] \notin Free => req[w] # r
    <3>1. Settled(out[r])
      BY <2>1 DEF RunInv, SettledInv
    <3> QED BY <3>1, SettledIsResponse DEF PartlySent
  <2>2. ASSUME NEW w \in Workers, pc[w] \notin Free, req[w] = r
        PROVE  IsResponse(out[r]) /\ (PartlySent(r) => filelock = w /\ pc[w] = "send")
    <3> DEFINE s == out[r]
    <3>0. /\ len[w] \in Nat /\ done[w] \in Nat /\ Progress(w)
          /\ pc[w] \in Taking \cup {"filelock", "send", "fileunlock"}
      BY <2>2 DEF IInv, StateTypeOK, RunInv, WorkerPC, PopPC, Free, Taking
    <3>1. CASE pc[w] \in Taking
      BY <2>2, <3>0, <3>1 DEF Progress, IsResponse, PartlySent
    <3>2. CASE pc[w] = "filelock"
      <4>1. Sent(s, len[w], 0)
        BY <2>2, <3>0, <3>2 DEF Progress
      <4> QED BY <3>0, <4>1, SentIsResponse DEF PartlySent
    <3>3. CASE pc[w] = "send"
      <4>1. Sent(s, len[w], done[w]) /\ done[w] \in 0..len[w]
        BY <2>2, <3>0, <3>3 DEF Progress
      <4>2. filelock = w
        BY <3>3 DEF RunInv, FileLockInv
      <4> QED BY <3>0, <3>3, <4>1, <4>2, SentIsResponse
    <3>4. CASE pc[w] = "fileunlock"
      <4>1. Sent(s, len[w], len[w])
        BY <2>2, <3>0, <3>4 DEF Progress
      <4> QED BY <3>0, <4>1, SentIsResponse DEF PartlySent
    <3> QED BY <3>0, <3>1, <3>2, <3>3, <3>4
  <2> QED BY <2>1, <2>2
<1> QED BY <1>1 DEF Responses, OneTransferAtATime

-----------------------------------------------------------------------------
(* Steps.                                                                  *)

LEMMA InitRunInv == Init => RunInv
BY NullAssumption
DEF Init, RunInv, FileLockInv, OwnInv, Progress, SettledInv, Settled, Free, Taking,
    Requests

\* The boss, and a worker at the queue, send nothing.
Quiet == /\ UNCHANGED <<out, filelock, len, done, req, taken>>
         /\ \A v \in Workers : \/ pc'[v] = pc[v]
                               \/ pc[v] \in Free /\ pc'[v] \in Free
                               \/ pc[v] \in Taking /\ pc'[v] \in Taking

LEMMA QuietSteps ==
    ASSUME IInv, \/ Boss \/ UNCHANGED vars
                 \/ \E w \in Workers : \/ Check(w) \/ LockQueue(w) \/ UnlockQueue(w)
                                       \/ Pop(w) /\ ~PopItem(w)
    PROVE  Quiet
<1>1. CASE Boss
  BY <1>1 DEF Boss, HandlerGet, EnqueueTest, EnqueueFirst, EnqueueLink, EnqueueSetBack,
      EnqueueLoadN, EnqueueStoreN, NoWorker, locks, transfer, Quiet
<1>2. CASE UNCHANGED vars
  BY <1>2 DEF vars, locks, transfer, Quiet
<1>3. ASSUME NEW w \in Workers, \/ Check(w) \/ LockQueue(w) \/ UnlockQueue(w)
                                \/ Pop(w) /\ ~PopItem(w)
      PROVE  Quiet
  <2>1. UNCHANGED <<out, filelock, len, done, req, taken>>
    BY <1>3 DEF Check, LockQueue, UnlockQueue, Pop, PopTest, PopLoadNext, PopUnlink,
        PopLast, PopClearBack, PopFree, PopLoadN, PopStoreN, locks, transfer
  <2>2. /\ \A v \in Workers : v # w => pc'[v] = pc[v]
        /\ \/ pc'[w] = pc[w]
           \/ pc[w] \in Free /\ pc'[w] \in Free
           \/ pc[w] \in Taking /\ pc'[w] \in Taking
    BY <1>3 DEF IInv, StateTypeOK, Check, LockQueue, UnlockQueue, Pop, PopTest,
        PopLoadNext, PopUnlink, PopLast, PopClearBack, PopFree, PopLoadN, PopStoreN,
        Goto, Free, Taking
  <2> QED BY <2>1, <2>2 DEF Quiet
<1> QED BY <1>1, <1>2, <1>3

LEMMA QuietInv == ASSUME IInv, RunInv, Quiet PROVE RunInv'
<1>0. /\ out' = out /\ filelock' = filelock /\ len' = len /\ done' = done
      /\ req' = req /\ taken' = taken
  BY DEF Quiet
<1>1. ASSUME NEW v \in Workers
      PROVE  /\ pc'[v] \in Free <=> pc[v] \in Free
             /\ pc'[v] \in Taking <=> pc[v] \in Taking
             /\ pc'[v] = "filelock" <=> pc[v] = "filelock"
             /\ pc'[v] = "send" <=> pc[v] = "send"
             /\ pc'[v] = "fileunlock" <=> pc[v] = "fileunlock"
  BY DEF Free, Taking, Quiet
<1>2. FileLockInv'
  BY <1>0, <1>1 DEF RunInv, FileLockInv
<1>3. OwnInv'
  <2>1. LastTaken' = LastTaken
    BY <1>0 DEF LastTaken
  <2> QED BY <1>0, <1>1, <2>1 DEF RunInv, OwnInv
<1>4. ASSUME NEW v \in Workers PROVE Progress(v)'
  BY <1>0, <1>1 DEF RunInv, Progress
<1>5. SettledInv'
  BY <1>0, <1>1 DEF RunInv, SettledInv
<1> QED BY <1>2, <1>3, <1>4, <1>5 DEF RunInv

\* The request a worker pops is later than all that were popped: it is nobody
\* else's, and nothing has been sent for it.
LEMMA PopItemRunInv ==
    ASSUME IInv, RunInv, NEW w \in Workers, PopItem(w) PROVE RunInv'
<1> DEFINE r == item[front]
<1>1. /\ UNCHANGED <<out, filelock, len, done, accepted>>
      /\ pc[w] = "item" /\ pc'[w] = "unlinkload" /\ req'[w] = r
      /\ \A v \in Workers : v # w => pc'[v] = pc[v] /\ req'[v] = req[v]
      /\ taken' = Append(taken, r)
  BY DEF IInv, StateTypeOK, PopItem, Goto, locks, transfer, boss
<1>2. r \in 1..accepted /\ r > LastTaken
  <2>1. \A v \in Workers : pc[v] \notin {"unlinkload", "unlink"}
    BY <1>1 DEF IInv, RaceInv, LockInv, PopPC
  <2> QED BY <1>1, <2>1 DEF IInv, RaceInv, FrontInv, NodeInv, PopInv
<1>3. r \in Requests /\ LastTaken \in Nat
  <2>1. accepted \in 0..NReq /\ LastTaken \in 0..accepted
    BY LastTakenBound DEF IInv, StateTypeOK
  <2> QED BY <1>2, <2>1, SizeAssumption DEF Requests
<1>4. LastTaken' = r
  BY <1>1, <1>2, TakenStep
<1>5. out[r] = <<>> /\ \A v \in Workers : pc[v] \notin Free => req[v] < r
  BY <1>2, <1>3 DEF RunInv, OwnInv, Requests
<1>6. FileLockInv'
  BY <1>1 DEF RunInv, FileLockInv
<1>7. OwnInv'
  <2>1. \A v \in Workers : pc'[v] \notin Free => req'[v] \in Requests /\ req'[v] <= r
    BY <1>1, <1>2, <1>3, <1>5 DEF RunInv, OwnInv, Free, Requests
  <2>2. \A v, u \in Workers :
          v # u /\ pc'[v] \notin Free /\ pc'[u] \notin Free => req'[v] # req'[u]
    BY <1>1, <1>3, <1>5 DEF RunInv, OwnInv, Free, Requests
  <2>3. \A q \in Requests : q > r => out'[q] = <<>>
    BY <1>1, <1>2, <1>3 DEF RunInv, OwnInv, Requests
  <2> QED BY <1>4, <2>1, <2>2, <2>3 DEF OwnInv
<1>8. \A v \in Workers : Progress(v)'
  BY <1>1, <1>5 DEF RunInv, Progress, Taking
<1>9. SettledInv'
  BY <1>1, <1>3 DEF RunInv, SettledInv, Free
<1> QED BY <1>6, <1>7, <1>8, <1>9 DEF RunInv

\* Answering: what a worker does to its own request and to filelock is all that
\* there is to look at.
LEMMA AnswerInv ==
    ASSUME IInv, RunInv, NEW w \in Workers, pc[w] \notin Free,
           UNCHANGED <<req, taken>>,
           \A v \in Workers : v # w => /\ pc'[v] = pc[v] /\ len'[v] = len[v]
                                       /\ done'[v] = done[v],
           \A q \in Requests : q # req[w] => out'[q] = out[q],
           FileLockInv', Progress(w)',
           pc'[w] \in Free => Settled(out'[req[w]])
    PROVE  RunInv'
<1>1. req[w] \in Requests /\ req[w] <= LastTaken
  BY DEF RunInv, OwnInv
<1>2. LastTaken' = LastTaken /\ LastTaken \in Nat
  BY LastTakenBound DEF LastTaken, IInv, StateTypeOK
<1>3. OwnInv'
  BY <1>1, <1>2 DEF RunInv, OwnInv, Requests
<1>4. ASSUME NEW v \in Workers PROVE Progress(v)'
  <2>1. CASE v = w
    BY <2>1
  <2>2. CASE v # w /\ pc[v] \notin Free
    <3>1. req[v] # req[w] /\ req[v] \in Requests
      BY <2>2 DEF RunInv, OwnInv
    <3>2. Progress(v) /\ out'[req'[v]] = out[req[v]]
      BY <3>1 DEF RunInv
    <3> QED BY <2>2, <3>2 DEF Progress
  <2>3. CASE v # w /\ pc[v] \in Free
    BY <2>3 DEF Progress, Free, Taking
  <2> QED BY <2>1, <2>2, <2>3
<1>5. SettledInv'
  <2>1. ASSUME NEW q \in Requests, \A v \in Workers : pc'[v] \notin Free => req'[v] # q
        PROVE  Settled(out'[q])
    <3>1. CASE q = req[w]
      BY <2>1, <3>1
    <3>2. CASE q # req[w]
      <4>1. \A v \in Workers : pc[v] \notin Free => req[v] # q
        BY <2>1, <3>2
      <4> QED BY <3>2, <4>1 DEF RunInv, SettledInv
    <3> QED BY <3>1, <3>2
  <2> QED BY <2>1 DEF SettledInv
<1> QED BY <1>3, <1>4, <1>5 DEF RunInv

-----------------------------------------------------------------------------
(* One lemma per action of a response.                                     *)

LEMMA OpenMissingRunInv ==
    ASSUME IInv, RunInv, NEW w \in Workers, OpenMissing(w) PROVE RunInv'
<1> USE DEF OpenMissing, Goto, Send, NoQueue, transfer
<1>1. /\ UNCHANGED <<req, taken, filelock, len, done>>
      /\ pc[w] = "open" /\ pc'[w] = "check"
      /\ \A v \in Workers : v # w => pc'[v] = pc[v]
      /\ \A q \in Requests : q # req[w] => out'[q] = out[q]
  BY DEF IInv, StateTypeOK
<1>2. out'[req[w]] = <<Missing>>
  <2>1. req[w] \in Requests /\ out[req[w]] = <<>>
    BY <1>1 DEF RunInv, OwnInv, Progress, Free, Taking
  <2> QED BY <2>1 DEF IInv, StateTypeOK
<1>3. FileLockInv'
  BY <1>1 DEF RunInv, FileLockInv
<1>4. Progress(w)'
  BY <1>1 DEF Progress, Taking
<1> QED BY <1>1, <1>2, <1>3, <1>4, AnswerInv DEF Free, Settled

LEMMA OpenFileRunInv ==
    ASSUME IInv, RunInv, NEW w \in Workers, OpenFile(w) PROVE RunInv'
<1> USE DEF OpenFile, Goto, NoQueue
<1>1. /\ UNCHANGED <<req, taken, filelock, done, out>>
      /\ pc[w] = "open" /\ pc'[w] = "header"
      /\ \A v \in Workers : v # w => pc'[v] = pc[v] /\ len'[v] = len[v]
  BY DEF IInv, StateTypeOK
<1>2. FileLockInv'
  BY <1>1 DEF RunInv, FileLockInv
<1>3. Progress(w)'
  BY <1>1 DEF RunInv, Progress, Taking
<1> QED BY <1>1, <1>2, <1>3, AnswerInv DEF Free

LEMMA SendHeaderRunInv ==
    ASSUME IInv, RunInv, NEW w \in Workers, SendHeader(w) PROVE RunInv'
<1> USE DEF SendHeader, Goto, Send, NoQueue, transfer
<1>1. /\ UNCHANGED <<req, taken, filelock, len, done>>
      /\ pc[w] = "header" /\ pc'[w] = "filelock" /\ len[w] \in Nat
      /\ \A v \in Workers : v # w => pc'[v] = pc[v]
      /\ \A q \in Requests : q # req[w] => out'[q] = out[q]
  BY DEF IInv, StateTypeOK
<1>2. Sent(out'[req[w]], len[w], 0)
  <2>1. req[w] \in Requests /\ out[req[w]] = <<>>
    BY <1>1 DEF RunInv, OwnInv, Progress, Free, Taking
  <2>2. out'[req[w]] = Append(<<>>, OkHeader(len[w]))
    BY <2>1 DEF IInv, StateTypeOK
  <2> QED BY <1>1, <2>2, SentHeader
<1>3. FileLockInv'
  BY <1>1 DEF RunInv, FileLockInv
<1>4. Progress(w)'
  BY <1>1, <1>2 DEF Progress, Taking
<1> QED BY <1>1, <1>3, <1>4, AnswerInv DEF Free

LEMMA LockFileRunInv ==
    ASSUME IInv, RunInv, NEW w \in Workers, LockFile(w) PROVE RunInv'
<1> USE DEF LockFile, Goto, NoQueue
<1>1. /\ UNCHANGED <<req, taken, len, out>>
      /\ pc[w] = "filelock" /\ pc'[w] = "send" /\ len[w] \in Nat
      /\ filelock = NULL /\ filelock' = w /\ done'[w] = 0
      /\ \A v \in Workers : v # w => pc'[v] = pc[v] /\ done'[v] = done[v]
  BY DEF IInv, StateTypeOK
<1>2. FileLockInv'
  BY <1>1, NullAssumption DEF RunInv, FileLockInv
<1>3. Progress(w)'
  BY <1>1 DEF RunInv, Progress, Taking
<1> QED BY <1>1, <1>2, <1>3, AnswerInv DEF Free

LEMMA SendChunkRunInv ==
    ASSUME IInv, RunInv, NEW w \in Workers, SendChunk(w) PROVE RunInv'
<1> USE DEF SendChunk, Send, NoQueue
<1>1. /\ UNCHANGED <<req, taken, filelock, len, pc>>
      /\ pc[w] = "send" /\ len[w] \in Nat /\ done[w] \in Nat
      /\ done[w] < len[w] /\ done'[w] = done[w] + 1
      /\ \A v \in Workers : v # w => done'[v] = done[v]
      /\ \A q \in Requests : q # req[w] => out'[q] = out[q]
  BY DEF IInv, StateTypeOK
<1>2. Sent(out'[req[w]], len[w], done[w] + 1)
  <2>1. req[w] \in Requests /\ Sent(out[req[w]], len[w], done[w])
    BY <1>1 DEF RunInv, OwnInv, Progress, Free
  <2>2. out'[req[w]] = Append(out[req[w]], Chunk(done[w]))
    BY <2>1 DEF IInv, StateTypeOK
  <2> QED BY <1>1, <2>1, <2>2, SentChunk
<1>3. FileLockInv'
  BY <1>1 DEF RunInv, FileLockInv
<1>4. Progress(w)'
  BY <1>1, <1>2 DEF Progress, Taking
<1> QED BY <1>1, <1>3, <1>4, AnswerInv DEF Free

LEMMA SendDoneRunInv ==
    ASSUME IInv, RunInv, NEW w \in Workers, SendDone(w) PROVE RunInv'
<1> USE DEF SendDone, Goto, NoQueue, transfer
<1>1. /\ UNCHANGED <<req, taken, filelock, len, done, out>>
      /\ pc[w] = "send" /\ pc'[w] = "fileunlock"
      /\ len[w] \in Nat /\ done[w] \in Nat /\ done[w] >= len[w]
      /\ \A v \in Workers : v # w => pc'[v] = pc[v]
  BY DEF IInv, StateTypeOK
<1>2. done[w] = len[w] /\ Sent(out[req[w]], len[w], len[w])
  BY <1>1 DEF RunInv, Progress
<1>3. FileLockInv'
  BY <1>1 DEF RunInv, FileLockInv
<1>4. Progress(w)'
  BY <1>1, <1>2 DEF Progress, Taking
<1> QED BY <1>1, <1>3, <1>4, AnswerInv DEF Free

LEMMA UnlockFileRunInv ==
    ASSUME IInv, RunInv, NEW w \in Workers, UnlockFile(w) PROVE RunInv'
<1> USE DEF UnlockFile, Goto, NoQueue, transfer
<1>1. /\ UNCHANGED <<req, taken, len, done, out>>
      /\ pc[w] = "fileunlock" /\ pc'[w] = "check" /\ filelock' = NULL
      /\ len[w] \in Nat
      /\ \A v \in Workers : v # w => pc'[v] = pc[v]
  BY DEF IInv, StateTypeOK
<1>2. Settled(out[req[w]])
  BY <1>1 DEF RunInv, Progress, Settled
<1>3. FileLockInv'
  BY <1>1, NullAssumption DEF RunInv, FileLockInv
<1>4. Progress(w)'
  BY <1>1 DEF Progress, Taking
<1> QED BY <1>1, <1>2, <1>3, <1>4, AnswerInv DEF Free

\* The abort goes behind an incomplete response, and no other one changes.
LEMMA SendFailsEnds ==
    ASSUME IInv, RunInv, NEW w \in Workers, SendFails(w)
    PROVE  status' # "running" /\ Responses' /\ OneTransferAtATime'
<1> USE DEF SendFails, Send, NoQueue
<1>1. /\ UNCHANGED <<req, filelock, pc>> /\ status' = "ioerror"
      /\ pc[w] = "send" /\ len[w] \in Nat /\ done[w] \in Nat /\ done[w] < len[w]
      /\ \A q \in Requests : q # req[w] => out'[q] = out[q]
  BY DEF IInv, StateTypeOK
<1>2. req[w] \in Requests /\ Sent(out[req[w]], len[w], done[w])
  BY <1>1 DEF RunInv, OwnInv, Progress, Free
<1>3. out'[req[w]] = Append(out[req[w]], Aborted)
  BY <1>2 DEF IInv, StateTypeOK
<1>4. /\ IsResponse(out'[req[w]])
      /\ out'[req[w]][Len(out'[req[w]])] = Aborted
  BY <1>1, <1>2, <1>3, SentAborted
<1>5. Responses /\ OneTransferAtATime
  BY RunInvImplies
<1>6. Responses'
  BY <1>1, <1>4, <1>5 DEF Responses
<1>7. OneTransferAtATime'
  BY <1>1, <1>4, <1>5 DEF OneTransferAtATime, PartlySent
<1> QED BY <1>1, <1>6, <1>7

LEMMA StepSendInv == IInv /\ SendInv /\ [Next]_vars => SendInv'
<1> SUFFICES ASSUME IInv, SendInv, [Next]_vars PROVE SendInv'
  OBVIOUS
<1>1. CASE UNCHANGED vars
  <2>1. CASE RunInv
    BY <1>1, <2>1, QuietSteps, QuietInv DEF SendInv
  <2>2. CASE ~RunInv
    BY <1>1, <2>2 DEF SendInv, Responses, OneTransferAtATime, PartlySent, vars, locks
  <2> QED BY <2>1, <2>2
<1>2. CASE Next
  <2>1. RunInv
    BY <1>2 DEF Next, SendInv
  <2>2. CASE Boss
    BY <2>1, <2>2, QuietSteps, QuietInv DEF SendInv
  <2>3. ASSUME NEW w \in Workers, Worker(w) PROVE SendInv'
    <3>1. CASE PopItem(w)
      BY <2>1, <3>1, PopItemRunInv DEF SendInv
    <3>2. CASE \/ Check(w) \/ LockQueue(w) \/ UnlockQueue(w)
               \/ Pop(w) /\ ~PopItem(w)
      BY <2>1, <3>2, QuietSteps, QuietInv DEF SendInv
    <3>3. CASE SendFails(w)
      BY <2>1, <3>3, SendFailsEnds DEF SendInv
    <3>4. CASE Respond(w) /\ ~SendFails(w)
      BY <2>1, <3>4, OpenMissingRunInv, OpenFileRunInv, SendHeaderRunInv,
         LockFileRunInv, SendChunkRunInv, SendDoneRunInv, UnlockFileRunInv
      DEF Respond, SendInv
    <3> QED BY <2>3, <3>1, <3>2, <3>3, <3>4 DEF Worker
  <2> QED BY <1>2, <2>2, <2>3 DEF Next
<1> QED BY <1>1, <1>2

LEMMA SendInvariance == Spec => []SendInv
<1>1. Init => SendInv
  BY InitRunInv DEF SendInv
<1> QED BY <1>1, StepSendInv, Invariance, PTL DEF Spec

-----------------------------------------------------------------------------
(* Theorems.                                                               *)

\* thd_callback: every client gets one response, a not-found header or an OK
\* header and the file's buffers in order, cut short only by an abort.
THEOREM ResponsesWhole == Spec => []Responses
<1>1. IInv /\ SendInv => Responses
  BY RunInvImplies DEF SendInv
<1> QED BY <1>1, SendInvariance, Invariance, PTL

\* filelock: while a file is partly sent, its worker holds the lock, so no two
\* connections are in mid-transfer.
THEOREM SerialTransfers == Spec => []OneTransferAtATime
<1>1. IInv /\ SendInv => OneTransferAtATime
  BY RunInvImplies DEF SendInv
<1> QED BY <1>1, SendInvariance, Invariance, PTL

\* A worker waits where thd_callback spins on an empty queue, or at a mutex that
\* is held.
WaitsFor(w) ==
    \/ pc[w] = "check" /\ N = 0
    \/ pc[w] = "lock" /\ reqlock # NULL
    \/ pc[w] = "filelock" /\ filelock # NULL

Idle == /\ \A w \in Workers : pc[w] = "check" /\ N = 0
        /\ reqlock = NULL /\ filelock = NULL

NoCircularWait ==
    (status = "running" /\ \A w \in Workers : WaitsFor(w)) => Idle

LEMMA NobodyWaitsForAWaiter == IInv /\ SendInv => NoCircularWait
<1> SUFFICES ASSUME IInv, SendInv, status = "running", \A w \in Workers : WaitsFor(w)
             PROVE  Idle
  BY DEF NoCircularWait
<1>1. reqlock = NULL
  <2> SUFFICES ASSUME reqlock # NULL PROVE FALSE
    OBVIOUS
  <2>1. reqlock \in Workers
    BY DEF IInv, StateTypeOK
  <2>2. pc[reqlock] \in PopPC \cup {"unlock"}
    BY <2>1 DEF IInv, RaceInv, LockInv
  <2> QED BY <2>1, <2>2 DEF WaitsFor, PopPC
<1>2. filelock = NULL
  <2> SUFFICES ASSUME filelock # NULL PROVE FALSE
    OBVIOUS
  <2>1. filelock \in Workers
    BY DEF IInv, StateTypeOK
  <2>2. pc[filelock] \in {"send", "fileunlock"}
    BY <2>1 DEF SendInv, RunInv, FileLockInv
  <2> QED BY <2>1, <2>2 DEF WaitsFor
<1> QED BY <1>1, <1>2 DEF WaitsFor, Idle

\* "does not deadlock" (Readme.md:461), for the workers: unless the process has
\* ended, they all wait at once only when the queue is empty and both mutexes are
\* free, so that none of them waits for another that waits.
THEOREM WorkersDoNotDeadlock == Spec => []NoCircularWait
<1> QED BY NobodyWaitsForAWaiter, Invariance, SendInvariance, PTL

-----------------------------------------------------------------------------
(* Until an enqueue and a pop overlap, whoever is inside steque.c is alone *)
(* there, and the list is the requests accepted and not popped.  Popper is *)
(* where the worker that holds reqlock is in steque_pop.                   *)

Popper == IF reqlock = NULL THEN "unlock" ELSE pc[reqlock]
Alone  == bpc = "accept" \/ Popper \notin PopPC

Popping == Popper \in PopPC \ {"empty?", "item"}
At(c, r) == c \in live /\ item[c] = r

\* The oldest request that is still in the list, as some field of it tells:
\* the one being popped until the popper has changed that field.
Oldest(before) == IF Popper \in before THEN Len(taken) ELSE Len(taken) + 1
FrontItem  == Oldest({"unlinkload", "unlink"})
BackBound  == Oldest({"unlinkload", "unlink", "last?", "clearback"})
LiveBound  == Oldest({"unlinkload", "unlink", "last?", "clearback", "free"})
LastLinked == IF Placing THEN accepted - 1 ELSE accepted
LastBack   == IF Placing \/ bpc = "setback" THEN accepted - 1 ELSE accepted

ItemsInv == /\ LastTaken = Len(taken)
            /\ \A r \in LiveBound..accepted : \E c \in live : item[c] = r
            /\ \A c \in live : item[c] >= LiveBound
            /\ bpc # "accept" => At(bnode, accepted)
LinksInv == \A c \in live : IF item[c] >= LastLinked THEN next[c] = NULL
                            ELSE At(next[c], item[c] + 1)
EndsInv == /\ IF FrontItem > LastLinked THEN front = NULL ELSE At(front, FrontItem)
           /\ IF BackBound > LastBack THEN back = NULL ELSE At(back, LastBack)
           /\ bpc = "first" => back = NULL
           /\ bpc = "link" => back # NULL
           /\ Popper = "unlink" => nxt[reqlock] = next[front]
           /\ Popper = "clearback" => front = NULL
CountInv == /\ N = accepted - (IF bpc # "accept" THEN 1 ELSE 0)
                     - (IF Popping THEN Len(taken) - 1 ELSE Len(taken))
            /\ bpc = "store" => bN = N
            /\ Popper = "store" => wN[reqlock] = N
            /\ \A w \in Workers : pc[w] \in {"lock", "empty?"} => seen[w] < accepted
SerialInv == Alone /\ ItemsInv /\ LinksInv /\ EndsInv /\ CountInv


\* Inside an operation nothing of the other is under way.
LEMMA AloneStep ==
    ASSUME IInv, IInv', ~overlapped', Overlap
    PROVE  ~overlapped /\ Alone'
<1>1. ~overlapped /\ (bpc' = "accept" \/ \A w \in Workers : pc'[w] \notin PopPC)
  BY DEF Overlap
<1>2. Popper' \in PopPC => \E w \in Workers : pc'[w] \in PopPC
  BY DEF IInv, StateTypeOK, Popper, PopPC
<1> QED BY <1>1, <1>2 DEF Alone

LEMMA InsidePop ==
    ASSUME IInv, NEW w \in Workers, pc[w] \in PopPC \cup {"unlock"}
    PROVE  reqlock = w /\ Popper = pc[w]
BY NullAssumption DEF IInv, RaceInv, LockInv, Popper

\* Between two operations the list is exactly the requests accepted and not popped.
LEMMA BetweenPops ==
    ASSUME Popper \notin PopPC
    PROVE  FrontItem = Len(taken) + 1 /\ BackBound = Len(taken) + 1
           /\ LiveBound = Len(taken) + 1 /\ ~Popping
BY DEF FrontItem, BackBound, LiveBound, Popping, Oldest, PopPC

LEMMA InitSerial == Init => SerialInv
<1> SUFFICES ASSUME Init PROVE SerialInv
  OBVIOUS
<1>1. /\ Popper = "unlock" /\ bpc = "accept" /\ live = {} /\ accepted = 0 /\ N = 0
      /\ front = NULL /\ back = NULL /\ taken = <<>> /\ Len(taken) = 0
      /\ \A w \in Workers : pc[w] = "check"
  BY DEF Init, Popper
<1>2. FrontItem = 1 /\ BackBound = 1 /\ LiveBound = 1 /\ ~Popping
  BY <1>1, BetweenPops DEF PopPC
<1>3. ItemsInv /\ LinksInv
  BY <1>1, <1>2 DEF ItemsInv, LinksInv, LastTaken
<1>4. EndsInv
  BY <1>1, <1>2 DEF EndsInv, LastLinked, LastBack, Placing
<1>5. CountInv
  <2>1. N = accepted - (IF bpc # "accept" THEN 1 ELSE 0)
                - (IF Popping THEN Len(taken) - 1 ELSE Len(taken))
    <3>1. N = 0 /\ accepted = 0 /\ Len(taken) = 0 /\ 0 = 0 - 0 - 0
      BY <1>1
    <3> QED BY <1>1, <1>2, <3>1, Zenon
  <2> QED BY <1>1, <2>1 DEF CountInv
<1> QED BY <1>1, <1>3, <1>4, <1>5 DEF SerialInv, Alone

\* An enqueue, while no worker pops.
LEMMA BossSerial ==
    ASSUME IInv, IInv', SerialInv, Alone', Boss
    PROVE  SerialInv'
<1> DEFINE T == Len(taken)
<1>1. /\ Popper \notin PopPC /\ Popper' = Popper /\ T \in Nat /\ accepted \in Nat
      /\ UNCHANGED <<taken, T, reqlock, pc, seen>>
  <2>1. /\ bpc # "accept" \/ bpc' # "accept"
        /\ UNCHANGED <<taken, reqlock, pc, seen>>
    BY DEF Boss, HandlerGet, EnqueueTest, EnqueueFirst, EnqueueLink, EnqueueSetBack,
           EnqueueLoadN, EnqueueStoreN, NoWorker, locks
  <2>2. T \in Nat /\ accepted \in Nat
    BY DEF IInv, StateTypeOK
  <2>3. Popper' = Popper
    BY <2>1 DEF Popper
  <2> QED BY <2>1, <2>2, <2>3 DEF SerialInv, Alone
<1>2. FrontItem = T + 1 /\ BackBound = T + 1 /\ LiveBound = T + 1 /\ ~Popping
  BY <1>1, BetweenPops
<1>3. FrontItem' = T + 1 /\ BackBound' = T + 1 /\ LiveBound' = T + 1 /\ ~Popping'
  BY <1>1 DEF FrontItem, BackBound, LiveBound, Popping, Oldest, PopPC
<1>4. LastTaken = T /\ LastTaken' = T
  BY <1>1 DEF SerialInv, ItemsInv, LastTaken
<1>5. Popper # "unlink" /\ Popper # "clearback" /\ Popper # "store"
  BY <1>1 DEF PopPC
<1>6. /\ \A r \in (T + 1)..accepted : \E c \in live : item[c] = r
      /\ \A c \in live : item[c] >= T + 1 /\ item[c] \in 1..accepted
      /\ \A c, d \in live : item[c] = item[d] => c = d
      /\ bpc # "accept" => At(bnode, accepted)
      /\ LinksInv
      /\ IF T + 1 > LastLinked THEN front = NULL ELSE At(front, T + 1)
      /\ IF T + 1 > LastBack THEN back = NULL ELSE At(back, LastBack)
      /\ bpc = "first" => back = NULL
      /\ bpc = "link" => back # NULL
      /\ N = accepted - (IF bpc # "accept" THEN 1 ELSE 0) - T
      /\ bpc = "store" => bN = N
      /\ \A w \in Workers : pc[w] \in {"lock", "empty?"} => seen[w] < accepted
      /\ live \subseteq Cells /\ NULL \notin Cells
      /\ item \in [Cells -> 0..NReq] /\ next \in [Cells -> Cells \cup {NULL}]
      /\ bpc \in BossPC /\ N \in Int /\ seen \in [Workers -> Int]
  BY <1>2, NullAssumption
  DEF SerialInv, ItemsInv, EndsInv, CountInv, IInv, StateTypeOK, RaceInv, NodeInv
<1>7. SUFFICES
      /\ \A r \in (T + 1)..accepted' : \E c \in live' : item'[c] = r
      /\ \A c \in live' : item'[c] >= T + 1
      /\ bpc' # "accept" => At(bnode, accepted)'
      /\ LinksInv'
      /\ IF T + 1 > LastLinked' THEN front' = NULL ELSE At(front, T + 1)'
      /\ IF T + 1 > LastBack' THEN back' = NULL ELSE At(back, LastBack)'
      /\ bpc' = "first" => back' = NULL
      /\ bpc' = "link" => back' # NULL
      /\ N' = accepted' - (IF bpc' # "accept" THEN 1 ELSE 0) - T
      /\ bpc' = "store" => bN' = N'
      /\ accepted <= accepted' /\ accepted' \in Nat
  BY <1>1, <1>3, <1>4, <1>5, <1>6
  DEF SerialInv, ItemsInv, EndsInv, CountInv
<1> HIDE DEF T
<1> USE DEF At, LinksInv, LastLinked, LastBack, Placing
<1>8. CASE HandlerGet
  <2> PICK c \in Cells \ live :
          /\ item' = [item EXCEPT ![c] = accepted + 1]
          /\ next' = [next EXCEPT ![c] = NULL]
          /\ live' = live \cup {c}
          /\ bnode' = c
    BY <1>8 DEF HandlerGet
  <2>1. /\ accepted' = accepted + 1 /\ bpc = "accept" /\ bpc' = "test"
        /\ UNCHANGED <<front, back, N>>
    BY <1>8 DEF HandlerGet, struct
  <2>2. /\ \A d \in live : item'[d] = item[d] /\ next'[d] = next[d]
        /\ item'[c] = accepted + 1 /\ next'[c] = NULL
    BY <1>6
  <2>3. T <= accepted
    BY <1>1, <1>4, LastTakenBound
  <2> QED BY <1>1, <1>6, <2>1, <2>2, <2>3
<1>9. CASE EnqueueTest
  BY <1>1, <1>6, <1>9 DEF EnqueueTest, struct, memory
<1>10. CASE EnqueueFirst
  BY <1>1, <1>6, <1>10 DEF EnqueueFirst, memory
<1>11. CASE EnqueueLink
  BY <1>1, <1>6, <1>11 DEF EnqueueLink, struct
<1>12. CASE EnqueueSetBack
  BY <1>1, <1>6, <1>12 DEF EnqueueSetBack, memory
<1>13. CASE EnqueueLoadN
  BY <1>1, <1>6, <1>13 DEF EnqueueLoadN, struct, memory
<1>14. CASE EnqueueStoreN
  BY <1>1, <1>6, <1>14 DEF EnqueueStoreN, memory
<1> QED BY <1>8, <1>9, <1>10, <1>11, <1>12, <1>13, <1>14 DEF Boss

\* A pop, while the boss does not enqueue.
LEMMA PopSerial ==
    ASSUME IInv, IInv', SerialInv, Alone', NEW w \in Workers, Pop(w)
    PROVE  SerialInv'
<1> DEFINE T == Len(taken)
           before == pc[w]
           after == pc'[w]
<1>1. before \in PopPC /\ after \in PopPC \cup {"unlock"}
  BY DEF IInv, StateTypeOK, Pop, PopTest, PopItem, PopLoadNext, PopUnlink, PopLast,
         PopClearBack, PopFree, PopLoadN, PopStoreN, Goto, PopPC
<1>2. reqlock = w /\ Popper = before /\ w # NULL
  BY <1>1, InsidePop, NullAssumption
<1>3. /\ UNCHANGED <<reqlock, bpc, bnode, bN, accepted, seen, item, next>>
      /\ \A v \in Workers : v # w => pc'[v] = pc[v]
  BY DEF IInv, StateTypeOK, Pop, PopTest, PopItem, PopLoadNext, PopUnlink, PopLast,
         PopClearBack, PopFree, PopLoadN, PopStoreN, Goto, locks, boss, memory
<1>4. reqlock' = w /\ Popper' = after
  BY <1>2, <1>3 DEF Popper
<1>5. bpc = "accept" /\ bpc' = "accept"
  BY <1>1, <1>2, <1>3 DEF SerialInv, Alone
<1>6. /\ LastLinked = accepted /\ LastBack = accepted
      /\ LastLinked' = accepted /\ LastBack' = accepted
  BY <1>3, <1>5 DEF LastLinked, LastBack, Placing
<1>7. /\ LastTaken = T
      /\ \A r \in LiveBound..accepted : \E c \in live : item[c] = r
      /\ \A c \in live : item[c] >= LiveBound /\ item[c] \in 1..accepted
      /\ \A c, d \in live : item[c] = item[d] => c = d
      /\ \A c \in live : IF item[c] >= accepted THEN next[c] = NULL
                          ELSE At(next[c], item[c] + 1)
      /\ IF FrontItem > accepted THEN front = NULL ELSE At(front, FrontItem)
      /\ IF BackBound > accepted THEN back = NULL ELSE At(back, accepted)
      /\ before = "unlink" => nxt[w] = next[front]
      /\ before = "clearback" => front = NULL
      /\ N = accepted - (IF Popping THEN T - 1 ELSE T)
      /\ before = "store" => wN[w] = N
      /\ \A v \in Workers : pc[v] \in {"lock", "empty?"} => seen[v] < accepted
      /\ live \subseteq Cells /\ NULL \notin Cells
      /\ item \in [Cells -> 0..NReq] /\ next \in [Cells -> Cells \cup {NULL}]
      /\ pc \in [Workers -> WorkerPC] /\ nxt \in [Workers -> Cells \cup {NULL}]
      /\ wN \in [Workers -> Int]
      /\ N \in Int /\ T \in Nat /\ accepted \in Nat
  <2>1. /\ LastTaken = T
        /\ \A r \in LiveBound..accepted : \E c \in live : item[c] = r
        /\ \A c \in live : item[c] >= LiveBound /\ item[c] \in 1..accepted
        /\ \A c, d \in live : item[c] = item[d] => c = d
        /\ \A c \in live : IF item[c] >= accepted THEN next[c] = NULL
                            ELSE At(next[c], item[c] + 1)
    BY <1>6 DEF SerialInv, ItemsInv, LinksInv, IInv, RaceInv, NodeInv
  <2>2. /\ IF FrontItem > accepted THEN front = NULL ELSE At(front, FrontItem)
        /\ IF BackBound > accepted THEN back = NULL ELSE At(back, accepted)
        /\ before = "unlink" => nxt[w] = next[front]
        /\ before = "clearback" => front = NULL
    BY <1>2, <1>6 DEF SerialInv, EndsInv
  <2>3. /\ N = accepted - 0 - (IF Popping THEN T - 1 ELSE T)
        /\ before = "store" => wN[w] = N
        /\ \A v \in Workers : pc[v] \in {"lock", "empty?"} => seen[v] < accepted
    BY <1>2, <1>5 DEF SerialInv, CountInv
  <2>4. /\ live \subseteq Cells /\ NULL \notin Cells
        /\ item \in [Cells -> 0..NReq] /\ next \in [Cells -> Cells \cup {NULL}]
        /\ pc \in [Workers -> WorkerPC] /\ nxt \in [Workers -> Cells \cup {NULL}]
        /\ wN \in [Workers -> Int]
        /\ N \in Int /\ T \in Nat /\ accepted \in Nat
    <3>1. accepted \in Nat
      BY SizeAssumption DEF IInv, StateTypeOK
    <3>2. T \in Nat
      BY DEF IInv, StateTypeOK
    <3> HIDE DEF T
    <3> QED BY <3>1, <3>2, NullAssumption DEF IInv, StateTypeOK
  <2>5. accepted - 0 = accepted
    BY <2>4
  <2> QED BY <2>1, <2>2, <2>3, <2>4, <2>5
<1>8. SUFFICES
      /\ LastTaken' = T'
      /\ \A r \in LiveBound'..accepted : \E c \in live' : item[c] = r
      /\ \A c \in live' : item[c] >= LiveBound'
      /\ \A c \in live' : IF item[c] >= accepted THEN next[c] = NULL
                           ELSE next[c] \in live' /\ item[next[c]] = item[c] + 1
      /\ IF FrontItem' > accepted THEN front' = NULL
         ELSE front' \in live' /\ item[front'] = FrontItem'
      /\ IF BackBound' > accepted THEN back' = NULL
         ELSE back' \in live' /\ item[back'] = accepted
      /\ after = "unlink" => nxt'[w] = next[front']
      /\ after = "clearback" => front' = NULL
      /\ N' = accepted - (IF Popping' THEN T' - 1 ELSE T')
      /\ after = "store" => wN'[w] = N'
      /\ after \notin {"lock", "empty?"} \/ after = before
  <2>1. ItemsInv' /\ LinksInv'
    BY <1>3, <1>5, <1>6, <1>8 DEF ItemsInv, LinksInv, At
  <2>2. EndsInv'
    BY <1>3, <1>4, <1>5, <1>6, <1>8 DEF EndsInv, At
  <2>3. CountInv'
    BY <1>3, <1>4, <1>5, <1>7, <1>8 DEF CountInv
  <2> QED BY <2>1, <2>2, <2>3 DEF SerialInv
<1> USE DEF Goto, At, FrontItem, BackBound, LiveBound, Popping, Oldest, PopPC
<1>9. ASSUME UNCHANGED taken PROVE T' = T /\ LastTaken' = T
  BY <1>7, <1>9 DEF LastTaken
<1> HIDE DEF T
<1>10. CASE PopTest(w)
  BY <1>1, <1>2, <1>4, <1>7, <1>9, <1>10 DEF PopTest, struct, memory, locals
<1>11. CASE PopItem(w)
  <2>1. before = "item" /\ after = "unlinkload" /\ taken' = Append(taken, item[front])
    BY <1>11 DEF PopItem, IInv, StateTypeOK
  <2>2. front # NULL
    BY <2>1 DEF IInv, RaceInv, FrontInv
  <2>3. At(front, T + 1) /\ T + 1 <= accepted
    BY <1>2, <1>7, <2>1, <2>2 DEF T
  <2>4. T' = T + 1 /\ LastTaken' = T + 1
    <3>1. taken \in Seq(0..NReq) /\ item[front] \in 0..NReq /\ item[front] = T + 1
      BY <1>7, <2>3 DEF IInv, StateTypeOK
    <3>2. Len(taken') = Len(taken) + 1
      BY <2>1, <3>1
    <3>3. LastTaken' = item[front]
      BY <2>1, <3>1, AppendFacts DEF LastTaken
    <3> QED BY <3>1, <3>2, <3>3 DEF T
  <2> QED BY <1>2, <1>4, <1>7, <1>11, <2>1, <2>4 DEF T, PopItem, struct, memory
<1>12. CASE PopLoadNext(w)
  BY <1>1, <1>2, <1>4, <1>7, <1>9, <1>12 DEF PopLoadNext, struct, memory, IInv, StateTypeOK
<1>13. CASE PopUnlink(w)
  <2>1. /\ before = "unlink" /\ after = "last?" /\ front' = nxt[w] /\ nxt[w] = next[front]
        /\ UNCHANGED <<back, N, live, wN, taken>>
    BY <1>7, <1>13 DEF PopUnlink, memory, locals
  <2>2. /\ FrontItem = T /\ BackBound = T /\ LiveBound = T /\ Popping
        /\ FrontItem' = T + 1 /\ BackBound' = T /\ LiveBound' = T /\ Popping'
    BY <1>2, <1>4, <1>9, <2>1 DEF T
  <2>3. IF T + 1 > accepted THEN front' = NULL ELSE front' \in live /\ item[front'] = T + 1
    <3>1. front # NULL
      BY <2>1 DEF IInv, RaceInv, FrontInv
    <3>2. front \in live /\ item[front] = T
      BY <1>7, <2>2, <3>1
    <3> QED BY <1>7, <2>1, <3>2
  <2> QED BY <1>7, <1>9, <2>1, <2>2, <2>3
<1>14. CASE PopLast(w)
  BY <1>1, <1>2, <1>4, <1>7, <1>9, <1>14 DEF PopLast, struct, memory, locals
<1>15. CASE PopClearBack(w)
  BY <1>1, <1>2, <1>4, <1>7, <1>9, <1>15 DEF PopClearBack, memory, locals
<1>16. CASE PopFree(w)
  <2>1. /\ before = "free" /\ after = "load" /\ live' = live \ {node[w]}
        /\ UNCHANGED <<front, back, N, taken>>
    BY <1>7, <1>16 DEF PopFree, struct, locals
  <2>2. node[w] \in live /\ item[node[w]] = T
    BY <1>7, <2>1 DEF IInv, RaceInv, PopInv
  <2>3. /\ FrontItem = T + 1 /\ BackBound = T + 1 /\ LiveBound = T /\ Popping
        /\ FrontItem' = T + 1 /\ BackBound' = T + 1 /\ LiveBound' = T + 1 /\ Popping'
    BY <1>2, <1>4, <1>9, <2>1 DEF T
  <2>4. \A c \in live : c \in live' <=> item[c] >= T + 1
    BY <1>7, <2>1, <2>2, <2>3
  <2>5. /\ \A r \in (T + 1)..accepted : \E c \in live' : item[c] = r
        /\ \A c \in live' : item[c] >= T + 1
        /\ \A c \in live' : IF item[c] >= accepted THEN next[c] = NULL
                             ELSE next[c] \in live' /\ item[next[c]] = item[c] + 1
    BY <1>7, <2>1, <2>3, <2>4
  <2>6. /\ IF T + 1 > accepted THEN front' = NULL ELSE front' \in live' /\ item[front'] = T + 1
        /\ IF T + 1 > accepted THEN back' = NULL ELSE back' \in live' /\ item[back'] = accepted
    BY <1>7, <2>1, <2>3, <2>4
  <2> QED BY <1>7, <1>9, <2>1, <2>3, <2>5, <2>6
<1>17. CASE PopLoadN(w)
  BY <1>1, <1>2, <1>4, <1>7, <1>9, <1>17 DEF PopLoadN, struct, memory, IInv, StateTypeOK
<1>18. CASE PopStoreN(w)
  BY <1>1, <1>2, <1>4, <1>7, <1>9, <1>18 DEF PopStoreN, memory, locals
<1> QED BY <1>10, <1>11, <1>12, <1>13, <1>14, <1>15, <1>16, <1>17, <1>18 DEF Pop

\* The other steps of a worker leave the queue alone.
LEMMA OutsideSerial ==
    ASSUME SerialInv, Alone',
           UNCHANGED <<struct, memory, boss, locals, taken>>,
           \/ UNCHANGED <<reqlock, Popper>>
           \/ Popper \in {"unlock", "empty?"} /\ Popper' \in {"unlock", "empty?"},
           \A w \in Workers : pc'[w] \in {"lock", "empty?"} => seen'[w] < accepted
    PROVE  SerialInv'
<1> USE DEF struct, memory, boss, locals
<1>1. /\ FrontItem' = FrontItem /\ BackBound' = BackBound /\ LiveBound' = LiveBound
      /\ Popping' = Popping
  BY DEF FrontItem, BackBound, LiveBound, Popping, Oldest, PopPC
<1>2. LastLinked' = LastLinked /\ LastBack' = LastBack /\ LastTaken' = LastTaken
  BY DEF LastLinked, LastBack, LastTaken, Placing
<1>3. ItemsInv' /\ LinksInv'
  BY <1>1, <1>2 DEF SerialInv, ItemsInv, LinksInv, At
<1>4. EndsInv'
  BY <1>1, <1>2 DEF SerialInv, EndsInv, At
<1>5. CountInv'
  BY <1>1 DEF SerialInv, CountInv
<1> QED BY <1>3, <1>4, <1>5 DEF SerialInv

\* What the unlocked test of a worker sees: the pops that have decremented N.
LEMMA PopsDoneValue ==
    ASSUME IInv
    PROVE  PopsDone = IF Popping THEN Len(taken) - 1 ELSE Len(taken)
<1> DEFINE inPop == {w \in Workers : pc[w] \in PopPC \ {"empty?", "item"}}
<1>1. CASE Popping
  <2>1. inPop = {reqlock}
    BY <1>1, NullAssumption DEF IInv, RaceInv, StateTypeOK, LockInv, Popping, Popper, PopPC
  <2> QED BY <1>1, <2>1, FS_Singleton DEF PopsDone
<1>2. CASE ~Popping
  <2>1. inPop = {}
    BY <1>2, InsidePop DEF Popping
  <2>2. Len(taken) \in Nat
    BY DEF IInv, StateTypeOK
  <2> QED BY <1>2, <2>1, <2>2, FS_EmptySet DEF PopsDone
<1> QED BY <1>1, <1>2

LEMMA CheckSerial ==
    ASSUME IInv, IInv', SerialInv, Alone', NEW w \in Workers, Check(w)
    PROVE  SerialInv'
<1>1. /\ pc[w] = "check" /\ pc'[w] = "lock" /\ \A v \in Workers : v # w => pc'[v] = pc[v]
      /\ seen' = [seen EXCEPT ![w] = PopsDone] /\ seen \in [Workers -> Int] /\ N # 0
      /\ UNCHANGED <<struct, memory, boss, locals, taken, reqlock>>
  BY DEF Check, Goto, IInv, StateTypeOK, locks
<1>2. UNCHANGED Popper
  BY <1>1 DEF Popper, IInv, RaceInv, StateTypeOK, LockInv, PopPC
<1>3. PopsDone < accepted
  <2>1. N = accepted - (IF bpc # "accept" THEN 1 ELSE 0) - PopsDone
    BY PopsDoneValue DEF SerialInv, CountInv
  <2>2. Len(taken) \in Nat /\ accepted \in Nat /\ Len(taken) <= accepted
    <3>1. accepted \in Nat /\ taken \in Seq(0..NReq)
      BY SizeAssumption DEF IInv, StateTypeOK
    <3>2. LastTaken <= accepted /\ LastTaken = Len(taken)
      BY <3>1, LastTakenBound DEF SerialInv, ItemsInv
    <3> QED BY <3>1, <3>2
  <2>3. CASE bpc = "accept"
    BY <1>1, <2>1, <2>2, <2>3, PopsDoneValue
  <2>4. CASE bpc # "accept"
    <3>1. ~Popping
      BY <2>4 DEF SerialInv, Alone, Popping
    <3>2. PopsDone = Len(taken)
      BY <3>1, PopsDoneValue
    <3>3. bnode \in live /\ item[bnode] = accepted /\ item[bnode] >= LiveBound
      BY <2>4 DEF SerialInv, ItemsInv, At
    <3>4. LiveBound = Len(taken) + 1
      BY <2>4, BetweenPops DEF SerialInv, Alone
    <3> QED BY <2>2, <3>2, <3>3, <3>4
  <2> QED BY <2>3, <2>4
<1>4. \A v \in Workers : pc'[v] \in {"lock", "empty?"} => seen'[v] < accepted
  BY <1>1, <1>3 DEF SerialInv, CountInv
<1> QED BY <1>1, <1>2, <1>4, OutsideSerial

LEMMA LockSerial ==
    ASSUME IInv, IInv', SerialInv, Alone', NEW w \in Workers, LockQueue(w) \/ UnlockQueue(w)
    PROVE  SerialInv'
<1>1. /\ \A v \in Workers : v # w => pc'[v] = pc[v]
      /\ \/ reqlock = NULL /\ reqlock' = w /\ pc[w] = "lock" /\ pc'[w] = "empty?"
         \/ reqlock' = NULL /\ pc[w] = "unlock" /\ pc'[w] = "open"
      /\ UNCHANGED <<struct, memory, boss, locals, taken, seen>>
  BY DEF LockQueue, UnlockQueue, Goto, IInv, StateTypeOK
<1>2. Popper \in {"unlock", "empty?"} /\ Popper' \in {"unlock", "empty?"}
  BY <1>1, InsidePop DEF Popper
<1>3. \A v \in Workers : pc'[v] \in {"lock", "empty?"} => seen'[v] < accepted
  BY <1>1 DEF SerialInv, CountInv
<1> QED BY <1>1, <1>2, <1>3, OutsideSerial

LEMMA RespondSerial ==
    ASSUME IInv, IInv', SerialInv, Alone', NEW w \in Workers, Respond(w)
    PROVE  SerialInv'
<1>1. /\ pc[w] \in {"open", "header", "filelock", "send", "fileunlock"}
      /\ pc'[w] \in {"check", "header", "filelock", "send", "fileunlock"}
      /\ \A v \in Workers : v # w => pc'[v] = pc[v]
      /\ UNCHANGED <<struct, memory, reqlock, boss, locals, taken, seen>>
  BY DEF IInv, StateTypeOK, Respond, OpenMissing, OpenFile, SendHeader, LockFile,
         SendChunk, SendFails, SendDone, UnlockFile, Goto, NoQueue
<1>2. UNCHANGED Popper
  BY <1>1 DEF Popper, IInv, RaceInv, StateTypeOK, LockInv, PopPC
<1>3. \A v \in Workers : pc'[v] \in {"lock", "empty?"} => seen'[v] < accepted
  BY <1>1 DEF SerialInv, CountInv
<1> QED BY <1>1, <1>2, <1>3, OutsideSerial

\* The queue until an enqueue and a pop overlap, and what ends the process.
QueueInv == /\ overlapped \in BOOLEAN
            /\ ~overlapped => SerialInv
            /\ UnderflowHasCause

\* A worker that finds no element saw one that another has popped since.
LEMMA UnderflowStep ==
    ASSUME IInv, IInv', QueueInv, Next, ~overlapped', SerialInv', status' = "underflow"
    PROVE  \E w \in Workers : pc'[w] = "empty?" /\ seen'[w] < Len(taken')
<1>1. status = "running"
  BY DEF Next
<1>2. PICK w \in Workers : PopTest(w) /\ front = NULL
  BY <1>1 DEF Next, Boss, HandlerGet, EnqueueTest, EnqueueFirst, EnqueueLink, EnqueueSetBack,
     EnqueueLoadN, EnqueueStoreN, Worker, Check, LockQueue, Pop, PopTest, PopItem,
     PopLoadNext, PopUnlink, PopLast, PopClearBack, PopFree, PopLoadN, PopStoreN,
     UnlockQueue, Respond, OpenMissing, OpenFile, SendHeader, LockFile, SendChunk,
     SendFails, SendDone, UnlockFile
<1>3. pc'[w] = "empty?" /\ front' = NULL /\ Popper' = "empty?"
  BY <1>2, InsidePop
  DEF PopTest, struct, memory, locks, Popper, PopPC
<1>4. bpc' = "accept" /\ LastLinked' = accepted' /\ FrontItem' = Len(taken') + 1
  BY <1>3 DEF SerialInv, Alone, LastLinked, Placing, FrontItem, Oldest, PopPC
<1>5. accepted' < Len(taken') + 1
  <2>1. front' \notin live'
    BY <1>3, NullAssumption DEF IInv, StateTypeOK
  <2>2. FrontItem' > LastLinked'
    BY <2>1 DEF SerialInv, EndsInv, At
  <2>3. accepted' \in Int /\ Len(taken') \in Int
    BY SizeAssumption DEF IInv, StateTypeOK
  <2> QED BY <1>4, <2>2, <2>3
<1>6. seen'[w] < accepted'
  BY <1>3 DEF SerialInv, CountInv
<1>7. seen'[w] \in Int /\ accepted' \in Int /\ Len(taken') \in Int
  BY SizeAssumption DEF IInv, StateTypeOK
<1> QED BY <1>3, <1>5, <1>6, <1>7

LEMMA QueueStep ==
    ASSUME IInv, IInv', QueueInv, [Next]_vars
    PROVE  QueueInv'
<1>1. ASSUME Next PROVE QueueInv'
  <2>1. overlapped' \in BOOLEAN
    BY <1>1, Zenon DEF Next, Overlap
  <2>2. ASSUME ~overlapped' PROVE SerialInv'
    <3>1. SerialInv /\ Alone'
      BY <1>1, <2>2, AloneStep DEF QueueInv, Next
    <3> QED BY <1>1, <3>1, BossSerial, PopSerial, CheckSerial, LockSerial, RespondSerial
        DEF Next, Worker
  <2>3. UnderflowHasCause'
    BY <1>1, <2>2, UnderflowStep DEF UnderflowHasCause
  <2> QED BY <2>1, <2>2, <2>3 DEF QueueInv
<1>2. ASSUME UNCHANGED vars PROVE QueueInv'
  <2>1. /\ overlapped' \in BOOLEAN /\ overlapped' = overlapped
        /\ Popper' = Popper /\ UNCHANGED <<pc, seen, reqlock>>
        /\ UNCHANGED <<struct, memory, boss, locals, taken, accepted, bpc>>
    BY <1>2 DEF QueueInv, vars, Popper, locks, boss
  <2>2. ASSUME ~overlapped PROVE SerialInv'
    BY <2>1, <2>2, OutsideSerial DEF QueueInv, SerialInv, Alone, CountInv
  <2>3. UnderflowHasCause'
    BY <1>2 DEF QueueInv, UnderflowHasCause, vars
  <2> QED BY <2>1, <2>2, <2>3 DEF QueueInv
<1> QED BY <1>1, <1>2

LEMMA QueueInvariance == Spec => []QueueInv
<1>1. Init => QueueInv
  <2>1. Init => overlapped \in BOOLEAN /\ status # "underflow"
    BY DEF Init
  <2> QED BY <2>1, InitSerial DEF QueueInv, UnderflowHasCause
<1>2. IInv /\ IInv' /\ QueueInv /\ [Next]_vars => QueueInv'
  BY QueueStep
<1> QED BY <1>1, <1>2, Invariance, PTL DEF Spec

\* The list and the count between operations, from the invariant of the steps.
LEMMA SerialIntact ==
    ASSUME IInv, SerialInv, ~InEnqueue, \A w \in Workers : ~InPop(w)
    PROVE  /\ N = accepted - Len(taken)
           /\ Cardinality(live) = N
           /\ {item[c] : c \in live} = Waiting
           /\ IF Waiting = {} THEN front = NULL /\ back = NULL
              ELSE /\ front \in live /\ item[front] = Len(taken) + 1
                   /\ back \in live /\ item[back] = accepted
           /\ \A c \in live :
                 IF item[c] = accepted THEN next[c] = NULL
                 ELSE next[c] \in live /\ item[next[c]] = item[c] + 1
<1> DEFINE T == Len(taken)
<1>1. bpc = "accept" /\ Popper \notin PopPC
  BY DEF InEnqueue, InPop, Popper, IInv, StateTypeOK, PopPC
<1>2. /\ FrontItem = T + 1 /\ BackBound = T + 1 /\ LiveBound = T + 1 /\ ~Popping
      /\ LastLinked = accepted /\ LastBack = accepted
  BY <1>1, BetweenPops DEF LastLinked, LastBack, Placing
<1>3. T \in Nat /\ accepted \in Nat /\ T <= accepted
  <2>1. taken \in Seq(0..NReq) /\ accepted \in Nat
    BY SizeAssumption DEF IInv, StateTypeOK
  <2>2. LastTaken <= accepted /\ LastTaken = T
    BY LastTakenBound DEF SerialInv, ItemsInv
  <2> QED BY <2>1, <2>2
<1>4. N = accepted - T
  <2>1. N = accepted - 0 - T
    BY <1>1, <1>2 DEF SerialInv, CountInv
  <2> QED BY <1>3, <2>1
<1>5. /\ \A r \in (T + 1)..accepted : \E c \in live : item[c] = r
      /\ \A c \in live : item[c] \in (T + 1)..accepted
      /\ \A c, d \in live : item[c] = item[d] => c = d
  BY <1>2, <1>3 DEF SerialInv, ItemsInv, IInv, RaceInv, NodeInv
<1>6. {item[c] : c \in live} = Waiting
  BY <1>5 DEF Waiting
<1>7. Cardinality(live) = accepted - T
  <2>1. IsFiniteSet(live)
    BY CellsAssumption, FS_Subset DEF IInv, StateTypeOK
  <2>2. [c \in live |-> item[c]] \in Bijection(live, (T + 1)..accepted)
    BY <1>5 DEF Bijection, Injection, IsInjective, Surjection
  <2>3. ExistsBijection(live, (T + 1)..accepted)
    BY <2>2 DEF ExistsBijection
  <2>4. Cardinality((T + 1)..accepted) = Cardinality(live)
    BY <2>1, <2>3, FS_Bijection
  <2>5. T + 1 \in Int /\ accepted \in Int
    BY <1>3
  <2>6. Cardinality((T + 1)..accepted) = IF T + 1 > accepted THEN 0 ELSE accepted - (T + 1) + 1
    BY <2>5, FS_Interval
  <2> HIDE DEF T
  <2> QED BY <1>3, <2>4, <2>6
<1>8. IF T + 1 > accepted THEN front = NULL /\ back = NULL
      ELSE /\ front \in live /\ item[front] = T + 1
           /\ back \in live /\ item[back] = accepted
  BY <1>2 DEF SerialInv, EndsInv, At
<1>9. \A c \in live :
        IF item[c] = accepted THEN next[c] = NULL
        ELSE next[c] \in live /\ item[next[c]] = item[c] + 1
  BY <1>2, <1>3, <1>5 DEF SerialInv, LinksInv, At
<1>10. Waiting = {} <=> T + 1 > accepted
  <2>1. Waiting = (T + 1)..accepted
    BY DEF Waiting
  <2> HIDE DEF T
  <2> QED BY <1>3, <2>1
<1> QED BY <1>4, <1>6, <1>7, <1>8, <1>9, <1>10

\* The missing lock of handler.c:145 is the only way the queue is damaged.
THEOREM QueueStaysIntact == Spec => []QueueIntact
<1>1. IInv /\ QueueInv => QueueIntact
  BY SerialIntact DEF QueueInv, QueueIntact
<1> QED BY <1>1, Invariance, QueueInvariance, PTL

\* exit(EXIT_FAILURE) in steque_pop has one of two causes: an unlocked enqueue that
\* overlapped a pop, or another worker's pop between this worker's unlocked test and
\* its own pop (handler.c 81, 145).
THEOREM UnderflowCause == Spec => []UnderflowHasCause
<1>1. QueueInv => UnderflowHasCause
  BY DEF QueueInv
<1> QED BY <1>1, QueueInvariance, PTL
=============================================================================
