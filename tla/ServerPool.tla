----------------------------- MODULE ServerPool -----------------------------
(***************************************************************************)
(* The boss/worker server of pr1/mtgf: handler.c over steque.c.            *)
(*                                                                         *)
(* The boss thread (gfserver_serve calling handler_get) enqueues requests  *)
(* without a lock; every worker tests steque_isempty without a lock, and   *)
(* pops under reqlock.  The queue is therefore modelled at the level of    *)
(* the loads and stores that the -O0 build makes (Makefile:4): front,      *)
(* back, N and the nodes are memory, and each step below is at most one    *)
(* store to memory that another thread may be using.                       *)
(*                                                                         *)
(* gfserver.o, which accepts connections and sends bytes, is external: an  *)
(* accepted connection is a request number, in order of arrival.           *)
(***************************************************************************)
EXTENDS Integers, Sequences, FiniteSets

CONSTANTS
    Workers,      \* the threads threads_init creates (-t)
    Cells,        \* addresses malloc may return for a steque node
    NULL,
    NReq,         \* bound: number of connections the boss accepts
    FileSizes     \* sizes, in buffers of BUFFER_SIZE, of the files served

ASSUME CellsAssumption == /\ IsFiniteSet(Cells)
                          /\ Cardinality(Cells) >= NReq
ASSUME WorkersAssumption == IsFiniteSet(Workers)
ASSUME NullAssumption == NULL \notin Cells /\ NULL \notin Workers
ASSUME SizeAssumption == NReq \in Nat /\ FileSizes \subseteq Nat

VARIABLES
    front, back, N,          \* the steque_t
    item, next, live,        \* its nodes; live: allocated and not freed
    reqlock, filelock,       \* the holder, or NULL
    bpc, bnode, bN,          \* boss: control, `node', the register of N++
    accepted,                \* requests accepted; request r is the r-th
    pc, req, node, nxt, wN,  \* worker: control, popped request, pop's locals
    len, done,               \* worker: file_len, bytes_transferred (in buffers)
    status,                  \* how the process is, or how it ended
    out,                     \* what was sent on each connection
    taken,                   \* history: the requests popped, in order
    seen,                    \* history: PopsDone at the worker's last check
    overlapped               \* history: an enqueue and a pop have overlapped

struct   == <<front, back, N>>
memory   == <<item, next, live>>
boss     == <<bpc, bnode, bN, accepted>>
locals   == <<node, nxt, wN>>
transfer == <<len, done>>
locks    == <<reqlock, filelock>>
vars == <<struct, memory, locks, boss, pc, req, locals, transfer, status, out,
          taken, seen, overlapped>>

Requests == 1..NReq
BossPC   == {"accept", "test", "first", "link", "setback", "load", "store"}
PopPC    == {"empty?", "item", "unlinkload", "unlink", "last?", "clearback",
             "free", "load", "store"}
WorkerPC == {"check", "lock"} \cup PopPC \cup
            {"unlock", "open", "header", "filelock", "send", "fileunlock"}
Status   == {"running", "underflow", "fault", "ioerror"}

OkHeader(n) == [kind |-> "ok", n |-> n]
Missing     == [kind |-> "notfound", n |-> 0]
Chunk(k)    == [kind |-> "chunk", n |-> k]
Aborted     == [kind |-> "abort", n |-> 0]

InEnqueue == bpc # "accept"
InPop(w)  == pc[w] \in PopPC

\* main: threads_requeue_init, then the mutexes and the threads.
Init ==
    /\ front = NULL /\ back = NULL /\ N = 0
    /\ item = [c \in Cells |-> 0]
    /\ next = [c \in Cells |-> NULL]
    /\ live = {}
    /\ reqlock = NULL /\ filelock = NULL
    /\ bpc = "accept" /\ bnode = NULL /\ bN = 0 /\ accepted = 0
    /\ pc = [w \in Workers |-> "check"]
    /\ req = [w \in Workers |-> 0]
    /\ node = [w \in Workers |-> NULL]
    /\ nxt = [w \in Workers |-> NULL]
    /\ wN = [w \in Workers |-> 0]
    /\ len = [w \in Workers |-> 0]
    /\ done = [w \in Workers |-> 0]
    /\ status = "running"
    /\ out = [r \in Requests |-> <<>>]
    /\ taken = <<>>
    /\ seen = [w \in Workers |-> 0]
    /\ overlapped = FALSE

-----------------------------------------------------------------------------
(* The boss: handler_get and the steque_enqueue it calls, with no lock.    *)

NoWorker == UNCHANGED <<locks, pc, req, locals, transfer, out, taken, seen>>

HandlerGet ==
    /\ bpc = "accept" /\ accepted < NReq
    /\ \E c \in Cells \ live :
          /\ item' = [item EXCEPT ![c] = accepted + 1]
          /\ next' = [next EXCEPT ![c] = NULL]
          /\ live' = live \cup {c}
          /\ bnode' = c
    /\ accepted' = accepted + 1
    /\ bpc' = "test"
    /\ UNCHANGED <<struct, bN, status>> /\ NoWorker

EnqueueTest ==
    /\ bpc = "test"
    /\ bpc' = IF back = NULL THEN "first" ELSE "link"
    /\ UNCHANGED <<struct, memory, bnode, bN, accepted, status>> /\ NoWorker

EnqueueFirst ==
    /\ bpc = "first"
    /\ front' = bnode
    /\ bpc' = "setback"
    /\ UNCHANGED <<back, N, memory, bnode, bN, accepted, status>> /\ NoWorker

\* this->back is loaded again: a pop may have cleared it (null pointer) or
\* freed the node (the sanitized build stops, the other one stores into it).
EnqueueLink ==
    /\ bpc = "link"
    /\ \/ /\ back # NULL
          /\ next' = [next EXCEPT ![back] = bnode]
          /\ bpc' = "setback"
          /\ UNCHANGED status
       \/ /\ back \notin live
          /\ status' = "fault"
          /\ UNCHANGED <<next, bpc>>
    /\ UNCHANGED <<struct, item, live, bnode, bN, accepted>> /\ NoWorker

EnqueueSetBack ==
    /\ bpc = "setback"
    /\ back' = bnode
    /\ bpc' = "load"
    /\ UNCHANGED <<front, N, memory, bnode, bN, accepted, status>> /\ NoWorker

EnqueueLoadN ==
    /\ bpc = "load"
    /\ bN' = N
    /\ bpc' = "store"
    /\ UNCHANGED <<struct, memory, bnode, accepted, status>> /\ NoWorker

\* Mutant: steque_enqueue does not count the element.
EnqueueStoreSameN ==
    /\ bpc = "store"
    /\ N' = bN
    /\ bpc' = "accept"
    /\ UNCHANGED <<front, back, memory, bnode, bN, accepted, status>> /\ NoWorker

EnqueueStoreN ==
    /\ bpc = "store"
    /\ N' = bN + 1
    /\ bpc' = "accept"
    /\ UNCHANGED <<front, back, memory, bnode, bN, accepted, status>> /\ NoWorker

Boss == \/ HandlerGet \/ EnqueueTest \/ EnqueueFirst \/ EnqueueLink
        \/ EnqueueSetBack \/ EnqueueLoadN \/ EnqueueStoreN

-----------------------------------------------------------------------------
(* A worker, thd_callback: first the queue.                                *)

Goto(w, from, to) == pc[w] = from /\ pc' = [pc EXCEPT ![w] = to]

\* The pops that have decremented N: the last step of steque_pop.
PopsDone == Len(taken) -
    Cardinality({w \in Workers : pc[w] \in PopPC \ {"empty?", "item"}})

\* Mutant: the worker does not test whether the queue is empty.
CheckNothing(w) ==
    /\ Goto(w, "check", "lock")
    /\ seen' = [seen EXCEPT ![w] = PopsDone]
    /\ UNCHANGED <<struct, memory, locks, boss, req, locals, transfer, status,
                   out, taken>>

\* A spin with N = 0 changes nothing.
Check(w) ==
    /\ N # 0
    /\ Goto(w, "check", "lock")
    /\ seen' = [seen EXCEPT ![w] = PopsDone]
    /\ UNCHANGED <<struct, memory, locks, boss, req, locals, transfer, status,
                   out, taken>>

LockQueue(w) ==
    /\ reqlock = NULL
    /\ Goto(w, "lock", "empty?")
    /\ reqlock' = w
    /\ UNCHANGED <<struct, memory, filelock, boss, req, locals, transfer,
                   status, out, taken, seen>>

PopTest(w) ==
    /\ \/ /\ front # NULL
          /\ Goto(w, "empty?", "item")
          /\ UNCHANGED status
       \/ /\ front = NULL
          /\ pc[w] = "empty?"
          /\ status' = "underflow"
          /\ UNCHANGED pc
    /\ UNCHANGED <<struct, memory, locks, boss, req, locals, transfer, out,
                   taken, seen>>

\* Mutant: steque_pop returns the item at the back.
PopItemOfBack(w) ==
    /\ back # NULL
    /\ Goto(w, "item", "unlinkload")
    /\ node' = [node EXCEPT ![w] = front]
    /\ req' = [req EXCEPT ![w] = item[back]]
    /\ taken' = Append(taken, item[back])
    /\ UNCHANGED <<struct, memory, locks, boss, nxt, wN, transfer, status, out,
                   seen>>

PopItem(w) ==
    /\ Goto(w, "item", "unlinkload")
    /\ node' = [node EXCEPT ![w] = front]
    /\ req' = [req EXCEPT ![w] = item[front]]
    /\ taken' = Append(taken, item[front])
    /\ UNCHANGED <<struct, memory, locks, boss, nxt, wN, transfer, status, out,
                   seen>>

PopLoadNext(w) ==
    /\ Goto(w, "unlinkload", "unlink")
    /\ nxt' = [nxt EXCEPT ![w] = next[front]]
    /\ UNCHANGED <<struct, memory, locks, boss, req, node, wN, transfer,
                   status, out, taken, seen>>

PopUnlink(w) ==
    /\ Goto(w, "unlink", "last?")
    /\ front' = nxt[w]
    /\ UNCHANGED <<back, N, memory, locks, boss, req, locals, transfer, status,
                   out, taken, seen>>

PopLast(w) ==
    /\ \/ front = NULL /\ Goto(w, "last?", "clearback")
       \/ front # NULL /\ Goto(w, "last?", "free")
    /\ UNCHANGED <<struct, memory, locks, boss, req, locals, transfer, status,
                   out, taken, seen>>

PopClearBack(w) ==
    /\ Goto(w, "clearback", "free")
    /\ back' = NULL
    /\ UNCHANGED <<front, N, memory, locks, boss, req, locals, transfer,
                   status, out, taken, seen>>

PopFree(w) ==
    /\ Goto(w, "free", "load")
    /\ live' = live \ {node[w]}
    /\ UNCHANGED <<struct, item, next, locks, boss, req, locals, transfer,
                   status, out, taken, seen>>

PopLoadN(w) ==
    /\ Goto(w, "load", "store")
    /\ wN' = [wN EXCEPT ![w] = N]
    /\ UNCHANGED <<struct, memory, locks, boss, req, node, nxt, transfer,
                   status, out, taken, seen>>

\* Mutant: steque_pop does not count the element out.
PopStoreSameN(w) ==
    /\ Goto(w, "store", "unlock")
    /\ N' = wN[w]
    /\ UNCHANGED <<front, back, memory, locks, boss, req, locals, transfer,
                   status, out, taken, seen>>

PopStoreN(w) ==
    /\ Goto(w, "store", "unlock")
    /\ N' = wN[w] - 1
    /\ UNCHANGED <<front, back, memory, locks, boss, req, locals, transfer,
                   status, out, taken, seen>>

UnlockQueue(w) ==
    /\ Goto(w, "unlock", "open")
    /\ reqlock' = NULL
    /\ UNCHANGED <<struct, memory, filelock, boss, req, locals, transfer,
                   status, out, taken, seen>>

-----------------------------------------------------------------------------
(* Then the response.  NoQueue: nothing of the queue, its lock or the boss *)
(* changes.                                                                *)

NoQueue == UNCHANGED <<struct, memory, reqlock, boss, req, locals, taken, seen>>

Send(w, m) == out' = [out EXCEPT ![req[w]] = Append(@, m)]

\* Mutant: no continue after the not-found header; lseek(-1) returns -1.
OpenMissingGoesOn(w) ==
    /\ Goto(w, "open", "header")
    /\ Send(w, Missing)
    /\ len' = [len EXCEPT ![w] = -1]
    /\ UNCHANGED <<filelock, done, status>> /\ NoQueue

\* content_get fails (header, then continue) or yields the file; its size is
\* what lseek(fildes, 0, SEEK_END) returns.
OpenMissing(w) ==
    /\ Goto(w, "open", "check")
    /\ Send(w, Missing)
    /\ UNCHANGED <<filelock, transfer, status>> /\ NoQueue

OpenFile(w) ==
    /\ Goto(w, "open", "header")
    /\ \E n \in FileSizes : len' = [len EXCEPT ![w] = n]
    /\ UNCHANGED <<filelock, done, status, out>> /\ NoQueue

SendHeader(w) ==
    /\ Goto(w, "header", "filelock")
    /\ Send(w, OkHeader(len[w]))
    /\ UNCHANGED <<filelock, transfer, status>> /\ NoQueue

\* Mutant: the transfer starts without filelock.
LockFileNoWait(w) ==
    /\ Goto(w, "filelock", "send")
    /\ filelock' = w
    /\ done' = [done EXCEPT ![w] = 0]
    /\ UNCHANGED <<len, status, out>> /\ NoQueue

\* Mutant: bytes_transferred is not reset for the next file.
LockFileKeepsCount(w) ==
    /\ filelock = NULL
    /\ Goto(w, "filelock", "send")
    /\ filelock' = w
    /\ UNCHANGED <<done, len, status, out>> /\ NoQueue

LockFile(w) ==
    /\ filelock = NULL
    /\ Goto(w, "filelock", "send")
    /\ filelock' = w
    /\ done' = [done EXCEPT ![w] = 0]
    /\ UNCHANGED <<len, status, out>> /\ NoQueue

SendChunk(w) ==
    /\ pc[w] = "send" /\ done[w] < len[w]
    /\ Send(w, Chunk(done[w]))
    /\ done' = [done EXCEPT ![w] = @ + 1]
    /\ UNCHANGED <<filelock, pc, len, status>> /\ NoQueue

\* pread fails or meets the end early, or gfs_send is short: gfs_abort, exit.
SendFails(w) ==
    /\ pc[w] = "send" /\ done[w] < len[w]
    /\ Send(w, Aborted)
    /\ status' = "ioerror"
    /\ UNCHANGED <<filelock, pc, transfer>> /\ NoQueue

SendDone(w) ==
    /\ done[w] >= len[w]
    /\ Goto(w, "send", "fileunlock")
    /\ UNCHANGED <<filelock, transfer, status, out>> /\ NoQueue

\* Mutant: filelock is not released.
UnlockFileForgotten(w) ==
    /\ Goto(w, "fileunlock", "check")
    /\ UNCHANGED <<filelock, transfer, status, out>> /\ NoQueue

UnlockFile(w) ==
    /\ Goto(w, "fileunlock", "check")
    /\ filelock' = NULL
    /\ UNCHANGED <<transfer, status, out>> /\ NoQueue

Pop(w) == \/ PopTest(w) \/ PopItem(w) \/ PopLoadNext(w) \/ PopUnlink(w)
          \/ PopLast(w) \/ PopClearBack(w) \/ PopFree(w)
          \/ PopLoadN(w) \/ PopStoreN(w)

Respond(w) == \/ OpenMissing(w) \/ OpenFile(w) \/ SendHeader(w)
              \/ LockFile(w) \/ SendChunk(w) \/ SendFails(w)
              \/ SendDone(w) \/ UnlockFile(w)

Worker(w) == Check(w) \/ LockQueue(w) \/ Pop(w) \/ UnlockQueue(w) \/ Respond(w)

\* exit() and a fault end every thread.
Overlap ==
    overlapped' = \/ overlapped
                  \/ bpc' # "accept" /\ \E w \in Workers : pc'[w] \in PopPC

Next == /\ status = "running"
        /\ Boss \/ \E w \in Workers : Worker(w)
        /\ Overlap

Spec == Init /\ [][Next]_vars

\* Every thread the scheduler may run keeps running, and gfs_send returns.
\* Nothing makes clients connect.
FairSpec ==
    /\ Spec
    /\ WF_vars(Next /\ bpc # "accept" /\ Boss)
    /\ \A w \in Workers : WF_vars(Next /\ Worker(w))

-----------------------------------------------------------------------------
(* Properties.                                                             *)

Message == [kind : {"ok", "notfound", "chunk", "abort"}, n : Nat]

\* The type invariant: what each variable of handler.c and steque.c may hold.
StateTypeOK ==
    /\ front \in Cells \cup {NULL} /\ back \in Cells \cup {NULL} /\ N \in Int
    /\ item \in [Cells -> 0..NReq]
    /\ next \in [Cells -> Cells \cup {NULL}]
    /\ live \subseteq Cells
    /\ reqlock \in Workers \cup {NULL} /\ filelock \in Workers \cup {NULL}
    /\ bpc \in BossPC /\ bnode \in Cells \cup {NULL} /\ bN \in Int
    /\ accepted \in 0..NReq
    /\ pc \in [Workers -> WorkerPC]
    /\ req \in [Workers -> 0..NReq]
    /\ node \in [Workers -> Cells \cup {NULL}]
    /\ nxt \in [Workers -> Cells \cup {NULL}]
    /\ wN \in [Workers -> Int]
    /\ len \in [Workers -> Nat] /\ done \in [Workers -> Nat]
    /\ status \in Status
    /\ out \in [Requests -> Seq(Message)]
    /\ taken \in Seq(0..NReq)
    /\ seen \in [Workers -> Int]
TypeOK == StateTypeOK /\ overlapped \in BOOLEAN

\* No request is handed to two workers and none overtakes an earlier one
\* (steque_pop, handler.c:85), whatever the unlocked enqueue does to the list:
\* its races may lose requests, never repeat or reorder them.
ServedOnceInOrder ==
    /\ \A i, j \in DOMAIN taken : i < j => taken[i] < taken[j]
    /\ \A i \in DOMAIN taken : taken[i] \in 1..accepted

\* Why ServedOnceInOrder holds, as an inductive invariant.  Front is only ever
\* overwritten when it is null; while it is not null, back is the last request
\* enqueued and the nodes from front on are live and in order of arrival; the
\* requests that a race cuts off from front can never come back to it.
LastTaken == IF taken = <<>> THEN 0 ELSE taken[Len(taken)]
Placing   == bpc \in {"test", "first", "link"}    \* bnode is not yet linked

LockInv == \A w \in Workers : pc[w] \in PopPC \cup {"unlock"} <=> reqlock = w

FrontInv ==
    /\ front # NULL => back # NULL \/ bpc = "setback"
    /\ bpc = "first" => front = NULL
    /\ \A w \in Workers :
          /\ pc[w] \in {"item", "unlinkload", "unlink"} => front # NULL
          /\ pc[w] \in {"last?", "clearback"} => back # NULL \/ bpc = "setback"
          /\ pc[w] = "clearback" => front = NULL
          /\ pc[w] \in {"item", "unlinkload", "unlink", "last?", "clearback"}
                => bpc # "first"

NodeInv ==
    /\ \A c \in live : item[c] \in 1..accepted
    /\ \A c, d \in live : item[c] = item[d] => c = d
    /\ front # NULL => front \in live
    /\ bpc # "accept" => bnode \in Cells
    /\ Placing => /\ bnode \in live /\ item[bnode] = accepted
                  /\ front # bnode /\ LastTaken < accepted
    /\ bpc \in {"test", "first"} => next[bnode] = NULL

BackInv ==
    front # NULL =>
        IF bpc = "setback" THEN bnode \in live /\ item[bnode] = accepted
        ELSE back \in live /\ item[back] = (IF Placing THEN accepted - 1 ELSE accepted)

ChainInv ==
    front # NULL =>
        \A c \in live : (item[c] >= item[front] /\ next[c] # NULL) =>
            /\ next[c] \in live /\ item[next[c]] > item[c]
            /\ Placing => next[c] # bnode

PopInv ==
    /\ \A w \in Workers :
          /\ pc[w] \in {"unlinkload", "unlink"} =>
                node[w] = front /\ item[front] = LastTaken
          /\ pc[w] = "unlink" /\ nxt[w] # NULL =>
                /\ nxt[w] \in live /\ item[nxt[w]] > LastTaken
                /\ Placing => nxt[w] # bnode
          /\ pc[w] \in {"last?", "clearback", "free"} =>
                node[w] \in live /\ item[node[w]] = LastTaken
    /\ (front # NULL /\ \A w \in Workers : pc[w] \notin {"unlinkload", "unlink"})
          => item[front] > LastTaken

RaceInv == /\ LockInv /\ FrontInv /\ NodeInv /\ BackInv /\ ChainInv
           /\ PopInv /\ ServedOnceInOrder

\* Until an enqueue and a pop have overlapped, the list between two operations
\* is exactly the requests accepted and not popped, linked in order of arrival,
\* and N counts them: the missing lock of handler.c:145 is the only way the
\* queue is ever damaged.
Waiting == (Len(taken) + 1)..accepted
QueueIntact ==
    (~overlapped /\ ~InEnqueue /\ \A w \in Workers : ~InPop(w)) =>
        /\ N = accepted - Len(taken)
        /\ Cardinality(live) = N
        /\ {item[c] : c \in live} = Waiting
        /\ IF Waiting = {} THEN front = NULL /\ back = NULL
           ELSE /\ front \in live /\ item[front] = Len(taken) + 1
                /\ back \in live /\ item[back] = accepted
        /\ \A c \in live :
              IF item[c] = accepted THEN next[c] = NULL
              ELSE next[c] \in live /\ item[next[c]] = item[c] + 1

\* exit(EXIT_FAILURE) in steque_pop has one of two causes: an enqueue raced
\* with a pop, or another worker's pop decremented N after this worker's
\* unlocked steque_isempty (handler.c:81) had read it.
UnderflowHasCause ==
    status = "underflow" =>
        \/ overlapped
        \/ \E w \in Workers : pc[w] = "empty?" /\ seen[w] < Len(taken)

\* What a client receives is one response: a not-found header, or an OK header
\* followed by the buffers of the file in order, cut short only by an abort.
IsResponse(s) ==
    \/ s = <<>> \/ s = <<Missing>>
    \/ /\ s[1].kind = "ok"
       /\ Len(s) <= s[1].n + 1
       /\ \A i \in 2..Len(s) :
             s[i] = Chunk(i - 2) \/ (i = Len(s) /\ s[i] = Aborted)
Responses == \A r \in Requests : IsResponse(out[r])

\* filelock serialises transfers: a file that is partly sent belongs to the
\* worker that holds it, so at most one connection is in mid-transfer.
PartlySent(r) ==
    /\ Len(out[r]) > 1 /\ Len(out[r]) < out[r][1].n + 1
    /\ out[r][Len(out[r])] # Aborted
OneTransferAtATime ==
    \A r \in Requests : PartlySent(r) =>
        \E w \in Workers : filelock = w /\ req[w] = r /\ pc[w] = "send"

\* "does not deadlock" (Readme.md:461): when no thread can step, every worker
\* is spinning on an empty queue and the boss waits for a connection.
NoDeadlock ==
    (status = "running" /\ ~ENABLED Next) =>
        /\ \A w \in Workers : pc[w] = "check"
        /\ N = 0 /\ bpc = "accept" /\ reqlock = NULL /\ filelock = NULL

\* A request popped from the queue is answered completely, unless the process
\* ends: no worker starves its client for ever behind the two locks.
Answered(r) ==
    \/ out[r] = <<Missing>>
    \/ out[r] # <<>> /\ Len(out[r]) = out[r][1].n + 1
TakenIsAnswered ==
    \A r \in Requests :
        (\E i \in DOMAIN taken : taken[i] = r) ~> (Answered(r) \/ status # "running")

\* A request whose enqueue is complete is popped, unless an enqueue raced with
\* a pop or the process ended: busy waiting misses no wakeup.
AcceptedIsTaken ==
    \A r \in Requests :
        accepted >= r ~> \/ \E i \in DOMAIN taken : taken[i] = r
                        \/ overlapped \/ status # "running"

\* readme-student.md:26: "aquire request from queue both should set lock to
\* avoid race condition"; refuted by the unlocked enqueue of handler.c:145:
\* a request whose enqueue is complete is neither popped nor reachable.
NoRequestLost ==
    (status = "running" /\ ~InEnqueue /\ \A w \in Workers : ~InPop(w)) =>
        (front = NULL => \A r \in 1..accepted : \E i \in DOMAIN taken : taken[i] = r)
=============================================================================
