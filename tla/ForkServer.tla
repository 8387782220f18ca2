------------------------------ MODULE ForkServer ------------------------------
(***************************************************************************)
(* pr1/gflib/copy: the draft of the getfile server that forks for each     *)
(* connection, with the handler of gflib, and the draft of its client.     *)
(* The child of a connection never exits: it goes on accepting.  Nobody    *)
(* closes a socket of a connection.                                        *)
(***************************************************************************)
EXTENDS Integers, FiniteSets, SequencesExt

CONSTANTS Clients,
          Blocks,      \* chunks of the file served
          Room,        \* pieces a socket buffer holds
          MaxLimit     \* bound: connections a process can hold open

ASSUME SizeAssumption == Blocks \in Nat /\ Room \in Nat \ {0} /\ MaxLimit \in Nat

VARIABLES limit,       \* the connections a process can hold open
          found,       \* the uninitialized filePath names a file
          procs,       \* the processes: procs[1] is the first
          conn,        \* the connection of each client
          cpc, got,    \* control of each client; history: what it has received
          pending,     \* what it has still to write back
          unserved     \* history: whose child was not forked, or died

fixed == <<limit, found>>
vars  == <<fixed, procs, conn, cpc, got, pending, unserved>>

\* The header, and the chunks when there is a file.
Response == [i \in 1..(IF found THEN Blocks + 1 ELSE 1) |-> i]
NoConn   == [state |-> "none", up |-> 0, down |-> <<>>, shut |-> FALSE]

Init == /\ limit \in 1..MaxLimit /\ found \in BOOLEAN
        /\ procs = <<[pc |-> "start", sock |-> "none", open |-> {}, left |-> <<>>]>>
        /\ conn = [c \in Clients |-> NoConn]
        /\ cpc = [c \in Clients |-> "start"] /\ got = [c \in Clients |-> <<>>]
        /\ pending = [c \in Clients |-> 0] /\ unserved = {}

-----------------------------------------------------------------------------
(* The processes of the server.                                            *)

Goto(p, from, to) == procs[p].pc = from /\ procs' = [procs EXCEPT ![p].pc = to]
Ended(c)   == cpc[c] \in {"done", "failed", "killed"}
clients == <<cpc, got, pending>>

\* getaddrinfo, socket, setsockopt, bind or listen fails: exit(1).
Listen(p)      == Goto(p, "start", "accept") /\ UNCHANGED <<fixed, conn, clients, unserved>>
CannotListen(p) == Goto(p, "start", "dead") /\ UNCHANGED <<fixed, conn, clients, unserved>>

\* Mutant: one descriptor is left when accept fails.
AcceptOne(p, c) ==
  /\ procs[p].pc = "accept" /\ conn[c].state = "queued"
  /\ Cardinality(procs[p].open) <= limit
  /\ procs' = [procs EXCEPT ![p] = [@ EXCEPT !.pc = "fork", !.sock = c,
                                            !.open = procs[p].open \union {c}]]
  /\ conn' = [conn EXCEPT ![c].state = "accepted"]
  /\ UNCHANGED <<fixed, clients, unserved>>
\* With all descriptors in use accept fails, and is called again.
Accept(p, c) ==
  /\ procs[p].pc = "accept" /\ conn[c].state = "queued"
  /\ Cardinality(procs[p].open) < limit
  /\ procs' = [procs EXCEPT ![p] = [@ EXCEPT !.pc = "fork", !.sock = c,
                                            !.open = procs[p].open \union {c}]]
  /\ conn' = [conn EXCEPT ![c].state = "accepted"]
  /\ UNCHANGED <<fixed, clients, unserved>>

\* Mutant: the parent serves the connection as well.
ForkBoth(p) ==
  /\ procs[p].pc = "fork"
  /\ procs' = Append([procs EXCEPT ![p].pc = "recv"], [procs[p] EXCEPT !.pc = "recv"])
  /\ UNCHANGED <<fixed, conn, clients, unserved>>
\* The child has a copy of all that its parent has, hSocket and descriptors.
Fork(p) ==
  /\ procs[p].pc = "fork"
  /\ procs' = Append([procs EXCEPT ![p].pc = "accept"], [procs[p] EXCEPT !.pc = "recv"])
  /\ UNCHANGED <<fixed, conn, clients, unserved>>
ForkFails(p) == /\ Goto(p, "fork", "accept")
                /\ unserved' = unserved \union {procs[p].sock} /\ UNCHANGED <<fixed, conn, clients>>

\* The request is received in part and ignored; the handler's first act
\* settles what is to be sent.
Recv(p) ==
  LET c == procs[p].sock IN
  /\ procs[p].pc = "recv" /\ (conn[c].up > 0 \/ Ended(c))
  /\ procs' = [procs EXCEPT ![p] = [@ EXCEPT !.pc = "send", !.left = Response]]
  /\ \E n \in 0..conn[c].up : (n > 0 \/ Ended(c)) /\ conn' = [conn EXCEPT ![c].up = @ - n]
  /\ UNCHANGED <<fixed, clients, unserved>>
\* recv, pread or send fails: exit(1).
Dies(p) ==
  /\ procs[p].pc \in {"recv", "send"} /\ (procs[p].pc = "send" => procs[p].left # <<>>)
  /\ procs' = [procs EXCEPT ![p] = [@ EXCEPT !.pc = "dead", !.open = {}]]
  /\ unserved' = unserved \union {procs[p].sock} /\ UNCHANGED <<fixed, conn, clients>>
\* send blocks while the socket buffer is full; what is sent to a client that
\* has ended goes nowhere.  (A send that fails after a partial one is not noticed,
\* n < 0 never holding of a size_t, and a byte is sent again: that takes a network
\* that fails, which is left out.)
Send(p) ==
  LET c == procs[p].sock IN
  /\ procs[p].pc = "send" /\ procs[p].left # <<>>
  /\ procs' = [procs EXCEPT ![p].left = Tail(@)]
  /\ IF Ended(c) THEN UNCHANGED conn
     ELSE /\ Len(conn[c].down) < Room
          /\ conn' = [conn EXCEPT ![c].down = Append(@, Head(procs[p].left))]
  /\ UNCHANGED <<fixed, clients, unserved>>
\* Mutant: the child takes the next connection without shutdown.
ShutdownForgotten(p) ==
  /\ procs[p].left = <<>> /\ Goto(p, "send", "accept")
  /\ UNCHANGED <<fixed, conn, clients, unserved>>
\* The child sends the end of the stream, and accepts.
Shutdown(p) ==
  /\ procs[p].left = <<>> /\ Goto(p, "send", "accept")
  /\ conn' = [conn EXCEPT ![procs[p].sock].shut = TRUE] /\ UNCHANGED <<fixed, clients, unserved>>

-----------------------------------------------------------------------------
(* The client.                                                             *)

Client(c, from, to) == /\ cpc[c] = from /\ cpc' = [cpc EXCEPT ![c] = to]
                       /\ UNCHANGED <<fixed, procs, unserved>>
\* The stream ends by shutdown, or when no process holds the connection.
AtEnd(c) == /\ conn[c].down = <<>>
            /\ conn[c].shut \/ (conn[c].state = "accepted" /\ \A p \in DOMAIN procs : c \notin procs[p].open)

Connect(c) == /\ procs[1].pc \notin {"start", "dead"} /\ Client(c, "start", "request")
              /\ conn' = [conn EXCEPT ![c].state = "queued"] /\ UNCHANGED <<got, pending>>
CannotConnect(c) == Client(c, "start", "failed") /\ UNCHANGED <<conn, got, pending>>
SendRequest(c)   == /\ Client(c, "request", "first")
                    /\ conn' = [conn EXCEPT ![c].up = 1] /\ UNCHANGED <<got, pending>>

Take(c, n) == /\ conn' = [conn EXCEPT ![c].down = SubSeq(@, n + 1, Len(@))]
              /\ got' = [got EXCEPT ![c] = @ \o SubSeq(conn[c].down, 1, n)]
\* What the first recv returns is dropped.
RecvFirst(c) == /\ Client(c, "first", "loop") /\ UNCHANGED pending
                /\ \/ \E n \in 1..Len(conn[c].down) : Take(c, n)
                   \/ AtEnd(c) /\ UNCHANGED <<conn, got>>
\* What the others return is written back into the socket.
RecvLoop(c) == /\ Client(c, "loop", "write")
               /\ \E n \in 1..Len(conn[c].down) :
                    Take(c, n) /\ pending' = [pending EXCEPT ![c] = n]
WriteBack(c) == /\ Client(c, "write", IF pending[c] = 1 THEN "loop" ELSE "write")
                /\ conn[c].up < Room /\ conn' = [conn EXCEPT ![c].up = @ + 1]
                /\ pending' = [pending EXCEPT ![c] = @ - 1] /\ UNCHANGED got
RecvEnd(c) == /\ Client(c, "loop", "done") /\ AtEnd(c) /\ UNCHANGED <<conn, got, pending>>
Killed(c)  == /\ \E from \in {"request", "first", "loop", "write"} : Client(c, from, "killed")
              /\ UNCHANGED <<conn, got, pending>>

Process(p) == /\ p \in DOMAIN procs
              /\ \/ Listen(p) \/ CannotListen(p) \/ Fork(p) \/ ForkFails(p)
                 \/ Recv(p) \/ Dies(p) \/ Send(p) \/ Shutdown(p)
                 \/ \E c \in Clients : Accept(p, c)
ClientStep(c) == \/ Connect(c) \/ CannotConnect(c) \/ SendRequest(c)
                 \/ RecvFirst(c) \/ RecvLoop(c) \/ WriteBack(c) \/ RecvEnd(c)
Next == (\E p \in DOMAIN procs : Process(p)) \/ \E c \in Clients : ClientStep(c) \/ Killed(c)

\* A process is forked for each client at most.
Spec == /\ Init /\ [][Next]_vars
        /\ \A p \in 1..(Cardinality(Clients) + 1) : WF_vars(Process(p))
        /\ \A c \in Clients : WF_vars(ClientStep(c))

-----------------------------------------------------------------------------
(* Properties.                                                             *)

\* The processes and connections are well formed: descriptors are of accepted
\* connections and within the limit, and a process holds the one it serves.
Accepted  == {c \in Clients : conn[c].state = "accepted"}
ProcOK(p) == /\ procs[p].pc \in {"start", "accept", "fork", "recv", "send", "dead"}
             /\ procs[p].open \subseteq Accepted /\ Cardinality(procs[p].open) <= limit
             /\ procs[p].pc \in {"fork", "recv", "send"} => procs[p].sock \in procs[p].open
             /\ procs[p].left # <<>> => procs[p].pc \in {"send", "dead"}
TypeOK    == /\ \A p \in DOMAIN procs : ProcOK(p)
             /\ \A c \in Clients : conn[c].up \in 0..Room /\ Len(conn[c].down) <= Room

\* A client receives the response to it once and in order, whichever process
\* serves it: hSocket is in the memory of each (gfserver.c 170, 180).
ResponseOnce ==
  \A c \in Clients : IsPrefix(got[c] \o conn[c].down, Response)

\* Descriptors are never closed, and a child has its parent's.  A process with
\* n free ones, and its children, can accept as many connections as n descriptors
\* have non-empty sets, its Places; all processes together never accept more than
\* 2^limit - 1 (gfserver.c 170).
Free(p)    == {n \in 1..limit : n > Cardinality(procs[p].open)}
Holders(p) == CASE procs[p].pc = "dead" -> {} [] procs[p].pc = "fork" -> {"parent", "child"}
                [] OTHER -> {"parent"}
Places     == UNION {{p} \X Holders(p) \X ((SUBSET Free(p)) \ {{}}) : p \in DOMAIN procs}
Capacity   == Cardinality(Accepted) + Cardinality(Places) < 2 ^ limit

\* The descriptors of each process, and of all together.
Descriptors == TypeOK /\ Capacity

\* Its writes fill the socket that nobody reads again.
Jammed(c) == cpc[c] = "write" /\ conn[c].up = Room
Stuck(p)  == \/ procs[p].pc = "dead" \/ Cardinality(procs[p].open) = limit
             \/ procs[p].pc = "send" /\ Jammed(procs[p].sock)

\* A client that has connected ends, unless it is jammed, its child was not
\* forked or died, or every process that could accept it is stuck.
HangHasCause ==
  \A c \in Clients :
    cpc[c] = "request" ~> \/ Ended(c) \/ Jammed(c) \/ c \in unserved
                          \/ conn[c].state = "queued" /\ \A p \in DOMAIN procs : Stuck(p)
=============================================================================
