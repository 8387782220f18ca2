---------------------------------- MODULE Pair ---------------------------------
(***************************************************************************)
(* What the client/server pairs have in common: a server, some clients and *)
(* their connections, as the programs see them through the socket calls    *)
(* (external).  An end of a connection has a state and out, what it has    *)
(* written and the other end has not yet read.  A connection waits as      *)
(* "queued" until the server accepts it.                                   *)
(***************************************************************************)
EXTENDS Integers, Sequences, SequencesExt

CONSTANT Clients

VARIABLES listening,    \* the server's socket accepts connections
          conn,         \* the connection of each client
          spc, sdata,   \* control and data of the server
          cpc, cdata,   \* control and data of each client
          causes        \* history: what went wrong for each client

server == <<listening, spc, sdata>>
vars   == <<conn, server, cpc, cdata, causes>>

Peer(s) == IF s = "client" THEN "server" ELSE "client"
None    == [state |-> "none", out |-> <<>>]

PairInit(sd, cd) ==
  /\ listening = FALSE /\ conn = [c \in Clients |-> [client |-> None, server |-> None]]
  /\ spc = "start" /\ sdata = sd
  /\ cpc = [c \in Clients |-> "start"] /\ cdata = cd
  /\ causes = [c \in Clients |-> {}]

Client(c, from, to) == cpc[c] = from /\ cpc' = [cpc EXCEPT ![c] = to] /\ UNCHANGED server
Server(from, to)    == spc = from /\ spc' = to /\ UNCHANGED <<cpc, cdata>>
Blame(cs, why) == causes' = [c \in Clients |-> IF c \in cs THEN causes[c] \union {why} ELSE causes[c]]
Least(a, b)    == IF a <= b THEN a ELSE b

\* Strings in buffers: a read fills a buffer from its start, the string in it
\* ends before the first NUL.
Overlaid(b, data) == [i \in DOMAIN b |-> IF i <= Len(data) THEN data[i] ELSE b[i]]
String(b)         == SubSeq(b, 1, SelectInSeq(b, LAMBDA x : x = "nul") - 1)
Stored(b, text)   == Overlaid(b, Append(text, "nul"))

Connected(c) == [conn EXCEPT ![c] = [client |-> [None EXCEPT !.state = "open"],
                                     server |-> [None EXCEPT !.state = "queued"]]]
Queued(c)    == conn[c].server.state = "queued"
Accepted(c)  == [conn EXCEPT ![c].server.state = "open"]

Waiting      == {c \in Clients : Queued(c)}
Served       == {c \in Clients : conn[c].server.state \in {"open", "reset"}}

CanWrite(c, s) == conn[c][s].state = "open"
Unread(c, s)   == conn[c][Peer(s)].out
Received(c, s, most) == {SubSeq(Unread(c, s), 1, n) : n \in 1..Least(most, Len(Unread(c, s)))}
\* A read returns what has come so far, the end of the stream or an error.
AtEnd(c, s)    == Unread(c, s) = <<>> /\ conn[c][Peer(s)].state = "closed" /\ CanWrite(c, s)
Failed(c, s)   == Unread(c, s) = <<>> /\ conn[c][s].state = "reset"

\* The write to a closed end succeeds, and is answered with a reset.
Written(c, s, data) ==
  IF conn[c][Peer(s)].state \in {"open", "queued"} \/ data = <<>>
  THEN [conn EXCEPT ![c][s].out = @ \o data]
  ELSE [conn EXCEPT ![c][s].state = "reset"]
Read(c, s, data) == [conn EXCEPT ![c][Peer(s)].out = SubSeq(@, Len(data) + 1, Len(@))]

\* An end that closes, or dies, with data unread resets the connection, and
\* what it wrote itself may not arrive.
Reset(k, s) ==
  {[k EXCEPT ![s] = [state |-> "closed", out |-> p],
             ![Peer(s)] = [state |-> IF @.state = "closed" THEN "closed" ELSE "reset",
                           out   |-> <<>>]] : p \in Prefixes(k[s].out)}
Closed(k, s) ==
  IF k[s].state \in {"none", "closed"} THEN {k}
  ELSE IF k[s].state = "queued" \/ k[Peer(s)].out # <<>> THEN Reset(k, s)
  ELSE {[k EXCEPT ![s].state = "closed"]}

Close(c, s) == \E k \in Closed(conn[c], s) : conn' = [conn EXCEPT ![c] = k]

\* The server closes all it has, its listening socket too: the connections it
\* has not accepted are reset, and the clients in cut get no more.
CloseAll(cut) ==
  /\ listening' = FALSE /\ Blame(Waiting \union cut, "server")
  /\ \E k \in [Clients -> UNION {Closed(conn[c], "server") : c \in Clients}] :
       (\A c \in Clients : k[c] \in Closed(conn[c], "server")) /\ conn' = k

\* The network fails an open connection: what was on its way may not arrive.
NetworkFails(c) ==
  /\ {conn[c].client.state, conn[c].server.state} = {"open"}
  /\ \E p \in Prefixes(Unread(c, "server")), q \in Prefixes(Unread(c, "client")) :
       conn' = [conn EXCEPT ![c] = [client |-> [state |-> "reset", out |-> p],
                                    server |-> [state |-> "reset", out |-> q]]]
  /\ Blame({c}, "network") /\ UNCHANGED <<server, cpc, cdata>>
=============================================================================
