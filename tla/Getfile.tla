------------------------------ MODULE Getfile ------------------------------
(***************************************************************************)
(* The Getfile protocol of pr1/gflib: the clients' gfc_perform against the *)
(* sequential server gfserver_serve and its handler.                       *)
(*                                                                         *)
(* A connection carries one response, a sequence of tokens.  TCP keeps     *)
(* their order and delivers them in pieces: a recv returns any non-empty   *)
(* part of what has been written and not yet received.  A token is a piece *)
(* of the header that the client's parser takes as a whole (cutting inside *)
(* it is, for the parser, cutting before it) or one byte of the file.      *)
(* A connect, the send after it and the request it carries are one step.   *)
(***************************************************************************)
EXTENDS Integers, Sequences, FiniteSetsExt

CONSTANTS
    Clients,      \* processes, each calling gfc_perform once
    Paths,        \* what a client may ask for
    BadPaths,     \* those that do not begin with a slash
    Files,        \* what content_get finds: path to sequence of bytes
    OpenLimits,   \* descriptors the server process may have for connections
    NULL

ASSUME PathAssumption ==
    /\ BadPaths \subseteq Paths /\ DOMAIN Files \subseteq Paths \ BadPaths
    /\ NULL \notin Paths \cup Clients
ASSUME FilesAssumption ==
    \A p \in DOMAIN Files : Files[p] \in Seq({Files[p][i] : i \in DOMAIN Files[p]})
ASSUME OpenAssumption == OpenLimits \subseteq Nat

VARIABLES
    backlog,      \* connections not yet accepted, oldest first
    wire,         \* per connection: the tokens the server has written
    closed,       \* connections that the server has closed
    opened,       \* connections that the server has accepted
    spc, conn,    \* server: control, sockconn
    parsed,       \* server: the path in readData, which is never cleared
    sent,         \* server: bytes_transferred
    cpc, path,    \* client: control, gfr->path
    got,          \* client: tokens received
    headercheck, filelen, status, ret, file,
    limit,        \* how many connections the server process can have open
    served,       \* history: the path whose file the server opened for it
    split,        \* history: its request was cut in two
    clean         \* history: a recv ended exactly where the header does

server == <<spc, conn, parsed, sent>>
client == <<cpc, path, got, headercheck, filelen, status, ret, file, clean>>
net    == <<backlog, wire, closed, opened>>
vars   == <<net, server, client, limit, served, split>>

NotFound == <<"GETFILE", "FILE_NOT_FOUND">>
OkHeader == <<"GETFILE", "OK", "length", "\r", "\n", "\r", "\n">>

Init ==
    /\ backlog = <<>> /\ closed = {} /\ opened = {}
    /\ wire = [c \in Clients |-> <<>>]
    /\ spc = "accept" /\ conn = NULL /\ parsed = NULL /\ sent = 0
    /\ limit \in OpenLimits
    /\ cpc = [c \in Clients |-> "start"]
    /\ path \in [Clients -> Paths]
    /\ got = [c \in Clients |-> 0]
    /\ headercheck = [c \in Clients |-> FALSE]
    /\ filelen = [c \in Clients |-> 0]
    /\ status = [c \in Clients |-> "FILE_NOT_FOUND"]
    /\ ret = [c \in Clients |-> 0]
    /\ file = [c \in Clients |-> <<>>]
    /\ served = [c \in Clients |-> NULL]
    /\ split = [c \in Clients |-> FALSE]
    /\ clean = [c \in Clients |-> FALSE]

-----------------------------------------------------------------------------
(* The server.                                                             *)

NoClient == UNCHANGED <<client, limit>>

\* accept fails when the process is out of descriptors, before any connection
\* waits: error() exits, and the kernel closes every connection.
AcceptFails ==
    /\ spc = "accept"
    /\ Cardinality(opened \ closed) >= limit
    /\ spc' = "dead"
    /\ closed' = Clients
    /\ UNCHANGED <<backlog, wire, opened, conn, parsed, sent, served, split>> /\ NoClient

Accept ==
    /\ spc = "accept" /\ backlog # <<>>
    /\ Cardinality(opened \ closed) < limit
    /\ conn' = Head(backlog)
    /\ backlog' = Tail(backlog)
    /\ opened' = opened \cup {conn'}
    /\ spc' = "recv"
    /\ UNCHANGED <<wire, closed, parsed, sent, served, split>> /\ NoClient

\* Mutant: the path of the first request stays in readData for the next ones.
RecvKeepsFirst ==
    /\ spc = "recv"
    /\ parsed' = IF parsed = NULL THEN path[conn] ELSE parsed
    /\ spc' = "handle"
    /\ UNCHANGED <<backlog, wire, closed, opened, conn, sent, served, split>> /\ NoClient

\* One recv, then strtok.  It may return less than the request: the path that
\* strtok then finds is the one an earlier request left in readData, or a null
\* pointer that is dereferenced before it is tested.  (A cut inside the path,
\* which mixes two paths, is left out.)
Recv ==
    /\ spc = "recv"
    /\ \/ /\ parsed' = path[conn]
          /\ spc' = "handle"
          /\ UNCHANGED <<split, closed>>
       \/ /\ split' = [split EXCEPT ![conn] = TRUE]
          /\ parsed # NULL /\ spc' = "handle"
          /\ UNCHANGED <<parsed, closed>>
       \/ /\ split' = [split EXCEPT ![conn] = TRUE]
          /\ spc' = "dead" /\ closed' = Clients
          /\ UNCHANGED parsed
    /\ UNCHANGED <<backlog, wire, opened, conn, sent, served>> /\ NoClient

\* A malformed request is answered, and the connection left open.
Refuse ==
    /\ spc = "handle" /\ parsed \in BadPaths
    /\ wire' = [wire EXCEPT ![conn] = NotFound]
    /\ spc' = "accept"
    /\ UNCHANGED <<backlog, closed, opened, conn, parsed, sent, served, split>> /\ NoClient

\* Mutant: gfs_sendheader closes before it writes.
HandlerMissingSilent ==
    /\ spc = "handle" /\ parsed \notin BadPaths /\ parsed \notin DOMAIN Files
    /\ closed' = closed \cup {conn}
    /\ spc' = "accept"
    /\ UNCHANGED <<backlog, wire, opened, conn, parsed, sent, served, split>> /\ NoClient

\* handler_get: gfs_sendheader closes after anything but GF_OK.
HandlerMissing ==
    /\ spc = "handle" /\ parsed \notin BadPaths /\ parsed \notin DOMAIN Files
    /\ wire' = [wire EXCEPT ![conn] = NotFound]
    /\ closed' = closed \cup {conn}
    /\ spc' = "accept"
    /\ UNCHANGED <<backlog, opened, conn, parsed, sent, served, split>> /\ NoClient

HandlerFound ==
    /\ spc = "handle" /\ parsed \in DOMAIN Files
    /\ wire' = [wire EXCEPT ![conn] = OkHeader]
    /\ served' = [served EXCEPT ![conn] = parsed]
    /\ sent' = 0
    /\ spc' = "send"
    /\ UNCHANGED <<backlog, closed, opened, conn, parsed, split>> /\ NoClient

\* Mutant: pread reads at offset zero every time.
SendSameByte ==
    /\ spc = "send" /\ sent < Len(Files[parsed])
    /\ wire' = [wire EXCEPT ![conn] = Append(@, Files[parsed][1])]
    /\ sent' = sent + 1
    /\ UNCHANGED <<backlog, closed, opened, spc, conn, parsed, served, split>> /\ NoClient

\* pread and gfs_send, one byte at a time.
Send ==
    /\ spc = "send" /\ sent < Len(Files[parsed])
    /\ wire' = [wire EXCEPT ![conn] = Append(@, Files[parsed][sent + 1])]
    /\ sent' = sent + 1
    /\ UNCHANGED <<backlog, closed, opened, spc, conn, parsed, served, split>> /\ NoClient

\* Writing to a connection that its client has closed raises SIGPIPE.
SendKilled ==
    /\ spc = "send" /\ sent < Len(Files[parsed])
    /\ cpc[conn] = "returned" /\ status[conn] = "OK"
    /\ spc' = "dead"
    /\ closed' = Clients
    /\ UNCHANGED <<backlog, wire, opened, conn, parsed, sent, served, split>> /\ NoClient

\* Mutant: the handler gives up without gfs_abort.
SendFailsOpen ==
    /\ spc = "send" /\ sent < Len(Files[parsed])
    /\ spc' = "accept"
    /\ UNCHANGED <<net, conn, parsed, sent, served, split>> /\ NoClient

\* pread fails or the file has shrunk: gfs_abort closes, the server goes on.
SendFails ==
    /\ spc = "send" /\ sent < Len(Files[parsed])
    /\ closed' = closed \cup {conn}
    /\ spc' = "accept"
    /\ UNCHANGED <<backlog, wire, opened, conn, parsed, sent, served, split>> /\ NoClient

\* The handler returns; nothing closes the connection.
SendDone ==
    /\ spc = "send" /\ sent >= Len(Files[parsed])
    /\ spc' = "accept"
    /\ UNCHANGED <<net, conn, parsed, sent, served, split>> /\ NoClient

Handle == Refuse \/ HandlerMissing \/ HandlerFound
Server == AcceptFails \/ Accept \/ Recv \/ Handle
          \/ Send \/ SendKilled \/ SendFails \/ SendDone

-----------------------------------------------------------------------------
(* A client.                                                               *)

NoServer == UNCHANGED <<server, wire, closed, opened, limit, served, split>>

Connect(c) ==
    /\ cpc[c] = "start"
    /\ IF spc = "dead"
       THEN cpc' = [cpc EXCEPT ![c] = "exited"] /\ UNCHANGED backlog
       ELSE cpc' = [cpc EXCEPT ![c] = "recv"] /\ backlog' = Append(backlog, c)
    /\ UNCHANGED <<path, got, headercheck, filelen, status, ret, file, clean>>
    /\ NoServer

Return(c, r) == /\ cpc' = [cpc EXCEPT ![c] = "returned"]
                /\ ret' = [ret EXCEPT ![c] = r]
Continue     == UNCHANGED <<cpc, ret>>

Available(c) == 1..(Len(wire[c]) - got[c])

\* What strtok(NULL, "\n") finds of the body after the header: the first line
\* that is not empty, up to a line feed or a zero byte.
FirstLine(s) ==
    LET first == Min({i \in 1..Len(s) : s[i] # "\n"} \cup {Len(s) + 1})
        end   == Min({i \in first..Len(s) : s[i] \in {"\n", "NUL"}} \cup {Len(s) + 1})
    IN  SubSeq(s, first, end - 1)

\* What the parser makes of all that was received: the header is taken as
\* complete at the first carriage return, and what comes in later pieces goes
\* to the file.
Parse(c, full) ==
    LET line == FirstLine(SubSeq(full, Len(OkHeader) + 1, Len(full)))
        size == Len(Files[served[c]])
    IN  \/ /\ Len(full) < 2
           /\ Continue
           /\ UNCHANGED <<headercheck, filelen, status, file, clean>>
        \/ /\ Len(full) >= 2 /\ full[2] = "FILE_NOT_FOUND"
           /\ status' = [status EXCEPT ![c] = "FILE_NOT_FOUND"]
           /\ Return(c, 0)
           /\ UNCHANGED <<headercheck, filelen, file, clean>>
        \/ /\ Len(full) \in {2, 3} /\ full[2] = "OK"
           /\ status' = [status EXCEPT ![c] = "OK"]
           /\ Continue
           /\ UNCHANGED <<headercheck, filelen, file, clean>>
        \/ /\ Len(full) >= 4 /\ full[2] = "OK"
           /\ status' = [status EXCEPT ![c] = "OK"]
           /\ headercheck' = [headercheck EXCEPT ![c] = TRUE]
           /\ filelen' = [filelen EXCEPT ![c] = size]
           /\ file' = [file EXCEPT ![c] = line]
           /\ clean' = [clean EXCEPT ![c] = (Len(full) = Len(OkHeader))]
           /\ IF line # <<>> /\ Len(line) = size THEN Return(c, 0) ELSE Continue

\* A recv while the header is incomplete.
RecvHeader(c) ==
    /\ cpc[c] = "recv" /\ ~headercheck[c]
    /\ \E k \in Available(c) :
          /\ got' = [got EXCEPT ![c] = @ + k]
          /\ Parse(c, SubSeq(wire[c], 1, got[c] + k))
    /\ UNCHANGED <<path, backlog>> /\ NoServer

RecvBody(c) ==
    /\ cpc[c] = "recv" /\ headercheck[c]
    /\ \E k \in Available(c) :
          LET more == file[c] \o SubSeq(wire[c], got[c] + 1, got[c] + k)
          IN  /\ got' = [got EXCEPT ![c] = @ + k]
              /\ file' = [file EXCEPT ![c] = more]
              /\ IF Len(more) = filelen[c] THEN Return(c, 0) ELSE Continue
    /\ UNCHANGED <<path, headercheck, filelen, status, clean, backlog>> /\ NoServer

\* recv returns 0.  The second word received is compared with OK even if there
\* is none: the process faults on a null pointer.
RecvEnd(c) ==
    /\ cpc[c] = "recv" /\ c \in opened \cap closed /\ got[c] = Len(wire[c])
    /\ \/ /\ got[c] >= 2
          /\ Return(c, -1)
          /\ filelen' = IF got[c] >= 3 THEN [filelen EXCEPT ![c] = Len(Files[served[c]])]
                        ELSE filelen
       \/ /\ got[c] < 2
          /\ cpc' = [cpc EXCEPT ![c] = "fault"]
          /\ UNCHANGED <<ret, filelen>>
    /\ UNCHANGED <<path, got, headercheck, status, file, clean, backlog>> /\ NoServer

\* recv fails: the connection of a server that has died may be reset, and so is one
\* that was closed with the rest of its request unread.
RecvReset(c) ==
    /\ cpc[c] = "recv"
    /\ spc = "dead" \/ (c \in opened \cap closed /\ split[c])
    /\ Return(c, -1)
    /\ UNCHANGED <<path, got, headercheck, filelen, status, file, clean, backlog>>
    /\ NoServer

Receive(c) == RecvHeader(c) \/ RecvBody(c) \/ RecvEnd(c) \/ RecvReset(c)

Next == Server \/ \E c \in Clients : Connect(c) \/ Receive(c)

Spec == Init /\ [][Next]_vars

-----------------------------------------------------------------------------
(* Properties.                                                             *)

Content(c) == Files[served[c]]
Misread(c) == headercheck[c] /\ ~clean[c]    \* the header was cut, or came with more
Succeeded(c) == cpc[c] = "returned" /\ ret[c] = 0 /\ status[c] = "OK"

\* The type invariant.
TypeOK ==
    /\ backlog \in Seq(Clients) /\ closed \subseteq Clients /\ opened \subseteq Clients
    /\ spc \in {"accept", "recv", "handle", "send", "dead"} /\ limit \in OpenLimits
    /\ conn \in Clients \cup {NULL} /\ parsed \in Paths \cup {NULL} /\ sent \in Nat
    /\ cpc \in [Clients -> {"start", "recv", "returned", "fault", "exited"}]
    /\ \A c \in Clients :
          /\ got[c] \in 0..Len(wire[c])
          /\ status[c] \in {"OK", "FILE_NOT_FOUND"} /\ ret[c] \in {0, -1}
          /\ served[c] \in DOMAIN Files \cup {NULL}
          /\ filelen[c] \in Nat

\* If one recv ended exactly at the end of the header, the bytes written are a
\* prefix of the file the server opened, and gfc_perform succeeds only with all
\* of it, however the body was cut.
CleanDelivery ==
    \A c \in Clients : clean[c] =>
        /\ file[c] = SubSeq(Content(c), 1, Len(file[c]))
        /\ Succeeded(c) => file[c] = Content(c)

\* In any case a success leaves as many bytes as the header announced, and a
\* client told that the file is missing has written nothing.
SuccessHasLength ==
    \A c \in Clients : cpc[c] = "returned" =>
        /\ Succeeded(c) => Len(file[c]) = Len(Content(c))
        /\ status[c] = "FILE_NOT_FOUND" => file[c] = <<>>

\* What a client has when gfc_perform returns, and the types it rests on.
Delivery == TypeOK /\ CleanDelivery /\ SuccessHasLength

\* A client is sent the file of the path it asked for, and is told that a file
\* is missing only if it is, unless its own request was cut: readData is shared
\* by all requests and never cleared, but nothing stale is read otherwise.
RightFile ==
    \A c \in Clients : (~split[c] /\ wire[c] # <<>>) =>
        IF path[c] \in DOMAIN Files THEN served[c] = path[c] ELSE wire[c] = NotFound

\* The server process dies only of a request that was cut, of a client that
\* closed in mid-transfer after misreading a header, or of the connections it
\* has never closed.
ServerDeathHasCause ==
    spc = "dead" =>
        \/ \E c \in Clients : split[c]
        \/ \E c \in Clients : cpc[c] = "returned" /\ Misread(c)
        \/ Cardinality(opened) >= limit

\* A client process faults only after the server died (gfclient.c:234).
FaultHasCause == \A c \in Clients : cpc[c] = "fault" => spc = "dead"

\* Server and clients die of these causes alone.
DeathsHaveCause == ServerDeathHasCause /\ FaultHasCause

\* gfclient.h:88, gfc_perform "returns a value of 0 if the communication is
\* successful" and negative if "an invalid header is returned"; refuted by the
\* parser of gfclient.c:283, which ends the header at its first line.
DeliversFile == \A c \in Clients : Succeeded(c) => file[c] = Content(c)
=============================================================================
