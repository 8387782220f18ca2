-------------------------------- MODULE Message --------------------------------
(***************************************************************************)
(* Preparation/server.c and client.c: the server writes MESSAGE to each    *)
(* connection, reads once into the same buffer and compares; the client    *)
(* writes back what its one read returned.                                 *)
(***************************************************************************)
EXTENDS Pair

CONSTANTS MESSAGE, Size      \* a sequence of characters; BUFFER_SIZE

\* sdata: the server's buffer and the verdicts it printed; cdata: what each client has read.
Init == PairInit([buffer |-> [i \in 1..Size |-> "garbage"], verdicts |-> {}],
                 [c \in Clients |-> <<>>])

-----------------------------------------------------------------------------
(* The server.                                                             *)

ServerStart == /\ Server("start", "accept")
               /\ listening' = TRUE /\ UNCHANGED <<conn, sdata, causes>>
\* After a failed accept, close() fails: return 0.
ServerFails == /\ (Server("start", "ended") \/ Server("accept", "ended"))
               /\ CloseAll({}) /\ UNCHANGED sdata
Accept(c) == /\ Queued(c) /\ Server("accept", "write") /\ conn' = Accepted(c)
             /\ sdata' = [sdata EXCEPT !.buffer = Stored(@, MESSAGE)]
             /\ UNCHANGED <<listening, causes>>
WriteMessage(c) == /\ c \in Served /\ Server("write", "read") /\ CanWrite(c, "server")
                   /\ conn' = Written(c, "server", Append(String(sdata.buffer), "nul"))
                   /\ UNCHANGED <<listening, sdata, causes>>
\* On a reset connection write returns an error, or SIGPIPE ends the program.
WriteFails(c) ==
  /\ c \in Served /\ ~CanWrite(c, "server") /\ UNCHANGED sdata
  /\ \/ Server("write", "read") /\ UNCHANGED <<listening, conn, causes>>
     \/ Server("write", "ended") /\ CloseAll({})
ReadBack(c) ==
  /\ c \in Served /\ Server("read", "compare") /\ UNCHANGED <<listening, causes>>
  /\ \/ \E piece \in Received(c, "server", Size) :
          /\ sdata' = [sdata EXCEPT !.buffer = Overlaid(@, piece)]
          /\ conn' = Read(c, "server", piece)
     \/ (AtEnd(c, "server") \/ Failed(c, "server")) /\ UNCHANGED <<sdata, conn>>
Compare(c) ==
  /\ c \in Served /\ Server("compare", "accept") /\ Close(c, "server")
  /\ sdata' = [sdata EXCEPT !.verdicts =
                 @ \union {IF String(sdata.buffer) = MESSAGE THEN "match" ELSE "changed"}]
  /\ UNCHANGED <<listening, causes>>

-----------------------------------------------------------------------------
(* The client.                                                             *)

Connect(c) == /\ listening /\ Client(c, "start", "read")
              /\ conn' = Connected(c) /\ UNCHANGED <<cdata, causes>>
CannotStart(c) == /\ Client(c, "start", "failed") /\ UNCHANGED <<conn, cdata, causes>>
ReadMessage(c) ==
  /\ Client(c, "read", "write") /\ UNCHANGED causes
  /\ \/ \E piece \in Received(c, "client", Size) :
          /\ cdata' = [cdata EXCEPT ![c] = piece] /\ conn' = Read(c, "client", piece)
     \/ (AtEnd(c, "client") \/ Failed(c, "client")) /\ UNCHANGED <<conn, cdata>>
WriteSame(c) == /\ Client(c, "write", "close") /\ CanWrite(c, "client")
                /\ conn' = Written(c, "client", cdata[c]) /\ UNCHANGED <<cdata, causes>>
WriteBroken(c) ==
  /\ (Client(c, "write", "close") \/ Client(c, "write", "failed"))
  /\ ~CanWrite(c, "client") /\ UNCHANGED <<cdata, causes>>
  /\ IF cpc'[c] = "failed" THEN Close(c, "client") ELSE UNCHANGED conn
CloseClient(c) == /\ Client(c, "close", "done") /\ Close(c, "client") /\ UNCHANGED <<cdata, causes>>

ServerStep == \/ ServerStart \/ ServerFails
              \/ \E c \in Clients : \/ Accept(c) \/ WriteMessage(c) \/ WriteFails(c)
                                    \/ ReadBack(c) \/ Compare(c)
ClientStep(c) == \/ Connect(c) \/ CannotStart(c) \/ ReadMessage(c) \/ WriteSame(c)
                 \/ WriteBroken(c) \/ CloseClient(c)
Next == ServerStep \/ \E c \in Clients : ClientStep(c) \/ NetworkFails(c)
=============================================================================
