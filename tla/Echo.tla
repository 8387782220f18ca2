--------------------------------- MODULE Echo ---------------------------------
(***************************************************************************)
(* pr1/echo: a server that reads once from each connection and writes the  *)
(* string it has got back, and a client that writes its whole buffer,      *)
(* reads once and prints the string then in the buffer.                    *)
(***************************************************************************)
EXTENDS Pair

CONSTANTS Text,    \* the message of each client, a sequence of characters
          Size     \* BUFSIZE

Garbage == [i \in 1..Size |-> "garbage"]
Zeroes  == [i \in 1..Size |-> "nul"]

\* sdata: the server's buffer; cdata: each client's buffer and what it printed.
Init == PairInit(Garbage, [c \in Clients |-> [buffer  |-> Stored(Garbage, Text[c]),
                                              printed |-> <<>>]])

-----------------------------------------------------------------------------
(* The server.                                                             *)

ServerStart == /\ Server("start", "accept")
               /\ listening' = TRUE /\ UNCHANGED <<conn, sdata, causes>>
\* After a failed accept, close() fails: return 0.
ServerFails == /\ (Server("start", "ended") \/ Server("accept", "ended"))
               /\ CloseAll({}) /\ UNCHANGED sdata
\* Mutant: bzero is left out.
AcceptDirty(c) == /\ Queued(c) /\ Server("accept", "read")
                  /\ conn' = Accepted(c) /\ UNCHANGED <<listening, sdata, causes>>
Accept(c) == /\ Queued(c) /\ Server("accept", "read")
             /\ conn' = Accepted(c) /\ sdata' = Zeroes /\ UNCHANGED <<listening, causes>>
ReadOnce(c) ==
  /\ c \in Served /\ Server("read", "write") /\ UNCHANGED listening
  /\ \/ \E piece \in Received(c, "server", Size) :
          /\ sdata' = Overlaid(sdata, piece) /\ conn' = Read(c, "server", piece)
          /\ IF "nul" \in Range(piece) THEN UNCHANGED causes ELSE Blame({c}, "short read")
     \/ (AtEnd(c, "server") \/ Failed(c, "server")) /\ UNCHANGED <<sdata, conn, causes>>
WriteBack(c) == /\ c \in Served /\ Server("write", "close") /\ CanWrite(c, "server")
                /\ conn' = Written(c, "server", Append(String(sdata), "nul"))
                /\ UNCHANGED <<listening, sdata, causes>>
\* On a reset connection write returns an error, or SIGPIPE ends the program.
WriteFails(c) ==
  /\ c \in Served /\ ~CanWrite(c, "server") /\ UNCHANGED sdata
  /\ \/ Server("write", "close") /\ UNCHANGED <<listening, conn, causes>>
     \/ Server("write", "ended") /\ CloseAll({})
CloseServer(c) == /\ c \in Served /\ Server("close", "accept") /\ Close(c, "server")
                  /\ UNCHANGED <<listening, sdata, causes>>

-----------------------------------------------------------------------------
(* The client.                                                             *)

Connect(c) == /\ listening /\ Client(c, "start", "write")
              /\ conn' = Connected(c) /\ UNCHANGED <<cdata, causes>>
CannotStart(c) == /\ Client(c, "start", "failed") /\ UNCHANGED <<conn, cdata, causes>>
Write(c) == /\ Client(c, "write", "read") /\ UNCHANGED <<cdata, causes>>
            /\ IF CanWrite(c, "client") THEN conn' = Written(c, "client", cdata[c].buffer)
               ELSE UNCHANGED conn
Killed(c) == /\ Client(c, "write", "failed") /\ ~CanWrite(c, "client") /\ Close(c, "client")
             /\ UNCHANGED <<cdata, causes>>
\* After an error the buffer still holds what the client wrote.
ReadEcho(c) ==
  /\ Client(c, "read", "print") /\ UNCHANGED causes
  /\ \/ \E piece \in Received(c, "client", Size) :
          /\ cdata' = [cdata EXCEPT ![c].buffer = Overlaid(@, piece)]
          /\ conn' = Read(c, "client", piece)
     \/ (AtEnd(c, "client") \/ Failed(c, "client")) /\ UNCHANGED <<conn, cdata>>
PrintEcho(c) == /\ Client(c, "print", "done") /\ Close(c, "client")
                /\ cdata' = [cdata EXCEPT ![c].printed = String(cdata[c].buffer)]
                /\ UNCHANGED causes
\* strcpy(message, pBuffer) writes to a literal when -m is not given.
PrintFaults(c) == /\ Client(c, "print", "failed") /\ Close(c, "client")
                  /\ UNCHANGED <<cdata, causes>>

ServerStep == \/ ServerStart \/ ServerFails
              \/ \E c \in Clients : \/ Accept(c) \/ ReadOnce(c) \/ WriteBack(c)
                                    \/ WriteFails(c) \/ CloseServer(c)
ClientStep(c) == \/ Connect(c) \/ CannotStart(c) \/ Write(c) \/ Killed(c)
                 \/ ReadEcho(c) \/ PrintEcho(c) \/ PrintFaults(c)
Next == ServerStep \/ \E c \in Clients : ClientStep(c) \/ NetworkFails(c)
=============================================================================
