------------------------------- MODULE Transfer -------------------------------
(***************************************************************************)
(* pr1/transfer: a server that sends its file to the first client that     *)
(* connects, and a client that appends what it receives to a file.  A file *)
(* is a sequence of blocks, of which a buffer (BUFSIZE) holds Block.       *)
(***************************************************************************)
EXTENDS Pair

CONSTANTS File, Block

\* sdata: what fread has not read yet; cdata: what each client has appended.
Init == PairInit(File, [c \in Clients |-> <<>>])

-----------------------------------------------------------------------------
(* The server.                                                             *)

\* Options, socket, bind, listen, and the file: what fails ends the program.
ServerStart == /\ Server("start", "accept")
               /\ listening' = TRUE /\ UNCHANGED <<conn, sdata, causes>>
ServerFails == /\ (Server("start", "ended") \/ Server("accept", "ended"))
               /\ CloseAll({}) /\ UNCHANGED sdata
Accept(c) == /\ Queued(c) /\ Server("accept", "send")
             /\ conn' = Accepted(c) /\ UNCHANGED <<listening, sdata, causes>>

Send(c) == /\ c \in Served /\ Server("send", "send") /\ sdata # <<>> /\ CanWrite(c, "server")
           /\ LET n == Least(Block, Len(sdata)) IN
              /\ conn' = Written(c, "server", SubSeq(sdata, 1, n))
              /\ sdata' = SubSeq(sdata, n + 1, Len(sdata))
           /\ UNCHANGED <<listening, causes>>
\* fread returns 0 at the end of the file and when the read fails.
FileEnds == /\ Server("send", "close")
            /\ IF sdata = <<>> THEN UNCHANGED causes ELSE Blame(Served, "read error")
            /\ UNCHANGED <<listening, sdata, conn>>
\* send() fails: return 0.  So it does in a later pass of for(;;), on the closed socket.
SendFails == /\ sdata # <<>>
             /\ \/ Server("send", "ended") /\ \E c \in Served : ~CanWrite(c, "server")
                \/ Server("loop", "ended")
             /\ CloseAll({}) /\ UNCHANGED sdata
\* Mutant: the listening socket is left open.
CloseOne == /\ Server("close", "loop") /\ \E c \in Served : Close(c, "server")
            /\ UNCHANGED <<listening, sdata, causes>>
\* Both sockets; the next passes of for(;;) close them again, to no effect.
CloseBoth == /\ Server("close", "loop")
             /\ CloseAll({}) /\ UNCHANGED sdata

-----------------------------------------------------------------------------
(* The client.                                                             *)

Connect(c) == /\ listening /\ Client(c, "start", "open")
              /\ conn' = Connected(c) /\ UNCHANGED <<cdata, causes>>
\* A bad option, or no connection: the program ends.
CannotStart(c) == /\ Client(c, "start", "failed") /\ UNCHANGED <<conn, cdata, causes>>
OpenOutput(c)  == /\ Client(c, "open", "recv") /\ UNCHANGED <<conn, cdata, causes>>
\* fopen fails: fclose(NULL) faults.
CannotOpen(c)  == /\ Client(c, "open", "failed") /\ Close(c, "client")
                  /\ UNCHANGED <<cdata, causes>>

\* Mutant: the whole buffer is written, whatever was received.
RecvWhole(c) ==
  /\ Client(c, "recv", "recv") /\ Unread(c, "client") # <<>>
  /\ cdata' = [cdata EXCEPT ![c] = @ \o [i \in 1..Block |-> Head(Unread(c, "client"))]]
  /\ conn' = Read(c, "client", <<1>>) /\ UNCHANGED causes
Recv(c) == /\ Client(c, "recv", "recv") /\ Unread(c, "client") # <<>>
           /\ \E piece \in Received(c, "client", Block) :
                /\ cdata' = [cdata EXCEPT ![c] = @ \o piece]
                /\ conn' = Read(c, "client", piece)
           /\ UNCHANGED causes
\* fwrite writes less than it was given: return 0.
WriteFails(c) == /\ Client(c, "recv", "failed") /\ Unread(c, "client") # <<>>
                 /\ Close(c, "client") /\ UNCHANGED <<cdata, causes>>
\* The end of the stream and an error end the loop alike.
RecvEnds(c) == /\ Client(c, "recv", "done") /\ (AtEnd(c, "client") \/ Failed(c, "client"))
               /\ Close(c, "client") /\ UNCHANGED <<cdata, causes>>

ServerStep == \/ ServerStart \/ ServerFails \/ FileEnds \/ SendFails \/ CloseBoth
              \/ \E c \in Clients : Accept(c) \/ Send(c)
ClientStep(c) == \/ Connect(c) \/ CannotStart(c) \/ OpenOutput(c) \/ CannotOpen(c)
                 \/ Recv(c) \/ WriteFails(c) \/ RecvEnds(c)
Next == ServerStep \/ \E c \in Clients : ClientStep(c) \/ NetworkFails(c)
=============================================================================
