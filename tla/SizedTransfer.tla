----------------------------- MODULE SizedTransfer -----------------------------
(***************************************************************************)
(* transferserver.c and transferclient.c at the root: the server sends a   *)
(* header that holds the size of the file, then the file; the client takes *)
(* what its first recv returns for the header.  The header is its digits,  *)
(* the end of the number and what pads it to 256 bytes.                    *)
(***************************************************************************)
EXTENDS Pair

CONSTANTS File, Block

Header == <<"digits", "end", "padding">>

\* sdata: what is left to send; cdata: the client's file and remain_data.
Init == PairInit(Header \o File, [c \in Clients |-> [file |-> <<>>, remain |-> 0]])

-----------------------------------------------------------------------------
(* The server: one client, then the end.                                   *)

ServerStart == /\ Server("start", "accept")
               /\ listening' = TRUE /\ UNCHANGED <<conn, sdata, causes>>
ServerFails == /\ (Server("start", "ended") \/ Server("accept", "ended"))
               /\ CloseAll({}) /\ UNCHANGED sdata
Accept(c)   == /\ Queued(c) /\ Server("accept", "header")
               /\ conn' = Accepted(c) /\ UNCHANGED <<listening, sdata, causes>>
SendHeader(c) == /\ c \in Served /\ Server("header", "data") /\ CanWrite(c, "server")
                 /\ conn' = Written(c, "server", Header) /\ sdata' = File
                 /\ UNCHANGED <<listening, causes>>
SendFile(c) == /\ c \in Served /\ Server("data", "data") /\ sdata # <<>> /\ CanWrite(c, "server")
               /\ LET n == Least(Block, Len(sdata)) IN
                  /\ conn' = Written(c, "server", SubSeq(sdata, 1, n))
                  /\ sdata' = SubSeq(sdata, n + 1, Len(sdata))
               /\ UNCHANGED <<listening, causes>>
\* The loop ends after the last byte; or before, when sendfile fails or takes
\* a wrong offset: it is given the address of an int for that of an off_t.
ServerEnds == /\ (Server("header", "ended") \/ Server("data", "ended"))
              /\ CloseAll(IF sdata = <<>> THEN {} ELSE Served)
              /\ UNCHANGED sdata

-----------------------------------------------------------------------------
(* The client.                                                             *)

Connect(c) == /\ listening /\ Client(c, "start", "size")
              /\ conn' = Connected(c) /\ UNCHANGED <<cdata, causes>>
CannotStart(c) == /\ Client(c, "start", "failed") /\ UNCHANGED <<conn, cdata, causes>>

\* atoi is right when the number has come to its end, and the file begins at
\* the next recv when the whole header, and no more, has come.
RecvSize(c) ==
  /\ Client(c, "size", "open")
  /\ \/ \E piece \in Received(c, "client", Len(Header) + Block) :
          /\ conn' = Read(c, "client", piece)
          /\ \E size \in IF Len(piece) > 1 THEN {Len(File)} ELSE 0..Len(Header \o File) :
               cdata' = [cdata EXCEPT ![c].remain = size]
          /\ IF piece = Header THEN UNCHANGED causes ELSE Blame({c}, "header")
     \/ /\ (AtEnd(c, "client") \/ Failed(c, "client"))
        /\ \E size \in 0..Len(Header \o File) : cdata' = [cdata EXCEPT ![c].remain = size]
        /\ Blame({c}, "header") /\ UNCHANGED conn
OpenOutput(c) == /\ Client(c, "open", "recv") /\ UNCHANGED <<conn, cdata, causes>>
CannotOpen(c) == /\ Client(c, "open", "failed") /\ Close(c, "client")
                 /\ UNCHANGED <<cdata, causes>>

\* Mutant: remain_data goes down by the size of the buffer.
RecvCounted(c) ==
  /\ \E piece \in Received(c, "client", Block) :
       /\ conn' = Read(c, "client", piece)
       /\ IF cdata[c].remain > 0
          THEN /\ Client(c, "recv", "recv")
               /\ cdata' = [cdata EXCEPT ![c] = [file   |-> @.file \o piece,
                                                 remain |-> @.remain - Block]]
          ELSE Client(c, "recv", "close") /\ UNCHANGED cdata
  /\ UNCHANGED causes
\* recv comes before the test of remain_data: what the last recv returned is dropped.
Recv(c) ==
  /\ \E piece \in Received(c, "client", Block) :
       /\ conn' = Read(c, "client", piece)
       /\ IF cdata[c].remain > 0
          THEN /\ Client(c, "recv", "recv")
               /\ cdata' = [cdata EXCEPT ![c] = [file   |-> @.file \o piece,
                                                 remain |-> @.remain - Len(piece)]]
          ELSE Client(c, "recv", "close") /\ UNCHANGED cdata
  /\ UNCHANGED causes
RecvEnds(c)    == /\ Client(c, "recv", "close") /\ (AtEnd(c, "client") \/ Failed(c, "client"))
                  /\ UNCHANGED <<conn, cdata, causes>>
CloseClient(c) == /\ Client(c, "close", "done") /\ Close(c, "client")
                  /\ UNCHANGED <<cdata, causes>>

ServerStep == \/ ServerStart \/ ServerFails \/ ServerEnds
              \/ \E c \in Clients : Accept(c) \/ SendHeader(c) \/ SendFile(c)
ClientStep(c) == \/ Connect(c) \/ CannotStart(c) \/ RecvSize(c) \/ OpenOutput(c)
                 \/ CannotOpen(c) \/ Recv(c) \/ RecvEnds(c) \/ CloseClient(c)
Next == ServerStep \/ \E c \in Clients : ClientStep(c) \/ NetworkFails(c)
=============================================================================
