--------------------------------- MODULE Pairs ---------------------------------
(***************************************************************************)
(* The four client/server pairs of the repository that exchange one file   *)
(* or one message per connection.  A behaviour is one of one pair.         *)
(***************************************************************************)
EXTENDS Pair

CONSTANTS File, Block,      \* the file sent; what a buffer holds of it
          Text, MESSAGE,    \* the message of each echo client; the fixed one
          Size              \* what a buffer holds of a message

\* What is sent are sequences, and a message fits its buffer with its NUL.
Message(m) == m \in Seq(Range(m)) /\ "nul" \notin Range(m) /\ Len(m) < Size
ASSUME PairsAssumption ==
  /\ File \in Seq(Range(File)) /\ Block \in Nat \ {0} /\ Size \in Nat
  /\ Message(MESSAGE) /\ \A c \in Clients : Message(Text[c])

VARIABLE pair

T == INSTANCE Transfer
S == INSTANCE SizedTransfer
E == INSTANCE Echo
M == INSTANCE Message

Init == \/ pair = "transfer" /\ T!Init
        \/ pair = "sized"    /\ S!Init
        \/ pair = "echo"     /\ E!Init
        \/ pair = "message"  /\ M!Init

ServerStep == /\ UNCHANGED pair
              /\ \/ pair = "transfer" /\ T!ServerStep
                 \/ pair = "sized"    /\ S!ServerStep
                 \/ pair = "echo"     /\ E!ServerStep
                 \/ pair = "message"  /\ M!ServerStep
ClientStep(c) == /\ UNCHANGED pair
                 /\ \/ pair = "transfer" /\ T!ClientStep(c)
                    \/ pair = "sized"    /\ S!ClientStep(c)
                    \/ pair = "echo"     /\ E!ClientStep(c)
                    \/ pair = "message"  /\ M!ClientStep(c)
Fault(c) == NetworkFails(c) /\ UNCHANGED pair

Next == ServerStep \/ \E c \in Clients : ClientStep(c) \/ Fault(c)
Spec == /\ Init /\ [][Next]_<<vars, pair>>
        /\ WF_<<vars, pair>>(ServerStep)
        /\ \A c \in Clients : WF_<<vars, pair>>(ClientStep(c))

-----------------------------------------------------------------------------
(* Properties.                                                             *)

Ended(c)    == cpc[c] \in {"done", "failed"}
FileOf(c)   == IF pair = "transfer" THEN cdata[c] ELSE cdata[c].file
Transfers   == pair \in {"transfer", "sized"}

\* The connections are well formed: an end that was never used or is queued
\* has written nothing, both ends exist or neither does, what has ended holds
\* none, and nobody is left in the queue of a server that has closed it.
TypeOK ==
  /\ pair \in {"transfer", "sized", "echo", "message"} /\ listening \in BOOLEAN
  /\ \A c \in Clients :
       /\ conn[c].client.state \in {"none", "open", "reset", "closed"}
       /\ conn[c].server.state \in {"none", "queued", "open", "reset", "closed"}
       /\ (conn[c].client = None) <=> (conn[c].server = None)
       /\ Queued(c) => conn[c].server.out = <<>>
       /\ Ended(c) => conn[c].client.state \in {"none", "closed"}
  /\ spc \in {"loop", "ended"} => Waiting = {}

\* A received file has no byte twice, none missing between two others and none
\* out of order: the server sends what fread or sendfile yields next
\* (transferserver.c 184-192), the client appends what comes (transferclient.c
\* 122-132).
OnePieceOnce ==
  Transfers => \A c \in Clients : \E i, j \in 1..(Len(File) + 4) :
                 FileOf(c) = SubSeq(S!Header \o File, i, j - 1)

\* The connections are well formed, and carry the file to a client once.
PiecesInv == TypeOK /\ OnePieceOnce

\* The servers of the warm-up run forever: one that has started and met no error, of
\* a call or of its file, accepts connections (pr1/Readme.md 428).  The transfer
\* server closes its listening socket after its first client (transferserver.c 199).
RunsForever ==
  /\ pair \in {"transfer", "echo"} /\ spc \notin {"start", "ended"}
  /\ \A c \in Clients : "read error" \notin causes[c]
  => listening

\* A client that ends as if all were well has the whole file, unless the
\* network, the server or a split of the header gave it cause.
TruncationHasCause ==
  Transfers => \A c \in Clients : cpc[c] = "done" /\ FileOf(c) # File => causes[c] # {}

\* An echo client prints a beginning of its own message: never what another
\* client wrote before it into the server's buffer (echoserver.c 165).
OwnMessage == pair = "echo" => \A c \in Clients : IsPrefix(cdata[c].printed, Text[c])

\* It prints less than all of it only if the server's read returned too soon
\* (echoserver.c 166): a lost answer does not show.
ShortEchoHasCause ==
  pair = "echo" => \A c \in Clients :
    cpc[c] = "done" /\ cdata[c].printed # Text[c] => "short read" \in causes[c]

\* The message server finds that the messages match, whatever came back.
AlwaysMatch == pair = "message" => sdata.verdicts \subseteq {"match"}

\* A message comes back as it was sent, or its loss has a cause and does not show.
MessagesReturn == OwnMessage /\ ShortEchoHasCause /\ AlwaysMatch

\* A client that has connected ends: with the file or message, with an error, or
\* turned away when the server ends or has closed its listening socket.
ClientsEnd == \A c \in Clients : conn[c].client.state = "open" ~> Ended(c)
=============================================================================
