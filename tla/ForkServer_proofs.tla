-------------------------- MODULE ForkServer_proofs --------------------------
(***************************************************************************)
(* Proofs about ForkServer, for any number of clients, chunks, descriptors *)
(* and pieces in a socket buffer: the response to a client, whichever of   *)
(* the forked processes sends it, and how many connections the processes   *)
(* can accept.                                                             *)
(***************************************************************************)
EXTENDS ForkServer, FiniteSetTheorems, SequenceTheorems, TLAPS

ConnRecord == [state : {"none", "queued", "accepted"}, up : Int, down : Seq(Nat),
              shut : BOOLEAN]
ProcRecord == [pc : {"start", "accept", "fork", "recv", "send", "dead"},
              sock : Clients \cup {"none"}, open : SUBSET Clients, left : Seq(Nat)]
Typed ==
    /\ found \in BOOLEAN /\ procs \in Seq(ProcRecord)
    /\ conn \in [Clients -> ConnRecord] /\ got \in [Clients -> Seq(Nat)]
    /\ cpc \in [Clients -> {"start", "request", "first", "loop", "write", "done", "failed",
                            "killed"}]

\* What was sent to a client, and which process is to send it more.
Sent(c)      == got[c] \o conn[c].down
Busy(p)      == procs[p].pc \in {"fork", "recv", "send"}
Serves(p, c) == p \in DOMAIN procs /\ Busy(p) /\ procs[p].sock = c

\* A process that serves a client has still to send it all that it was not yet
\* sent, and no other process has: the parent of a child is done with its client.
Owes(p, c) ==
    /\ conn[c].state = "accepted"
    /\ procs[p].pc # "send" => Sent(c) = <<>>
    /\ procs[p].pc = "send" => Ended(c) \/ Sent(c) \o procs[p].left = Response
    /\ \A q \in DOMAIN procs : Serves(q, c) => q = p
SentInv ==
    /\ Typed
    /\ \A c \in Clients : /\ cpc[c] = "start" => conn[c].state = "none"
                          /\ conn[c].state # "accepted" => Sent(c) = <<>>
                          /\ IsPrefix(Sent(c), Response)
    /\ \A p \in DOMAIN procs : Busy(p) => procs[p].sock \in Clients /\ Owes(p, procs[p].sock)

LEMMA Beginning ==
    ASSUME NEW s \in Seq(Nat), NEW t \in Seq(Nat)
    PROVE  IsPrefix(s, s \o t)
<1>1. /\ s \o t \in Seq(Nat) /\ Len(s \o t) = Len(s) + Len(t)
      /\ \A i \in 1..Len(s) + Len(t) : (s \o t)[i] = IF i <= Len(s) THEN s[i] ELSE t[i - Len(s)]
  BY ConcatProperties
<1>2. Len(s) \in Nat /\ Len(t) \in Nat
  BY LenProperties
<1>3. \A i \in 1..Len(s) : s[i] \in Nat /\ (s \o t)[i] \in Nat
  BY <1>1, <1>2, ElementOfSeq
<1>4. /\ SubSeq(s, 1, Len(s)) \in Seq(Nat)
      /\ Len(SubSeq(s, 1, Len(s))) = IF 1 <= Len(s) THEN Len(s) - 1 + 1 ELSE 0
      /\ \A i \in 1..(Len(s) - 1 + 1) : SubSeq(s, 1, Len(s))[i] = s[1 + i - 1]
  BY <1>2, <1>3, SubSeqProperties
<1>5. /\ SubSeq(s \o t, 1, Len(s)) \in Seq(Nat)
      /\ Len(SubSeq(s \o t, 1, Len(s))) = IF 1 <= Len(s) THEN Len(s) - 1 + 1 ELSE 0
      /\ \A i \in 1..(Len(s) - 1 + 1) : SubSeq(s \o t, 1, Len(s))[i] = (s \o t)[1 + i - 1]
  BY <1>2, <1>3, SubSeqProperties
<1>6. \A i \in 1..Len(SubSeq(s, 1, Len(s))) :
        SubSeq(s, 1, Len(s))[i] = SubSeq(s \o t, 1, Len(s))[i]
  <2> SUFFICES ASSUME NEW i \in 1..Len(SubSeq(s, 1, Len(s)))
               PROVE  SubSeq(s, 1, Len(s))[i] = SubSeq(s \o t, 1, Len(s))[i]
    OBVIOUS
  <2>1. i \in 1..Len(s) /\ i \in 1..(Len(s) - 1 + 1) /\ 1 + i - 1 = i
    BY <1>2, <1>4
  <2>2. (s \o t)[i] = s[i]
    BY <1>1, <1>2, <2>1
  <2> QED BY <1>4, <1>5, <2>1, <2>2
<1>7. SubSeq(s, 1, Len(s)) = SubSeq(s \o t, 1, Len(s))
  BY <1>4, <1>5, <1>6, SeqEqual
<1> QED BY <1>1, <1>2, <1>7 DEF IsPrefix

LEMMA ResponseType == Response \in Seq(Nat)
<1>1. CASE found
  <2>1. \A i \in 1..(Blocks + 1) : i \in Nat
    OBVIOUS
  <2>2. [i \in 1..(Blocks + 1) |-> i] \in Seq(Nat)
    BY <2>1, SizeAssumption
  <2> QED BY <1>1, <2>2 DEF Response
<1>2. CASE ~found
  <2>1. [i \in 1..1 |-> i] \in Seq(Nat)
    OBVIOUS
  <2> QED BY <1>2, <2>1 DEF Response
<1> QED BY <1>1, <1>2

LEMMA NothingSent == IsPrefix(<<>>, Response)
<1>1. Response \in Seq(Nat) /\ <<>> \in Seq(Nat)
  BY ResponseType, EmptySeq
<1>2. <<>> \o Response = Response
  BY <1>1, ConcatEmptySeq
<1> QED BY <1>1, <1>2, Beginning

LEMMA SentType == ASSUME Typed, NEW c \in Clients PROVE Sent(c) \in Seq(Nat)
<1>1. got[c] \in Seq(Nat) /\ conn[c].down \in Seq(Nat)
  BY DEF Typed, ConnRecord
<1> QED BY <1>1, ConcatProperties DEF Sent

LEMMA InitSentInv == Init => SentInv
<1> SUFFICES ASSUME Init PROVE SentInv
  OBVIOUS
<1>1. Typed
  <2>1. <<>> \in Seq(Nat)
    BY EmptySeq
  <2>2. [pc |-> "start", sock |-> "none", open |-> {}, left |-> <<>>] \in ProcRecord
    BY <2>1 DEF ProcRecord
  <2>3. procs \in Seq(ProcRecord)
    BY <2>2 DEF Init
  <2>4. NoConn \in ConnRecord
    BY <2>1 DEF NoConn, ConnRecord
  <2> QED BY <2>1, <2>3, <2>4 DEF Init, Typed
<1>2. \A c \in Clients : Sent(c) = <<>>
  <2>1. <<>> \o <<>> = <<>>
    BY EmptySeq, ConcatEmptySeq
  <2> QED BY <2>1 DEF Init, NoConn, Sent
<1>3. \A p \in DOMAIN procs : ~Busy(p)
  BY DEF Init, Busy
<1> QED BY <1>1, <1>2, <1>3, NothingSent DEF Init, NoConn, SentInv

\* A step of a client: nothing is sent, and one that has ended stays so.
LEMMA ClientsKeep ==
    ASSUME SentInv, Typed', UNCHANGED <<found, procs>>,
           \A c \in Clients : /\ Sent(c)' = Sent(c) /\ (Ended(c) => Ended(c)')
                              /\ cpc'[c] = "start" => cpc[c] = "start" /\ conn'[c] = conn[c]
                              /\ \/ conn'[c].state = conn[c].state
                                 \/ conn[c].state = "none"
    PROVE  SentInv'
<1>1. Response' = Response
  BY DEF Response
<1>2. \A c \in Clients : /\ cpc'[c] = "start" => conn'[c].state = "none"
                         /\ conn'[c].state # "accepted" => Sent(c)' = <<>>
                         /\ IsPrefix(Sent(c), Response)'
  BY <1>1 DEF SentInv, IsPrefix
<1>3. ASSUME NEW p \in DOMAIN procs, Busy(p), procs[p].sock \in Clients,
             Owes(p, procs[p].sock)
      PROVE  Owes(p, procs[p].sock)'
  <2>1. conn'[procs[p].sock].state = "accepted"
    BY <1>3 DEF Owes
  <2> QED BY <1>1, <1>3, <2>1 DEF Owes, Serves, Busy
<1> QED BY <1>2, <1>3 DEF SentInv, Busy

\* A process goes on, and serves nobody.
LEMMA NoLongerBusy ==
    ASSUME SentInv, Typed', UNCHANGED <<found, cpc, got>>,
           DOMAIN procs' = DOMAIN procs,
           \A q \in DOMAIN procs : procs'[q] = procs[q] \/ ~Busy(q)',
           \A c \in Clients : /\ conn'[c].state = conn[c].state
                              /\ conn'[c].down = conn[c].down
    PROVE  SentInv'
<1>1. Response' = Response /\ \A c : Ended(c)' = Ended(c)
  BY DEF Response, Ended
<1>2. \A c \in Clients : Sent(c)' = Sent(c)
  BY DEF Sent
<1>3. \A c \in Clients : /\ cpc'[c] = "start" => conn'[c].state = "none"
                         /\ conn'[c].state # "accepted" => Sent(c)' = <<>>
                         /\ IsPrefix(Sent(c), Response)'
  BY <1>1, <1>2 DEF SentInv, IsPrefix
<1>4. ASSUME NEW p \in DOMAIN procs, Busy(p)'
      PROVE  procs'[p].sock \in Clients /\ Owes(p, procs[p].sock)'
  <2>1. procs'[p] = procs[p] /\ Busy(p)
    BY <1>4 DEF Busy
  <2>2. procs[p].sock \in Clients /\ Owes(p, procs[p].sock)
    BY <2>1 DEF SentInv
  <2>3. \A q \in DOMAIN procs : Serves(q, procs[p].sock)' => Serves(q, procs[p].sock)
    BY <2>1 DEF Serves, Busy
  <2> QED BY <1>1, <1>2, <2>1, <2>2, <2>3 DEF Owes
<1> QED BY <1>3, <1>4 DEF SentInv

\* A process goes on with a client that no other process serves.
LEMMA BusyWith ==
    ASSUME SentInv, Typed', UNCHANGED <<found, cpc, got>>,
           DOMAIN procs' = DOMAIN procs,
           NEW p \in DOMAIN procs, NEW c \in Clients, procs'[p].sock = c, Busy(p)',
           \A q \in DOMAIN procs \ {p} : procs'[q] = procs[q] /\ ~Serves(q, c),
           \A d \in Clients \ {c} : conn'[d] = conn[d],
           cpc[c] # "start", conn'[c].state = "accepted",
           procs'[p].pc # "send" => Sent(c)' = <<>>,
           procs'[p].pc = "send" =>
               Ended(c) \/ Sent(c)' \o procs'[p].left = Response,
           IsPrefix(Sent(c), Response)'
    PROVE  SentInv'
<1>1. Response' = Response /\ \A d : Ended(d)' = Ended(d)
  BY DEF Response, Ended
<1>2. \A d \in Clients \ {c} : Sent(d)' = Sent(d)
  BY DEF Sent
<1>3. \A d \in Clients : /\ cpc'[d] = "start" => conn'[d].state = "none"
                         /\ conn'[d].state # "accepted" => Sent(d)' = <<>>
                         /\ IsPrefix(Sent(d), Response)'
  BY <1>1, <1>2 DEF SentInv, IsPrefix
<1>4. Owes(p, c)'
  BY <1>1 DEF Owes, Serves, Busy
<1>5. ASSUME NEW q \in DOMAIN procs \ {p}, Busy(q)'
      PROVE  procs'[q].sock \in Clients /\ Owes(q, procs[q].sock)'
  <2>1. procs'[q] = procs[q] /\ Busy(q)
    BY <1>5 DEF Busy
  <2>2. procs[q].sock \in Clients \ {c} /\ Owes(q, procs[q].sock)
    BY <2>1 DEF SentInv, Serves
  <2>3. \A r \in DOMAIN procs : Serves(r, procs[q].sock)' => Serves(r, procs[q].sock)
    BY <2>2 DEF Serves, Busy
  <2> QED BY <1>1, <1>2, <2>1, <2>2, <2>3 DEF Owes
<1>6. \A q \in DOMAIN procs : Busy(q)' => procs'[q].sock \in Clients /\ Owes(q, procs[q].sock)'
  BY <1>4, <1>5
<1> QED BY <1>3, <1>6 DEF SentInv

\* What one process becomes.
LEMMA ProcUpdate ==
    ASSUME Typed, NEW p \in DOMAIN procs, NEW x \in ProcRecord,
           procs' = [procs EXCEPT ![p] = x]
    PROVE  /\ procs' \in Seq(ProcRecord) /\ DOMAIN procs' = DOMAIN procs /\ procs'[p] = x
           /\ \A q \in DOMAIN procs \ {p} : procs'[q] = procs[q]
<1>1. procs \in Seq(ProcRecord) /\ p \in 1..Len(procs) /\ DOMAIN procs = 1..Len(procs)
  BY LenProperties DEF Typed
<1>2. procs' \in Seq(ProcRecord) /\ Len(procs') = Len(procs)
  BY <1>1, ExceptSeq
<1>3. DOMAIN procs' = 1..Len(procs')
  BY <1>2, LenProperties
<1> QED BY <1>1, <1>2, <1>3

LEMMA ProcType ==
    ASSUME Typed, NEW p \in DOMAIN procs
    PROVE  procs[p] \in ProcRecord
<1>1. procs \in Seq(ProcRecord) /\ p \in 1..Len(procs)
  BY LenProperties DEF Typed
<1> QED BY <1>1, ElementOfSeq

\* A process that stops serving, or never did, leaves the connections alone but
\* for the end of the stream.
LEMMA IdleSteps ==
    ASSUME SentInv, NEW p \in DOMAIN procs,
           \/ Listen(p) \/ CannotListen(p) \/ ForkFails(p)
           \/ Dies(p) \/ Shutdown(p)
    PROVE  SentInv'
<1>1. procs[p] \in ProcRecord /\ Typed
  BY ProcType DEF SentInv
<1>2. PICK x \in ProcRecord : procs' = [procs EXCEPT ![p] = x] /\ x.pc \in {"accept", "dead"}
  <2>1. CASE \E to \in {"accept", "dead"} : procs' = [procs EXCEPT ![p].pc = to]
    <3>1. PICK to \in {"accept", "dead"} : procs' = [procs EXCEPT ![p] = [procs[p] EXCEPT !.pc = to]]
      BY <2>1
    <3>2. [procs[p] EXCEPT !.pc = to] \in ProcRecord /\ [procs[p] EXCEPT !.pc = to].pc = to
      BY <1>1 DEF ProcRecord
    <3> QED BY <3>1, <3>2
  <2>2. CASE procs' = [procs EXCEPT ![p] = [procs[p] EXCEPT !.pc = "dead", !.open = {}]]
    <3>1. /\ [procs[p] EXCEPT !.pc = "dead", !.open = {}] \in ProcRecord
          /\ [procs[p] EXCEPT !.pc = "dead", !.open = {}].pc = "dead"
      BY <1>1 DEF ProcRecord
    <3> QED BY <2>2, <3>1
  <2> QED BY <2>1, <2>2 DEF Listen, CannotListen, ForkFails, Dies,
                            Shutdown, Goto
<1>3. /\ procs' \in Seq(ProcRecord) /\ DOMAIN procs' = DOMAIN procs
      /\ \A q \in DOMAIN procs : procs'[q] = procs[q] \/ ~Busy(q)'
  BY <1>1, <1>2, ProcUpdate DEF Busy
<1>4. UNCHANGED <<found, cpc, got>>
  BY DEF Listen, CannotListen, ForkFails, Dies, Shutdown,
         fixed, clients
<1>5. /\ conn' \in [Clients -> ConnRecord]
      /\ \A c \in Clients : conn'[c].state = conn[c].state /\ conn'[c].down = conn[c].down
  <2>1. CASE UNCHANGED conn
    BY <1>1, <2>1 DEF Typed
  <2>2. CASE Shutdown(p)
    <3>1. conn' = [conn EXCEPT ![procs[p].sock].shut = TRUE]
      BY <2>2 DEF Shutdown
    <3> QED BY <1>1, <3>1 DEF Typed, ConnRecord
  <2> QED BY <2>1, <2>2 DEF Listen, CannotListen, ForkFails, Dies
<1>6. Typed'
  BY <1>1, <1>3, <1>4, <1>5 DEF Typed
<1> QED BY <1>3, <1>4, <1>5, <1>6, NoLongerBusy

LEMMA AcceptKeeps ==
    ASSUME SentInv, NEW p \in DOMAIN procs, NEW c \in Clients, Accept(p, c)
    PROVE  SentInv'
<1>1. procs[p] \in ProcRecord /\ Typed
  BY ProcType DEF SentInv
<1> DEFINE x == [procs[p] EXCEPT !.pc = "fork", !.sock = c, !.open = procs[p].open \cup {c}]
<1>2. x \in ProcRecord /\ x.pc = "fork" /\ x.sock = c
  BY <1>1 DEF ProcRecord
<1>3. procs' = [procs EXCEPT ![p] = x] /\ conn' = [conn EXCEPT ![c].state = "accepted"]
  BY DEF Accept
<1>4. conn[c].state = "queued" /\ UNCHANGED <<found, cpc, got>>
  BY DEF Accept, fixed, clients
<1> HIDE DEF x
<1>5. /\ procs' \in Seq(ProcRecord) /\ DOMAIN procs' = DOMAIN procs /\ procs'[p] = x
      /\ \A q \in DOMAIN procs \ {p} : procs'[q] = procs[q]
  BY <1>1, <1>2, <1>3, ProcUpdate
<1>6. /\ conn' \in [Clients -> ConnRecord] /\ conn'[c].state = "accepted"
      /\ conn'[c].down = conn[c].down /\ \A d \in Clients \ {c} : conn'[d] = conn[d]
  BY <1>1, <1>3 DEF Typed, ConnRecord
<1>7. Typed'
  BY <1>1, <1>4, <1>5, <1>6 DEF Typed
<1>8. \A q \in DOMAIN procs : ~Serves(q, c)
  BY <1>4 DEF SentInv, Serves, Owes
<1>9. Sent(c) = <<>> /\ cpc[c] # "start" /\ IsPrefix(Sent(c), Response)
  BY <1>4 DEF SentInv
<1>10. Sent(c)' = Sent(c) /\ Response' = Response
  BY <1>4, <1>6 DEF Sent, Response
<1>11. IsPrefix(Sent(c), Response)'
  BY <1>9, <1>10 DEF IsPrefix
<1>12. Busy(p)' /\ procs'[p].sock = c /\ procs'[p].pc = "fork"
  BY <1>2, <1>5 DEF Busy
<1> QED BY <1>4, <1>5, <1>6, <1>7, <1>8, <1>9, <1>10, <1>11, <1>12, BusyWith

\* What the processes become when one forks.
LEMMA ForkedProcs ==
    ASSUME Typed, NEW p \in DOMAIN procs, Fork(p)
    PROVE  \E n : /\ procs' \in Seq(ProcRecord)
                  /\ n \notin DOMAIN procs /\ DOMAIN procs' = DOMAIN procs \cup {n}
                  /\ procs'[n] = [procs[p] EXCEPT !.pc = "recv"]
                  /\ procs'[p] = [procs[p] EXCEPT !.pc = "accept"]
                  /\ \A q \in DOMAIN procs \ {p} : procs'[q] = procs[q]
<1> DEFINE child == [procs[p] EXCEPT !.pc = "recv"]
           x == [procs[p] EXCEPT !.pc = "accept"]
           parents == [procs EXCEPT ![p] = x]
<1>1. procs[p] \in ProcRecord
  BY ProcType
<1>2. child \in ProcRecord /\ x \in ProcRecord
  BY <1>1 DEF ProcRecord
<1>3. procs' = Append(parents, child)
  BY <1>1 DEF Fork, ProcRecord
<1> HIDE DEF child, x
<1>4. /\ procs \in Seq(ProcRecord) /\ DOMAIN procs = 1..Len(procs) /\ Len(procs) \in Nat
      /\ p \in 1..Len(procs)
  BY LenProperties DEF Typed
<1> PICK n \in Nat : n = Len(procs) + 1
  BY <1>4
<1>5. parents \in Seq(ProcRecord) /\ Len(parents) = Len(procs)
  BY <1>2, <1>4, ExceptSeq
<1>6. /\ procs' \in Seq(ProcRecord) /\ Len(procs') = n
      /\ \A q \in 1..Len(procs) : procs'[q] = parents[q]
      /\ procs'[n] = child
  BY <1>2, <1>3, <1>5, AppendProperties
<1>7. /\ DOMAIN procs' = DOMAIN procs \cup {n} /\ n \notin DOMAIN procs
      /\ procs'[p] = x /\ \A q \in DOMAIN procs \ {p} : procs'[q] = procs[q]
  <2>1. DOMAIN procs' = 1..n
    BY <1>6, LenProperties
  <2> QED BY <2>1, <1>4, <1>6
<1> QED BY <1>6, <1>7 DEF child, x

LEMMA ForkKeeps ==
    ASSUME SentInv, NEW p \in DOMAIN procs, Fork(p)
    PROVE  SentInv'
<1>1. procs[p] \in ProcRecord /\ Typed /\ procs[p].pc = "fork"
  BY ProcType DEF SentInv, Fork
<1>2. UNCHANGED <<found, cpc, got, conn>>
  BY DEF Fork, fixed, clients
<1>3. PICK n : /\ procs' \in Seq(ProcRecord)
               /\ n \notin DOMAIN procs /\ DOMAIN procs' = DOMAIN procs \cup {n}
               /\ procs'[n] = [procs[p] EXCEPT !.pc = "recv"]
               /\ procs'[p] = [procs[p] EXCEPT !.pc = "accept"]
               /\ \A q \in DOMAIN procs \ {p} : procs'[q] = procs[q]
  BY <1>1, ForkedProcs
<1>4. /\ procs'[n].pc = "recv" /\ procs'[n].sock = procs[p].sock
      /\ procs'[p].pc = "accept"
  BY <1>1, <1>3 DEF ProcRecord
<1>5. Typed'
  BY <1>1, <1>2, <1>3 DEF Typed
<1>6. /\ Response' = Response
      /\ \A c : Ended(c)' = Ended(c) /\ Sent(c)' = Sent(c)
  BY <1>2 DEF Response, Ended, Sent
<1>7. \A c \in Clients : /\ cpc'[c] = "start" => conn'[c].state = "none"
                         /\ conn'[c].state # "accepted" => Sent(c)' = <<>>
                         /\ IsPrefix(Sent(c), Response)'
  BY <1>2, <1>6 DEF SentInv, IsPrefix
<1>8. ~Busy(p)' /\ Busy(n)' /\ Busy(p) /\ procs'[n].sock = procs[p].sock
  <2>1. procs'[p].pc = "accept" /\ procs'[n].pc = "recv"
    BY <1>4, <1>3
  <2> QED BY <1>1, <1>4, <2>1 DEF Busy
<1>9. procs[p].sock \in Clients /\ Owes(p, procs[p].sock)
  BY <1>8 DEF SentInv
\* Whoever serves now did so before, the child in its parent's place.
<1>10. \A q \in DOMAIN procs', c \in Clients :
         Serves(q, c)' => Serves(IF q = n THEN p ELSE q, c)
  BY <1>3, <1>8 DEF Serves, Busy
<1>11. ASSUME NEW q \in DOMAIN procs', Busy(q)'
       PROVE  procs'[q].sock \in Clients /\ Owes(q, procs[q].sock)'
  <2>1. CASE q = n
    <3>1. PICK c \in Clients : c = procs[p].sock
      BY <1>9
    <3>2. procs'[n].pc = "recv" /\ procs'[n].sock = c
      BY <1>4, <3>1
    <3>3. conn[c].state = "accepted" /\ Sent(c) = <<>>
      BY <1>1, <1>9, <3>1 DEF Owes
    <3>4. ASSUME NEW r \in DOMAIN procs', Serves(r, c)' PROVE r = n
      <4>1. Serves(IF r = n THEN p ELSE r, c)
        BY <1>10, <3>4
      <4>2. r # n => r \in DOMAIN procs /\ r = p
        BY <1>3, <1>9, <3>1, <4>1 DEF Owes
      <4> QED BY <1>8, <3>4, <4>2 DEF Serves
    <3>5. /\ conn'[c].state = "accepted" /\ procs'[n].pc # "send" /\ Sent(c)' = <<>>
          /\ \A r \in DOMAIN procs' : Serves(r, c)' => r = n
      BY <1>2, <1>6, <3>2, <3>3, <3>4
    <3>6. Owes(n, procs[n].sock)'
      BY <3>2, <3>5 DEF Owes
    <3> QED BY <2>1, <3>2, <3>6
  <2>2. CASE q # n
    <3>1. q \in DOMAIN procs \ {p} /\ procs'[q] = procs[q] /\ Busy(q)
      BY <1>3, <1>8, <1>11, <2>2 DEF Busy
    <3>2. procs[q].sock \in Clients /\ Owes(q, procs[q].sock)
      BY <3>1 DEF SentInv
    <3>3. ~Serves(p, procs[q].sock)
      BY <3>1, <3>2 DEF Owes
    <3>4. \A r \in DOMAIN procs' : Serves(r, procs[q].sock)' => r = q
      BY <1>10, <3>1, <3>2, <3>3 DEF Owes, Serves
    <3> QED BY <1>2, <1>6, <3>1, <3>2, <3>4 DEF Owes
  <2> QED BY <2>1, <2>2
<1> QED BY <1>5, <1>7, <1>11 DEF SentInv

LEMMA RecvKeeps ==
    ASSUME SentInv, NEW p \in DOMAIN procs, Recv(p)
    PROVE  SentInv'
<1>1. procs[p] \in ProcRecord /\ Typed /\ procs[p].pc = "recv"
  BY ProcType DEF SentInv, Recv
<1>2. PICK c \in Clients : c = procs[p].sock /\ Owes(p, c)
  BY <1>1 DEF SentInv, Busy
<1> DEFINE x == [procs[p] EXCEPT !.pc = "send", !.left = Response]
<1>3. x \in ProcRecord /\ x.pc = "send" /\ x.sock = c /\ x.left = Response
  BY <1>1, <1>2, ResponseType DEF ProcRecord
<1>4. /\ procs' = [procs EXCEPT ![p] = x] /\ UNCHANGED <<found, cpc, got>>
      /\ \E k \in 0..conn[c].up : conn' = [conn EXCEPT ![c].up = @ - k]
  BY <1>2 DEF Recv, fixed, clients
<1> HIDE DEF x
<1>5. /\ procs' \in Seq(ProcRecord) /\ DOMAIN procs' = DOMAIN procs /\ procs'[p] = x
      /\ \A q \in DOMAIN procs \ {p} : procs'[q] = procs[q]
  BY <1>1, <1>3, <1>4, ProcUpdate
<1>6. /\ conn' \in [Clients -> ConnRecord] /\ conn'[c].state = conn[c].state
      /\ conn'[c].down = conn[c].down /\ \A d \in Clients \ {c} : conn'[d] = conn[d]
  <2>1. PICK k \in 0..conn[c].up : conn' = [conn EXCEPT ![c].up = @ - k]
    BY <1>4
  <2>2. conn[c] \in ConnRecord /\ conn[c].up \in Int /\ k \in Int
    BY <1>1 DEF Typed, ConnRecord
  <2>3. [conn[c] EXCEPT !.up = conn[c].up - k] \in ConnRecord
    BY <2>2 DEF ConnRecord
  <2>4. conn' = [conn EXCEPT ![c] = [conn[c] EXCEPT !.up = conn[c].up - k]]
    BY <2>1
  <2> QED BY <1>1, <2>2, <2>3, <2>4 DEF Typed, ConnRecord
<1>7. Typed'
  BY <1>1, <1>4, <1>5, <1>6 DEF Typed
<1>8. \A q \in DOMAIN procs \ {p} : ~Serves(q, c)
  BY <1>2 DEF Owes
<1>9. Sent(c) = <<>> /\ conn[c].state = "accepted"
  BY <1>1, <1>2 DEF Owes
<1>10. Sent(c)' = Sent(c) /\ Response' = Response
  BY <1>4, <1>6 DEF Sent, Response
<1>11. cpc[c] # "start" /\ IsPrefix(Sent(c), Response)'
  BY <1>2, <1>9, <1>10 DEF SentInv, IsPrefix
<1>12. Sent(c)' \o procs'[p].left = Response
  BY <1>3, <1>5, <1>9, <1>10, ResponseType, ConcatEmptySeq
<1>13. Busy(p)' /\ procs'[p].sock = c /\ procs'[p].pc = "send"
  BY <1>3, <1>5 DEF Busy
<1> QED BY <1>2, <1>4, <1>5, <1>6, <1>7, <1>8, <1>9, <1>11, <1>12, <1>13, BusyWith

LEMMA Associate ==
    ASSUME NEW r \in Seq(Nat), NEW s \in Seq(Nat), NEW t \in Seq(Nat)
    PROVE  (r \o s) \o t = r \o (s \o t) /\ r \o s \in Seq(Nat)
<1>1. r \o s \in Seq(Nat) /\ s \o t \in Seq(Nat)
  BY ConcatProperties
<1>2. (r \o s) \o t \in Seq(Nat) /\ r \o (s \o t) \in Seq(Nat)
  BY <1>1, ConcatProperties
<1>3. /\ Len(r) \in Nat /\ Len(s) \in Nat /\ Len(t) \in Nat
      /\ Len(r \o s) = Len(r) + Len(s) /\ Len(s \o t) = Len(s) + Len(t)
  BY LenProperties, ConcatProperties
<1>4. /\ Len((r \o s) \o t) = Len(r) + Len(s) + Len(t)
      /\ Len(r \o (s \o t)) = Len(r) + Len(s) + Len(t)
  BY <1>1, <1>3, ConcatProperties
<1>5. ASSUME NEW i \in 1..(Len(r) + Len(s) + Len(t))
      PROVE  ((r \o s) \o t)[i] = (r \o (s \o t))[i]
  <2>1. ((r \o s) \o t)[i] = IF i <= Len(r \o s) THEN (r \o s)[i] ELSE t[i - Len(r \o s)]
    BY <1>1, <1>3, <1>5, ConcatProperties
  <2>2. (r \o (s \o t))[i] = IF i <= Len(r) THEN r[i] ELSE (s \o t)[i - Len(r)]
    BY <1>1, <1>3, <1>5, ConcatProperties
  <2>3. i <= Len(r \o s) => (r \o s)[i] = IF i <= Len(r) THEN r[i] ELSE s[i - Len(r)]
    BY <1>3, <1>5, ConcatProperties
  <2>4. i > Len(r) => (s \o t)[i - Len(r)] = IF i - Len(r) <= Len(s) THEN s[i - Len(r)]
                                               ELSE t[(i - Len(r)) - Len(s)]
    <3>1. i > Len(r) => i - Len(r) \in 1..(Len(s) + Len(t))
      BY <1>3, <1>5
    <3> QED BY <3>1, ConcatProperties
  <2>5. (i - Len(r)) - Len(s) = i - Len(r \o s) /\ (i - Len(r) <= Len(s) <=> i <= Len(r \o s))
    BY <1>3, <1>5
  <2>6. Len(r) <= Len(r \o s)
    BY <1>3
  <2> QED BY <1>3, <1>5, <2>1, <2>2, <2>3, <2>4, <2>5, <2>6
<1>6. (r \o s) \o t = r \o (s \o t)
  BY <1>2, <1>4, <1>5, SeqEqual
<1> QED BY <1>1, <1>6

\* A chunk moves from what is left to what was sent.
LEMMA ChunkMoves ==
    \A g, d, l \in Seq(Nat) : l # <<>> =>
        /\ Tail(l) \in Seq(Nat) /\ Append(d, Head(l)) \in Seq(Nat)
        /\ (g \o Append(d, Head(l))) \o Tail(l) = (g \o d) \o l
<1> SUFFICES ASSUME NEW g \in Seq(Nat), NEW d \in Seq(Nat), NEW l \in Seq(Nat), l # <<>>
             PROVE  /\ Tail(l) \in Seq(Nat) /\ Append(d, Head(l)) \in Seq(Nat)
                    /\ (g \o Append(d, Head(l))) \o Tail(l) = (g \o d) \o l
  OBVIOUS
<1> DEFINE h == <<Head(l)>>
<1>1. Head(l) \in Nat /\ Tail(l) \in Seq(Nat) /\ Head(l) = l[1] /\ Len(l) \in Nat \ {0}
  BY HeadTailProperties, EmptySeq
<1>2. l = h \o Tail(l)
  <2>1. l = SubSeq(l, 1, Len(l)) /\ Tail(l) = SubSeq(l, 2, Len(l))
    BY SubSeqFull, TailIsSubSeq
  <2>2. SubSeq(l, 1, Len(l)) = <<l[1]>> \o SubSeq(l, 1 + 1, Len(l))
    <3>1. 1 \in 1..Len(l) /\ Len(l) \in 1..Len(l)
      BY <1>1
    <3> QED BY <3>1, SubSeqRecursiveFirst
  <2> QED BY <1>1, <2>1, <2>2
<1>3. Append(d, Head(l)) \in Seq(Nat) /\ Append(d, Head(l)) = d \o h
  BY <1>1, AppendProperties, AppendIsConcat
<1>4. h \in Seq(Nat)
  BY <1>1
<1> HIDE DEF h
<1>5. (g \o d) \o h = g \o (d \o h) /\ g \o d \in Seq(Nat)
  BY <1>4, Associate
<1>6. ((g \o d) \o h) \o Tail(l) = (g \o d) \o (h \o Tail(l))
  BY <1>1, <1>4, <1>5, Associate, Zenon
<1> QED BY <1>1, <1>2, <1>3, <1>5, <1>6

LEMMA SendKeeps ==
    ASSUME SentInv, NEW p \in DOMAIN procs, Send(p)
    PROVE  SentInv'
<1>1. procs[p] \in ProcRecord /\ Typed /\ procs[p].pc = "send" /\ procs[p].left # <<>>
  BY ProcType DEF SentInv, Send
<1>2. PICK c \in Clients : c = procs[p].sock /\ Owes(p, c)
  BY <1>1 DEF SentInv, Busy
<1> DEFINE x == [procs[p] EXCEPT !.left = Tail(procs[p].left)]
           d == Append(conn[c].down, Head(procs[p].left))
<1>3. /\ procs[p].left \in Seq(Nat) /\ got[c] \in Seq(Nat) /\ conn[c].down \in Seq(Nat)
      /\ conn[c] \in ConnRecord
  BY <1>1 DEF ProcRecord, Typed, ConnRecord
<1>4. /\ Tail(procs[p].left) \in Seq(Nat) /\ d \in Seq(Nat)
      /\ (got[c] \o d) \o Tail(procs[p].left) = Sent(c) \o procs[p].left
  <2>1. \A l \in Seq(Nat) : l # <<>> =>
          /\ Tail(l) \in Seq(Nat) /\ Append(conn[c].down, Head(l)) \in Seq(Nat)
          /\ (got[c] \o Append(conn[c].down, Head(l))) \o Tail(l)
               = (got[c] \o conn[c].down) \o l
    BY <1>3, ChunkMoves
  <2> QED BY <1>1, <1>3, <2>1 DEF Sent
<1>5. /\ x \in ProcRecord /\ x.pc = "send" /\ x.sock = c /\ x.left = Tail(procs[p].left)
  BY <1>1, <1>2, <1>4 DEF ProcRecord
<1>6. procs' = [procs EXCEPT ![p] = x] /\ UNCHANGED <<found, cpc, got>>
  BY DEF Send, fixed, clients
<1>7. IF Ended(c) THEN UNCHANGED conn ELSE conn' = [conn EXCEPT ![c] = [conn[c] EXCEPT !.down = d]]
  BY <1>2 DEF Send
<1> HIDE DEF x, d
<1>8. /\ procs' \in Seq(ProcRecord) /\ DOMAIN procs' = DOMAIN procs /\ procs'[p] = x
      /\ \A q \in DOMAIN procs \ {p} : procs'[q] = procs[q]
  BY <1>1, <1>5, <1>6, ProcUpdate
<1>9. /\ conn' \in [Clients -> ConnRecord] /\ conn'[c].state = conn[c].state
      /\ conn'[c].down = IF Ended(c) THEN conn[c].down ELSE d
      /\ \A e \in Clients \ {c} : conn'[e] = conn[e]
  <2>1. [conn[c] EXCEPT !.down = d] \in ConnRecord
    BY <1>3, <1>4 DEF ConnRecord
  <2>2. /\ [conn[c] EXCEPT !.down = d].state = conn[c].state
        /\ [conn[c] EXCEPT !.down = d].down = d
    BY <1>3 DEF ConnRecord
  <2> QED BY <1>1, <1>7, <2>1, <2>2 DEF Typed
<1>10. Typed'
  BY <1>1, <1>6, <1>8, <1>9 DEF Typed
<1>11. \A q \in DOMAIN procs \ {p} : ~Serves(q, c)
  BY <1>2 DEF Owes
<1>12. conn[c].state = "accepted" /\ cpc[c] # "start"
  BY <1>2 DEF Owes, SentInv
<1>13. Response' = Response
  BY <1>6 DEF Response
<1>14. /\ Ended(c) \/ Sent(c)' \o procs'[p].left = Response
       /\ IsPrefix(Sent(c), Response)'
  <2>1. CASE Ended(c)
    <3>1. Sent(c)' = Sent(c)
      BY <1>6, <1>9, <2>1 DEF Sent
    <3> QED BY <1>13, <2>1, <3>1 DEF SentInv, IsPrefix
  <2>2. CASE ~Ended(c)
    <3>1. Sent(c)' = got[c] \o d /\ got[c] \o d \in Seq(Nat)
      BY <1>3, <1>4, <1>6, <1>9, <2>2, ConcatProperties DEF Sent
    <3>2. Sent(c) \o procs[p].left = Response
      BY <1>1, <1>2, <2>2 DEF Owes
    <3>3. Sent(c)' \o procs'[p].left = Response
      BY <1>4, <1>5, <1>8, <3>1, <3>2
    <3>4. IsPrefix(got[c] \o d, (got[c] \o d) \o Tail(procs[p].left))
      BY <1>4, <3>1, Beginning
    <3>5. IsPrefix(got[c] \o d, Response)
      BY <1>4, <3>2, <3>4
    <3> QED BY <1>13, <3>1, <3>3, <3>5 DEF IsPrefix
  <2> QED BY <2>1, <2>2
<1>15. Busy(p)' /\ procs'[p].sock = c /\ procs'[p].pc = "send"
  BY <1>5, <1>8 DEF Busy
<1>16. conn'[c].state = "accepted"
  BY <1>9, <1>12
<1> QED BY <1>6, <1>8, <1>9, <1>10, <1>11, <1>12, <1>14, <1>15, <1>16, BusyWith

\* What a client takes from the stream was sent and stays sent.
LEMMA TakeKeeps ==
    ASSUME Typed, NEW c \in Clients, NEW n \in 1..Len(conn[c].down), Take(c, n)
    PROVE  /\ conn' \in [Clients -> ConnRecord] /\ got' \in [Clients -> Seq(Nat)]
           /\ \A e \in Clients : Sent(e)' = Sent(e) /\ conn'[e].state = conn[e].state
<1> DEFINE s == conn[c].down
           a == SubSeq(s, 1, n)
           b == SubSeq(s, n + 1, Len(s))
<1>1. s \in Seq(Nat) /\ got[c] \in Seq(Nat) /\ conn[c] \in ConnRecord /\ Len(s) \in Nat
  BY LenProperties DEF Typed, ConnRecord
<1> HIDE DEF s
<1>2. n \in 1..Len(s)
  BY DEF s
<1>3. a \in Seq(Nat) /\ b \in Seq(Nat)
  <2>1. /\ \A i \in 1..n : s[i] \in Nat
        /\ \A i \in (n + 1)..Len(s) : s[i] \in Nat
    <3>1. \A i \in 1..Len(s) : s[i] \in Nat
      BY <1>1, ElementOfSeq
    <3>2. (n + 1)..Len(s) \subseteq 1..Len(s) /\ 1..n \subseteq 1..Len(s)
      BY <1>1, <1>2
    <3> QED BY <3>1, <3>2
  <2> QED BY <1>1, <1>2, <2>1, SubSeqProperties
<1>4. a \o b = s
  <2>1. 1 \in 1..Len(s) + 1 /\ n \in (1 - 1)..Len(s) /\ Len(s) \in n..Len(s)
    BY <1>1, <1>2
  <2> QED BY <1>1, <2>1, ConcatAdjacentSubSeq, SubSeqFull
<1>5. /\ conn' = [conn EXCEPT ![c] = [conn[c] EXCEPT !.down = b]]
      /\ got' = [got EXCEPT ![c] = got[c] \o a]
  BY DEF Take, s
<1> HIDE DEF a, b
<1>6. got[c] \o a \in Seq(Nat) /\ (got[c] \o a) \o b = got[c] \o s
  BY <1>1, <1>3, <1>4, Associate, Zenon
<1>7. /\ [conn[c] EXCEPT !.down = b] \in ConnRecord
      /\ [conn[c] EXCEPT !.down = b].state = conn[c].state
      /\ [conn[c] EXCEPT !.down = b].down = b
  BY <1>1, <1>3 DEF ConnRecord
<1>8. conn' \in [Clients -> ConnRecord] /\ got' \in [Clients -> Seq(Nat)]
  BY <1>5, <1>6, <1>7 DEF Typed
<1>9. Sent(c)' = Sent(c) /\ conn'[c].state = conn[c].state
  BY <1>5, <1>6, <1>7 DEF Typed, Sent, s
<1>10. \A e \in Clients \ {c} : Sent(e)' = Sent(e) /\ conn'[e].state = conn[e].state
  BY <1>5 DEF Sent, Typed
<1> QED BY <1>8, <1>9, <1>10

LEMMA ClientKeeps ==
    ASSUME SentInv, NEW c \in Clients, ClientStep(c) \/ Killed(c)
    PROVE  SentInv'
<1>1. Typed /\ conn[c] \in ConnRecord
  BY DEF SentInv, Typed
<1>2. /\ UNCHANGED <<found, procs>> /\ ~Ended(c) /\ cpc' = [cpc EXCEPT ![c] = cpc'[c]]
      /\ cpc'[c] \in {"request", "first", "loop", "write", "done", "failed", "killed"}
  BY <1>1
  DEF Typed, ClientStep, Connect, CannotConnect, SendRequest,
      RecvFirst, RecvLoop, WriteBack, RecvEnd, Killed,
      Client, Ended, fixed
<1>3. /\ conn' \in [Clients -> ConnRecord] /\ got' \in [Clients -> Seq(Nat)]
      /\ \A e \in Clients : /\ Sent(e)' = Sent(e)
                            /\ conn'[e].state = conn[e].state \/ conn[e].state = "none"
      /\ \A e \in Clients \ {c} : conn'[e] = conn[e]
  <2>1. CASE UNCHANGED <<conn, got>>
    BY <1>1, <2>1 DEF Typed, Sent
  <2>2. CASE \E n \in 1..Len(conn[c].down) : Take(c, n)
    <3>1. PICK n \in 1..Len(conn[c].down) : Take(c, n)
      BY <2>2
    <3>2. \A e \in Clients \ {c} : conn'[e] = conn[e]
      BY <3>1 DEF Take
    <3> QED BY <1>1, <3>1, <3>2, TakeKeeps
  <2>3. CASE Connect(c) \/ SendRequest(c) \/ WriteBack(c)
    <3>1. cpc[c] = "start" => conn[c].state = "none"
      BY DEF SentInv
    <3>2. got' = got
      BY <2>3 DEF Connect, SendRequest, WriteBack
    <3>3. /\ conn' \in [Clients -> ConnRecord] /\ conn'[c].down = conn[c].down
          /\ conn'[c].state = conn[c].state \/ conn[c].state = "none"
          /\ \A e \in Clients \ {c} : conn'[e] = conn[e]
      <4>1. CASE Connect(c)
        <5>1. cpc[c] = "start" /\ conn' = [conn EXCEPT ![c].state = "queued"]
          BY <4>1 DEF Connect, Client
        <5> QED BY <1>1, <3>1, <5>1 DEF Typed, ConnRecord
      <4>2. CASE SendRequest(c)
        <5>1. conn' = [conn EXCEPT ![c] = [conn[c] EXCEPT !.up = 1]]
          BY <4>2 DEF SendRequest
        <5>2. /\ [conn[c] EXCEPT !.up = 1] \in ConnRecord
              /\ [conn[c] EXCEPT !.up = 1].state = conn[c].state
              /\ [conn[c] EXCEPT !.up = 1].down = conn[c].down
          BY <1>1 DEF ConnRecord
        <5> QED BY <1>1, <5>1, <5>2 DEF Typed
      <4>3. CASE WriteBack(c)
        <5>1. conn' = [conn EXCEPT ![c] = [conn[c] EXCEPT !.up = conn[c].up + 1]]
          BY <4>3 DEF WriteBack
        <5>2. /\ [conn[c] EXCEPT !.up = conn[c].up + 1] \in ConnRecord
              /\ [conn[c] EXCEPT !.up = conn[c].up + 1].state = conn[c].state
              /\ [conn[c] EXCEPT !.up = conn[c].up + 1].down = conn[c].down
          BY <1>1 DEF ConnRecord
        <5> QED BY <1>1, <5>1, <5>2 DEF Typed
      <4> QED BY <2>3, <4>1, <4>2, <4>3
    <3> QED BY <1>1, <3>2, <3>3 DEF Typed, Sent
  <2> QED BY <2>1, <2>2, <2>3 DEF ClientStep, CannotConnect, RecvFirst,
                                 RecvLoop, RecvEnd, Killed
<1>4. Typed'
  BY <1>1, <1>2, <1>3 DEF Typed
<1>5. \A e \in Clients : /\ Ended(e) => Ended(e)'
                         /\ cpc'[e] = "start" => cpc[e] = "start" /\ conn'[e] = conn[e]
  BY <1>1, <1>2, <1>3 DEF Ended, Typed
<1> QED BY <1>2, <1>3, <1>4, <1>5, ClientsKeep

LEMMA StepSentInv == SentInv /\ [Next]_vars => SentInv'
<1> SUFFICES ASSUME SentInv, [Next]_vars PROVE SentInv'
  OBVIOUS
<1>1. ASSUME NEW p \in DOMAIN procs, Process(p) PROVE SentInv'
  BY <1>1, IdleSteps, AcceptKeeps, ForkKeeps, RecvKeeps, SendKeeps DEF Process
<1>2. ASSUME NEW c \in Clients, ClientStep(c) \/ Killed(c) PROVE SentInv'
  BY <1>2, ClientKeeps
<1>3. CASE UNCHANGED vars
  <2>1. UNCHANGED <<found, procs, conn, cpc, got>>
    BY <1>3 DEF vars, fixed
  <2>2. Response' = Response /\ \A c : Ended(c)' = Ended(c)
    BY <2>1 DEF Response, Ended
  <2> QED BY <2>1, <2>2 DEF SentInv, Typed, Owes, Serves, Busy, Sent, IsPrefix
<1> QED BY <1>1, <1>2, <1>3 DEF Next

\* gfserver.c and gfclient.c of pr1/gflib/copy: although every process keeps
\* hSocket and all descriptors, each client is sent the response to it once and
\* in order, for any number of clients and chunks.
THEOREM DraftResponses == Spec => []ResponseOnce
<1>1. SentInv => ResponseOnce
  BY DEF SentInv, ResponseOnce, Sent
<1> QED BY <1>1, InitSentInv, StepSentInv, PTL DEF Spec

-----------------------------------------------------------------------------
(* The descriptors.                                                        *)

DescriptorInv ==
    /\ Descriptors /\ limit \in Nat
    /\ IsFiniteSet(Accepted) /\ IsFiniteSet(Places)
    /\ \A p \in DOMAIN procs : IsFiniteSet(procs[p].open)

LEMMA NonEmptySets == \A s, F : s \in (SUBSET F) \ {{}} <=> s \in SUBSET F /\ s # {}
<1>1. \A s : s \in {{}} <=> s = {}
  OBVIOUS
<1> QED BY <1>1

LEMMA Triples ==
    \A x, p, H, F : x \in {p} \X H \X ((SUBSET F) \ {{}}) <=>
                      \E h \in H, s \in SUBSET F : s # {} /\ x = <<p, h, s>>
<1> SUFFICES ASSUME NEW x, NEW p, NEW H, NEW F
             PROVE  x \in {p} \X H \X ((SUBSET F) \ {{}}) <=>
                      \E h \in H, s \in SUBSET F : s # {} /\ x = <<p, h, s>>
  OBVIOUS
<1> DEFINE G == (SUBSET F) \ {{}}
<1>1. \A s : s \in G <=> s \in SUBSET F /\ s # {}
  BY NonEmptySets, Zenon
<1> HIDE DEF G
<1>2. x \in {p} \X H \X G <=> \E h \in H, s \in G : x = <<p, h, s>>
  OBVIOUS
<1> QED BY <1>1, <1>2 DEF G

LEMMA PlaceIs ==
    \A x : x \in Places <=> \E p \in DOMAIN procs : \E h \in Holders(p), s \in SUBSET Free(p) :
                              s # {} /\ x = <<p, h, s>>
<1>1. \A x : x \in Places <=>
                \E p \in DOMAIN procs : x \in {p} \X Holders(p) \X ((SUBSET Free(p)) \ {{}})
  BY DEF Places
<1> QED BY <1>1, Triples

LEMMA PlaceIsPrimed ==
    \A x : x \in Places' <=>
        \E p \in DOMAIN procs' : \E h \in Holders(p)', s \in SUBSET (Free(p)') :
          s # {} /\ x = <<p, h, s>>
<1>1. \A x : x \in Places' <=>
                \E p \in DOMAIN procs' :
                  x \in {p} \X Holders(p)' \X ((SUBSET (Free(p)')) \ {{}})
  BY DEF Places
<1> QED BY <1>1, Triples

\* The sets of limit descriptors.
LEMMA Powers ==
    ASSUME limit \in Nat
    PROVE  /\ IsFiniteSet(SUBSET (1..limit)) /\ Cardinality(SUBSET (1..limit)) = 2 ^ limit
           /\ 2 ^ limit \in Nat
<1>1. IsFiniteSet(1..limit) /\ Cardinality(1..limit) = limit
  BY FS_Interval
<1> QED BY <1>1, FS_SUBSET, FS_CardinalityType

LEMMA Injected ==
    ASSUME NEW S, NEW T, IsFiniteSet(T), NEW f \in [S -> T],
           \A x, y \in S : f[x] = f[y] => x = y
    PROVE  IsFiniteSet(S) /\ Cardinality(S) <= Cardinality(T)
<1>1. f \in Injection(S, T)
  BY DEF Injection, IsInjective
<1> QED BY <1>1, FS_Injection

LEMMA InitPlaces ==
    ASSUME Init, limit \in Nat
    PROVE  IsFiniteSet(Places) /\ Cardinality(Places) < 2 ^ limit
<1> DEFINE T == (SUBSET (1..limit)) \ {{}}
           f == [x \in Places |-> x[3]]
<1>1. IsFiniteSet(T) /\ Cardinality(T) = 2 ^ limit - 1 /\ 2 ^ limit \in Nat
  <2>1. \A P, E : IsFiniteSet(P) /\ E \in P =>
                   IsFiniteSet(P \ {E}) /\ Cardinality(P \ {E}) = Cardinality(P) - 1
    BY FS_RemoveElement
  <2>2. {} \in SUBSET (1..limit)
    OBVIOUS
  <2>3. IsFiniteSet(T) /\ Cardinality(T) = Cardinality(SUBSET (1..limit)) - 1
    BY <2>1, <2>2, Powers
  <2> HIDE DEF T
  <2> QED BY <2>3, Powers
<1>2. DOMAIN procs = {1} /\ Holders(1) = {"parent"} /\ Free(1) \subseteq 1..limit
  BY DEF Init, Holders, Free
<1>3. \A x \in Places : \E s \in SUBSET (1..limit) : s # {} /\ x = <<1, "parent", s>>
  BY <1>2, PlaceIs
<1>4. \A x \in Places : x[3] \in T /\ x = <<1, "parent", x[3]>>
  <2> SUFFICES ASSUME NEW x \in Places PROVE x[3] \in T /\ x = <<1, "parent", x[3]>>
    OBVIOUS
  <2>1. PICK s \in SUBSET (1..limit) : s # {} /\ x = <<1, "parent", s>>
    BY <1>3
  <2>2. x[3] = s
    BY <2>1
  <2>3. s \in T
    BY <2>1, NonEmptySets, Zenon
  <2> HIDE DEF T
  <2> QED BY <2>1, <2>2, <2>3
<1>5. f \in [Places -> T] /\ \A x, y \in Places : f[x] = f[y] => x = y
  <2> HIDE DEF T
  <2>1. \A x \in Places : f[x] = x[3]
    OBVIOUS
  <2>2. f \in [Places -> T]
    BY <1>4
  <2> HIDE DEF f
  <2> QED BY <1>4, <2>1, <2>2
<1>6. IsFiniteSet(Places) /\ Cardinality(Places) <= Cardinality(T)
  <2> HIDE DEF f, T
  <2> QED BY <1>1, <1>5, Injected
<1> QED BY <1>1, <1>6, FS_CardinalityType

LEMMA InitDescriptors == Init => DescriptorInv
<1> SUFFICES ASSUME Init PROVE DescriptorInv
  OBVIOUS
<1>1. limit \in Nat
  BY SizeAssumption DEF Init
<1>2. Accepted = {} /\ IsFiniteSet({}) /\ Cardinality({}) = 0
  BY FS_EmptySet DEF Init, Accepted, NoConn
<1>3. DOMAIN procs = {1} /\ procs[1].open = {} /\ procs[1].pc = "start" /\ procs[1].left = <<>>
  BY DEF Init
<1>4. TypeOK
  <2>1. ProcOK(1)
    BY <1>1, <1>2, <1>3 DEF ProcOK
  <2>2. \A c \in Clients : conn[c].up \in 0..Room /\ Len(conn[c].down) <= Room
    BY SizeAssumption, EmptySeq DEF Init, NoConn
  <2> QED BY <1>3, <2>1, <2>2 DEF TypeOK
<1>5. IsFiniteSet(Places) /\ Capacity
  BY <1>1, <1>2, InitPlaces, FS_CardinalityType DEF Capacity
<1> QED BY <1>1, <1>2, <1>3, <1>4, <1>5 DEF DescriptorInv, Descriptors

\* No place is gained.
LEMMA NoPlaceGained ==
    ASSUME DescriptorInv, UNCHANGED <<limit, Accepted>>,
           IsFiniteSet(Places'), Cardinality(Places') <= Cardinality(Places)
    PROVE  Capacity'
BY Powers, FS_CardinalityType DEF DescriptorInv, Descriptors, Capacity

LEMMA PlacesKept ==
    ASSUME DescriptorInv, UNCHANGED limit, DOMAIN procs' = DOMAIN procs,
           \A q \in DOMAIN procs :
             \/ procs'[q].pc = "dead"
             \/ /\ procs'[q].open = procs[q].open /\ procs[q].pc # "dead" /\ procs'[q].pc # "fork"
             \/ procs'[q] = procs[q]
    PROVE  IsFiniteSet(Places') /\ Cardinality(Places') <= Cardinality(Places)
<1>1. \A q \in DOMAIN procs : \/ Holders(q)' = {}
                              \/ Holders(q)' \subseteq Holders(q) /\ Free(q)' = Free(q)
  BY DEF Holders, Free
<1>2. Places' \subseteq Places
  BY <1>1, PlaceIs, PlaceIsPrimed
<1> QED BY <1>2, FS_Subset DEF DescriptorInv

\* A process takes a descriptor for the connection it accepts.  The places of its
\* child to be were its own with that descriptor, and the descriptor alone is the
\* place of the connection.
LEMMA AcceptPlaces ==
    ASSUME Typed, DescriptorInv, NEW p \in DOMAIN procs, NEW c \in Clients, Accept(p, c)
    PROVE  IsFiniteSet(Places') /\ Cardinality(Places') <= Cardinality(Places) - 1
<1> DEFINE k == Cardinality(procs[p].open)
           t == <<p, "parent", {k + 1}>>
           T == Places \ {t}
           f == [x \in Places' |-> IF x[1] = p /\ x[2] = "child"
                                   THEN <<p, "parent", x[3] \cup {k + 1}>> ELSE x]
<1>1. /\ limit' = limit /\ limit \in Nat /\ IsFiniteSet(procs[p].open) /\ k \in Nat /\ k < limit
      /\ c \notin procs[p].open
  BY FS_CardinalityType
  DEF Accept, fixed, DescriptorInv, Descriptors, TypeOK, ProcOK, Accepted
<1>2. /\ procs[p] \in ProcRecord /\ procs[p].pc = "accept"
      /\ DOMAIN procs' = DOMAIN procs /\ \A q \in DOMAIN procs \ {p} : procs'[q] = procs[q]
      /\ procs'[p].pc = "fork" /\ procs'[p].open = procs[p].open \cup {c}
  BY ProcType DEF Accept, ProcRecord
<1>3. Cardinality(procs'[p].open) = k + 1
  BY <1>1, <1>2, FS_AddElement
<1>4. /\ Holders(p) = {"parent"} /\ Holders(p)' = {"parent", "child"}
      /\ Free(p) = {n \in 1..limit : n > k} /\ Free(p)' = {n \in 1..limit : n > k + 1}
  BY <1>1, <1>2, <1>3 DEF Holders, Free
<1>5. \A q \in DOMAIN procs \ {p} : Holders(q)' = Holders(q) /\ Free(q)' = Free(q)
  BY <1>1, <1>2 DEF Holders, Free
<1> HIDE DEF k
<1>6. k + 1 \in Free(p) /\ k + 1 \notin Free(p)' /\ Free(p)' \subseteq Free(p)
  BY <1>1, <1>4
<1>7. t \in Places
  <2>1. {k + 1} \in SUBSET Free(p) /\ {k + 1} # {}
    BY <1>6
  <2> QED BY <1>4, <2>1, PlaceIs
\* What a place is afterwards, and what f makes of it.
<1>8. ASSUME NEW x \in Places'
      PROVE  \/ \E q \in DOMAIN procs \ {p} : \E h \in Holders(q), s \in SUBSET Free(q) :
                  s # {} /\ x = <<q, h, s>> /\ f[x] = x
             \/ \E s \in SUBSET (Free(p)') : s # {} /\ x = <<p, "parent", s>> /\ f[x] = x
             \/ \E s \in SUBSET (Free(p)') : /\ s # {} /\ x = <<p, "child", s>>
                                             /\ f[x] = <<p, "parent", s \cup {k + 1}>>
  <2>1. PICK q \in DOMAIN procs : \E h \in Holders(q)', s \in SUBSET (Free(q)') :
               s # {} /\ x = <<q, h, s>>
    BY <1>2, <1>8, PlaceIsPrimed
  <2>2. PICK h \in Holders(q)', s \in SUBSET (Free(q)') : s # {} /\ x = <<q, h, s>>
    BY <2>1
  <2>3. x[1] = q /\ x[2] = h /\ x[3] = s
    BY <2>2
  <2>4. f[x] = IF q = p /\ h = "child" THEN <<p, "parent", s \cup {k + 1}>> ELSE x
    BY <1>8, <2>3
  <2> HIDE DEF f
  <2>5. CASE q # p
    BY <1>5, <2>2, <2>4, <2>5
  <2>6. CASE q = p
    BY <1>4, <2>2, <2>4, <2>6
  <2> QED BY <2>5, <2>6
<1>9. f \in [Places' -> T]
  <2>1. ASSUME NEW x \in Places' PROVE f[x] \in T
    <3>1. CASE \E q \in DOMAIN procs \ {p} : \E h \in Holders(q), s \in SUBSET Free(q) :
                 s # {} /\ x = <<q, h, s>> /\ f[x] = x
      BY <3>1, PlaceIs
    <3>2. CASE \E s \in SUBSET (Free(p)') : s # {} /\ x = <<p, "parent", s>> /\ f[x] = x
      <4>1. PICK s \in SUBSET (Free(p)') : s # {} /\ x = <<p, "parent", s>> /\ f[x] = x
        BY <3>2
      <4>2. s \in SUBSET Free(p) /\ s # {k + 1}
        BY <1>6
      <4>3. f[x] \in Places
        BY <1>4, <4>1, <4>2, PlaceIs
      <4>4. f[x] # t
        BY <4>1, <4>2
      <4> QED BY <4>3, <4>4
    <3>3. CASE \E s \in SUBSET (Free(p)') : /\ s # {} /\ x = <<p, "child", s>>
                                            /\ f[x] = <<p, "parent", s \cup {k + 1}>>
      <4>1. PICK s \in SUBSET (Free(p)') : /\ s # {} /\ x = <<p, "child", s>>
                                           /\ f[x] = <<p, "parent", s \cup {k + 1}>>
        BY <3>3
      <4>2. /\ s \cup {k + 1} \in SUBSET Free(p) /\ s \cup {k + 1} # {}
            /\ s \cup {k + 1} # {k + 1}
        BY <1>6, <4>1
      <4>3. f[x] \in Places
        BY <1>4, <4>1, <4>2, PlaceIs
      <4>4. f[x] # t
        BY <4>1, <4>2
      <4> QED BY <4>3, <4>4
    <3> HIDE DEF f, T
    <3> QED BY <1>8, <3>1, <3>2, <3>3
  <2> QED BY <2>1
<1>10. ASSUME NEW x \in Places', NEW y \in Places', f[x] = f[y] PROVE x = y
  <2>1. \A s, r \in SUBSET (Free(p)') : /\ s \cup {k + 1} = r \cup {k + 1} => s = r
                                       /\ s # r \cup {k + 1}
    BY <1>6
  <2> HIDE DEF f
  <2>2. \A q, h, s, r : <<q, h, s>> = <<p, "parent", r>> => q = p /\ s = r
    OBVIOUS
  <2>3. /\ \/ x[1] # p /\ f[x] = x /\ f[x][1] # p
           \/ \E s \in SUBSET (Free(p)') : x = <<p, "parent", s>> /\ f[x] = x
           \/ \E s \in SUBSET (Free(p)') : /\ x = <<p, "child", s>>
                                           /\ f[x] = <<p, "parent", s \cup {k + 1}>>
        /\ \/ y[1] # p /\ f[y] = y /\ f[y][1] # p
           \/ \E s \in SUBSET (Free(p)') : y = <<p, "parent", s>> /\ f[y] = y
           \/ \E s \in SUBSET (Free(p)') : /\ y = <<p, "child", s>>
                                           /\ f[y] = <<p, "parent", s \cup {k + 1}>>
    <3>1. \A q, h, s : <<q, h, s>>[1] = q
      OBVIOUS
    <3> QED BY <1>8, <3>1
  <2>4. \A s : <<p, "parent", s>>[1] = p
    OBVIOUS
  <2> QED BY <1>10, <2>1, <2>2, <2>3, <2>4
<1>11. IsFiniteSet(T) /\ Cardinality(T) = Cardinality(Places) - 1
  BY <1>7, FS_RemoveElement DEF DescriptorInv
<1> HIDE DEF f, T
<1> QED BY <1>9, <1>10, <1>11, Injected

\* The places that a parent held for its child are the child's.
LEMMA ForkPlaces ==
    ASSUME Typed, DescriptorInv, NEW p \in DOMAIN procs, Fork(p)
    PROVE  IsFiniteSet(Places') /\ Cardinality(Places') <= Cardinality(Places)
<1>1. /\ procs \in Seq(ProcRecord) /\ procs[p] \in ProcRecord /\ procs[p].pc = "fork"
      /\ limit' = limit
  BY ProcType DEF Typed, Fork, fixed
<1>2. PICK n : /\ n \notin DOMAIN procs /\ DOMAIN procs' = DOMAIN procs \cup {n}
               /\ procs'[n] = [procs[p] EXCEPT !.pc = "recv"]
               /\ procs'[p] = [procs[p] EXCEPT !.pc = "accept"]
               /\ \A q \in DOMAIN procs \ {p} : procs'[q] = procs[q]
  BY ForkedProcs
<1> DEFINE f == [x \in Places' |-> IF x[1] = n THEN <<p, "child", x[3]>> ELSE x]
<1>3. /\ Holders(p) = {"parent", "child"} /\ Holders(p)' = {"parent"} /\ Holders(n)' = {"parent"}
      /\ Free(p)' = Free(p) /\ Free(n)' = Free(p)
  BY <1>1, <1>2 DEF Holders, Free, ProcRecord
<1>4. \A q \in DOMAIN procs \ {p} : Holders(q)' = Holders(q) /\ Free(q)' = Free(q)
  BY <1>1, <1>2 DEF Holders, Free
<1>5. ASSUME NEW x \in Places'
      PROVE  \/ \E q \in DOMAIN procs : \E h \in Holders(q), s \in SUBSET Free(q) :
                  /\ s # {} /\ x = <<q, h, s>> /\ f[x] = x
                  /\ q = p => h = "parent"
             \/ \E s \in SUBSET Free(p) : /\ s # {} /\ x = <<n, "parent", s>>
                                          /\ f[x] = <<p, "child", s>>
  <2>1. PICK q \in DOMAIN procs \cup {n} : \E h \in Holders(q)', s \in SUBSET (Free(q)') :
               s # {} /\ x = <<q, h, s>>
    BY <1>2, <1>5, PlaceIsPrimed
  <2>2. PICK h \in Holders(q)', s \in SUBSET (Free(q)') : s # {} /\ x = <<q, h, s>>
    BY <2>1
  <2>3. x[1] = q /\ x[2] = h /\ x[3] = s
    BY <2>2
  <2>4. f[x] = IF q = n THEN <<p, "child", s>> ELSE x
    BY <1>5, <2>3
  <2> HIDE DEF f
  <2>5. CASE q = n
    BY <1>3, <2>2, <2>4, <2>5
  <2>6. CASE q = p
    BY <1>2, <1>3, <2>2, <2>4, <2>6
  <2>7. CASE q \in DOMAIN procs \ {p}
    BY <1>2, <1>4, <2>2, <2>4, <2>7
  <2> QED BY <2>1, <2>5, <2>6, <2>7
<1> HIDE DEF f
<1>6. f \in [Places' -> Places]
  <2>1. ASSUME NEW x \in Places' PROVE f[x] \in Places
    BY <1>3, <1>5, PlaceIs
  <2> QED BY <2>1 DEF f
<1>7. ASSUME NEW x \in Places', NEW y \in Places', f[x] = f[y] PROVE x = y
  <2>1. \A q, h, s, r : <<q, h, s>> = <<p, "child", r>> => q = p /\ h = "child" /\ s = r
    OBVIOUS
  <2> QED BY <1>5, <1>7, <2>1
<1> QED BY <1>6, <1>7, Injected DEF DescriptorInv

\* What a connection holds stays within the socket buffers.
Bounded == \A c \in Clients : conn[c].up \in 0..Room /\ Len(conn[c].down) <= Room

\* One process moves on, with the same connection and descriptors, or dies.
LEMMA OneMoves ==
    ASSUME Typed, DescriptorInv, NEW p \in DOMAIN procs, NEW x \in ProcRecord,
           procs' = [procs EXCEPT ![p] = x], UNCHANGED <<limit, Accepted>>, Bounded',
           procs[p].pc # "dead", x.sock = procs[p].sock,
           x.pc \in {"accept", "recv", "send", "dead"},
           x.pc \in {"recv", "send"} => procs[p].pc \in {"recv", "send"},
           x.open = procs[p].open \/ (x.open = {} /\ x.pc = "dead"),
           x.left # <<>> => x.pc \in {"send", "dead"}
    PROVE  DescriptorInv'
<1>1. /\ DOMAIN procs' = DOMAIN procs /\ procs'[p] = x
      /\ \A q \in DOMAIN procs \ {p} : procs'[q] = procs[q]
  BY ProcUpdate
<1>2. IsFiniteSet(Places') /\ Cardinality(Places') <= Cardinality(Places)
  BY <1>1, PlacesKept
<1>3. Capacity'
  BY <1>2, NoPlaceGained
<1>4. ASSUME NEW q \in DOMAIN procs PROVE ProcOK(q)' /\ IsFiniteSet(procs'[q].open)
  <2>1. ProcOK(q) /\ IsFiniteSet(procs[q].open) /\ limit \in Nat
    BY DEF DescriptorInv, Descriptors, TypeOK
  <2>2. CASE q = p
    <3>1. /\ IsFiniteSet(x.open) /\ Cardinality(x.open) <= limit
          /\ x.open \subseteq Accepted
      <4>1. CASE x.open = {}
        BY <2>1, <4>1, FS_EmptySet
      <4>2. CASE x.open = procs[p].open
        BY <2>1, <2>2, <4>2 DEF ProcOK
      <4> QED BY <4>1, <4>2
    <3>2. x.pc \in {"recv", "send"} => x.sock \in x.open
      BY <2>1, <2>2 DEF ProcOK
    <3> QED BY <1>1, <2>2, <3>1, <3>2 DEF ProcOK
  <2>3. CASE q # p
    BY <1>1, <2>1, <2>3 DEF ProcOK
  <2> QED BY <2>2, <2>3
<1> QED BY <1>1, <1>2, <1>3, <1>4 DEF DescriptorInv, Descriptors, TypeOK, Bounded

LEMMA OneDescriptors ==
    ASSUME Typed, DescriptorInv, NEW p \in DOMAIN procs,
           \/ Listen(p) \/ CannotListen(p) \/ ForkFails(p) \/ Dies(p) \/ Shutdown(p)
           \/ Recv(p) \/ Send(p)
    PROVE  DescriptorInv'
<1>1. procs[p] \in ProcRecord /\ ProcOK(p) /\ Bounded /\ conn \in [Clients -> ConnRecord]
  BY ProcType DEF DescriptorInv, Descriptors, TypeOK, Typed, Bounded
<1>2. limit' = limit
  BY DEF Listen, CannotListen, ForkFails, Dies, Shutdown, Recv, Send, fixed
<1>3. PICK x \in ProcRecord :
          /\ procs' = [procs EXCEPT ![p] = x] /\ procs[p].pc # "dead" /\ x.sock = procs[p].sock
          /\ x.pc \in {"accept", "recv", "send", "dead"}
          /\ x.pc \in {"recv", "send"} => procs[p].pc \in {"recv", "send"}
          /\ x.open = procs[p].open \/ (x.open = {} /\ x.pc = "dead")
          /\ x.left # <<>> => x.pc \in {"send", "dead"}
  <2>1. CASE Listen(p) \/ CannotListen(p) \/ ForkFails(p) \/ Shutdown(p)
    <3>1. PICK to \in {"accept", "dead"} :
              procs' = [procs EXCEPT ![p] = [procs[p] EXCEPT !.pc = to]]
      BY <2>1 DEF Listen, CannotListen, ForkFails, Shutdown, Goto
    <3>2. procs[p].pc # "dead" /\ procs[p].left = <<>>
      BY <1>1, <2>1 DEF Listen, CannotListen, ForkFails, Shutdown, Goto, ProcOK
    <3> DEFINE x == [procs[p] EXCEPT !.pc = to]
    <3>3. x \in ProcRecord /\ x.pc = to /\ x.sock = procs[p].sock /\ x.open = procs[p].open
          /\ x.left = procs[p].left
      BY <1>1 DEF ProcRecord
    <3> HIDE DEF x
    <3> QED BY <3>1, <3>2, <3>3 DEF x
  <2>2. CASE Dies(p)
    <3> DEFINE x == [procs[p] EXCEPT !.pc = "dead", !.open = {}]
    <3>1. x \in ProcRecord /\ x.pc = "dead" /\ x.sock = procs[p].sock /\ x.open = {}
      BY <1>1 DEF ProcRecord
    <3>2. procs' = [procs EXCEPT ![p] = x] /\ procs[p].pc # "dead"
      BY <2>2 DEF Dies
    <3> HIDE DEF x
    <3> QED BY <3>1, <3>2
  <2>3. CASE Recv(p)
    <3> DEFINE x == [procs[p] EXCEPT !.pc = "send", !.left = Response]
    <3>1. /\ x \in ProcRecord /\ x.pc = "send" /\ x.sock = procs[p].sock
          /\ x.open = procs[p].open
      BY <1>1, ResponseType DEF ProcRecord
    <3>2. procs' = [procs EXCEPT ![p] = x] /\ procs[p].pc = "recv"
      BY <2>3 DEF Recv
    <3> HIDE DEF x
    <3> QED BY <3>1, <3>2
  <2>4. CASE Send(p)
    <3> DEFINE x == [procs[p] EXCEPT !.left = Tail(procs[p].left)]
    <3>1. procs[p].pc = "send" /\ procs[p].left \in Seq(Nat) /\ procs[p].left # <<>>
      BY <1>1, <2>4 DEF Send, ProcRecord
    <3>2. Tail(procs[p].left) \in Seq(Nat)
      BY <3>1, HeadTailProperties
    <3>3. /\ x \in ProcRecord /\ x.pc = "send" /\ x.sock = procs[p].sock
          /\ x.open = procs[p].open
      BY <1>1, <3>1, <3>2 DEF ProcRecord
    <3>4. procs' = [procs EXCEPT ![p] = x]
      BY <2>4 DEF Send
    <3> HIDE DEF x
    <3> QED BY <3>1, <3>3, <3>4
  <2> QED BY <2>1, <2>2, <2>3, <2>4
<1>4. Accepted' = Accepted /\ Bounded'
  <2>1. CASE UNCHANGED conn
    BY <1>1, <2>1 DEF Accepted, Bounded
  <2>2. CASE Shutdown(p)
    <3>1. conn' = [conn EXCEPT ![procs[p].sock].shut = TRUE]
      BY <2>2 DEF Shutdown
    <3>2. \A c \in Clients : /\ conn'[c].state = conn[c].state /\ conn'[c].up = conn[c].up
                             /\ conn'[c].down = conn[c].down
      BY <1>1, <3>1 DEF ConnRecord
    <3> QED BY <1>1, <3>2 DEF Accepted, Bounded
  <2>3. CASE Recv(p)
    <3> PICK c : c = procs[p].sock
      OBVIOUS
    <3>1. PICK n \in 0..conn[c].up : conn' = [conn EXCEPT ![c] = [conn[c] EXCEPT !.up = conn[c].up - n]]
      BY <2>3 DEF Recv
    <3>2. c \in Clients
      BY <1>1, <2>3 DEF Recv, ProcOK, Accepted
    <3>3. \A d \in Clients : /\ conn'[d].state = conn[d].state /\ conn'[d].down = conn[d].down
                             /\ conn'[d].up = IF d = c THEN conn[c].up - n ELSE conn[d].up
      BY <1>1, <3>1 DEF ConnRecord
    <3>4. \A d \in Clients : conn'[d].up \in 0..Room
      BY <1>1, <3>1, <3>2, <3>3, SizeAssumption DEF Bounded
    <3> QED BY <1>1, <3>3, <3>4 DEF Accepted, Bounded
  <2>4. CASE Send(p) /\ ~UNCHANGED conn
    <3> PICK c : c = procs[p].sock
      OBVIOUS
    <3> DEFINE d == Append(conn[c].down, Head(procs[p].left))
    <3>1. conn' = [conn EXCEPT ![c] = [conn[c] EXCEPT !.down = d]] /\ Len(conn[c].down) < Room
      BY <2>4 DEF Send
    <3>2. c \in Clients /\ procs[p].left \in Seq(Nat) /\ procs[p].left # <<>>
      BY <1>1, <2>4 DEF Send, ProcOK, Accepted, ProcRecord
    <3>3. conn[c].down \in Seq(Nat) /\ Head(procs[p].left) \in Nat
      BY <1>1, <3>2, HeadTailProperties DEF ConnRecord
    <3>4. Len(d) = Len(conn[c].down) + 1 /\ Len(conn[c].down) \in Nat
      BY <3>3, AppendProperties, LenProperties
    <3> HIDE DEF d
    <3>5. \A e \in Clients : /\ conn'[e].state = conn[e].state /\ conn'[e].up = conn[e].up
                             /\ conn'[e].down = IF e = c THEN d ELSE conn[e].down
      BY <1>1, <3>1 DEF ConnRecord
    <3>6. \A e \in Clients : Len(conn'[e].down) <= Room
      BY <1>1, <3>1, <3>4, <3>5, SizeAssumption DEF Bounded
    <3> QED BY <1>1, <3>5, <3>6 DEF Accepted, Bounded
  <2> QED BY <2>1, <2>2, <2>3, <2>4 DEF Listen, CannotListen, ForkFails, Dies
<1> QED BY <1>2, <1>3, <1>4, OneMoves

LEMMA AcceptDescriptors ==
    ASSUME Typed, DescriptorInv, NEW p \in DOMAIN procs, NEW c \in Clients, Accept(p, c)
    PROVE  DescriptorInv'
<1>1. /\ procs[p] \in ProcRecord /\ TypeOK /\ conn \in [Clients -> ConnRecord]
      /\ limit \in Nat /\ limit' = limit
  BY ProcType DEF DescriptorInv, Descriptors, Typed, Accept, fixed
<1>2. /\ DOMAIN procs' = DOMAIN procs /\ \A q \in DOMAIN procs \ {p} : procs'[q] = procs[q]
      /\ procs[p].pc = "accept" /\ procs'[p].pc = "fork" /\ procs'[p].sock = c
      /\ procs'[p].open = procs[p].open \cup {c} /\ procs'[p].left = procs[p].left
  BY <1>1 DEF Accept, ProcRecord
<1>3. conn[c].state = "queued" /\ conn' = [conn EXCEPT ![c].state = "accepted"]
  BY DEF Accept
<1>4. Accepted' = Accepted \cup {c} /\ c \notin Accepted
  BY <1>1, <1>3 DEF Accepted, ConnRecord
<1>5. \A d \in Clients : conn'[d].up = conn[d].up /\ conn'[d].down = conn[d].down
  BY <1>1, <1>3 DEF ConnRecord
<1>6. IsFiniteSet(Accepted') /\ Cardinality(Accepted') = Cardinality(Accepted) + 1
  BY <1>4, FS_AddElement DEF DescriptorInv
<1>7. IsFiniteSet(Places') /\ Cardinality(Places') <= Cardinality(Places) - 1
  BY AcceptPlaces
<1>8. Capacity'
  BY <1>1, <1>6, <1>7, Powers, FS_CardinalityType DEF DescriptorInv, Descriptors, Capacity
<1>9. ASSUME NEW q \in DOMAIN procs PROVE ProcOK(q)' /\ IsFiniteSet(procs'[q].open)
  <2>1. ProcOK(q) /\ IsFiniteSet(procs[q].open)
    BY DEF DescriptorInv, Descriptors, TypeOK
  <2>2. CASE q = p
    <3>1. c \notin procs[p].open /\ Cardinality(procs[p].open) < limit
      BY <1>4, <2>1, <2>2 DEF ProcOK, Accept
    <3>2. /\ IsFiniteSet(procs'[p].open) /\ Cardinality(procs[p].open) \in Nat
          /\ Cardinality(procs'[p].open) = Cardinality(procs[p].open) + 1
      BY <1>2, <2>1, <2>2, <3>1, FS_AddElement, FS_CardinalityType
    <3>3. Cardinality(procs'[p].open) <= limit' /\ procs'[p].open \subseteq Accepted'
      BY <1>1, <1>2, <1>4, <2>1, <2>2, <3>1, <3>2 DEF ProcOK
    <3>4. procs'[p].left = <<>> /\ procs'[p].sock \in procs'[p].open
      BY <1>2, <2>1, <2>2 DEF ProcOK
    <3> QED BY <1>2, <2>2, <3>2, <3>3, <3>4 DEF ProcOK
  <2>3. CASE q # p
    BY <1>1, <1>2, <1>4, <2>1, <2>3 DEF ProcOK
  <2> QED BY <2>2, <2>3
<1> QED BY <1>1, <1>2, <1>5, <1>6, <1>7, <1>8, <1>9 DEF DescriptorInv, Descriptors, TypeOK

LEMMA ForkDescriptors ==
    ASSUME Typed, DescriptorInv, NEW p \in DOMAIN procs, Fork(p)
    PROVE  DescriptorInv'
<1>1. /\ procs[p] \in ProcRecord /\ TypeOK /\ limit \in Nat /\ procs[p].pc = "fork"
      /\ UNCHANGED <<limit, conn>>
  BY ProcType DEF DescriptorInv, Descriptors, Fork, fixed
<1>2. Accepted' = Accepted
  BY <1>1 DEF Accepted
<1>3. IsFiniteSet(Places') /\ Cardinality(Places') <= Cardinality(Places)
  BY ForkPlaces
<1>4. Capacity'
  BY <1>1, <1>2, <1>3, NoPlaceGained
<1>5. PICK n : /\ n \notin DOMAIN procs /\ DOMAIN procs' = DOMAIN procs \cup {n}
               /\ procs'[n] = [procs[p] EXCEPT !.pc = "recv"]
               /\ procs'[p] = [procs[p] EXCEPT !.pc = "accept"]
               /\ \A q \in DOMAIN procs \ {p} : procs'[q] = procs[q]
  BY ForkedProcs
<1>6. \A q \in DOMAIN procs : ProcOK(q) /\ IsFiniteSet(procs[q].open)
  BY DEF DescriptorInv, Descriptors, TypeOK
<1>7. /\ procs'[n].pc = "recv" /\ procs'[p].pc = "accept"
      /\ procs'[n].open = procs[p].open /\ procs'[p].open = procs[p].open
      /\ procs'[n].sock = procs[p].sock
      /\ procs'[n].left = procs[p].left /\ procs'[p].left = procs[p].left
  BY <1>1, <1>5 DEF ProcRecord
<1>8. ASSUME NEW q \in DOMAIN procs' PROVE ProcOK(q)' /\ IsFiniteSet(procs'[q].open)
  <2>1. CASE q \in {n, p}
    BY <1>1, <1>2, <1>6, <1>7, <2>1 DEF ProcOK
  <2>2. CASE q \in DOMAIN procs \ {p}
    BY <1>1, <1>2, <1>5, <1>6, <2>2 DEF ProcOK
  <2> QED BY <1>5, <2>1, <2>2
<1> QED BY <1>1, <1>2, <1>3, <1>4, <1>8 DEF DescriptorInv, Descriptors, TypeOK

LEMMA ClientDescriptors ==
    ASSUME SentInv, DescriptorInv, NEW c \in Clients, ClientStep(c) \/ Killed(c)
    PROVE  DescriptorInv'
<1>1. /\ conn \in [Clients -> ConnRecord] /\ conn[c] \in ConnRecord /\ Bounded
      /\ UNCHANGED <<limit, procs>>
  BY DEF SentInv, Typed, DescriptorInv, Descriptors, TypeOK, Bounded, ClientStep, Connect,
         CannotConnect, SendRequest, RecvFirst, RecvLoop, WriteBack, RecvEnd, Killed, Client,
         fixed
<1>2. Accepted' = Accepted /\ Bounded'
  <2>1. CASE UNCHANGED conn
    BY <1>1, <2>1 DEF Accepted, Bounded
  <2>2. CASE Connect(c)
    <3>1. cpc[c] = "start" /\ conn' = [conn EXCEPT ![c].state = "queued"]
      BY <2>2 DEF Connect, Client
    <3>2. conn[c].state = "none"
      BY <3>1 DEF SentInv
    <3>3. \A d \in Clients : /\ conn'[d].up = conn[d].up /\ conn'[d].down = conn[d].down
                             /\ conn'[d].state = "accepted" <=> conn[d].state = "accepted"
      BY <1>1, <3>1, <3>2 DEF ConnRecord
    <3> QED BY <1>1, <3>3 DEF Accepted, Bounded
  <2>3. CASE SendRequest(c) \/ WriteBack(c)
    <3>1. PICK u \in 0..Room : conn' = [conn EXCEPT ![c] = [conn[c] EXCEPT !.up = u]]
      <4>1. CASE SendRequest(c)
        <5>1. conn' = [conn EXCEPT ![c] = [conn[c] EXCEPT !.up = 1]] /\ 1 \in 0..Room
          BY <4>1, SizeAssumption DEF SendRequest
        <5> QED BY <5>1
      <4>2. CASE WriteBack(c)
        <5>1. /\ conn' = [conn EXCEPT ![c] = [conn[c] EXCEPT !.up = conn[c].up + 1]]
              /\ conn[c].up < Room /\ conn[c].up \in 0..Room
          BY <1>1, <4>2 DEF WriteBack, Bounded
        <5>2. conn[c].up + 1 \in 0..Room
          BY <5>1, SizeAssumption
        <5> QED BY <5>1, <5>2
      <4> QED BY <2>3, <4>1, <4>2
    <3>2. \A d \in Clients : /\ conn'[d].state = conn[d].state /\ conn'[d].down = conn[d].down
                             /\ conn'[d].up = IF d = c THEN u ELSE conn[d].up
      BY <1>1, <3>1 DEF ConnRecord
    <3> QED BY <1>1, <3>2 DEF Accepted, Bounded
  <2>4. CASE \E n \in 1..Len(conn[c].down) : Take(c, n)
    <3>1. PICK n \in 1..Len(conn[c].down) : Take(c, n)
      BY <2>4
    <3> DEFINE s == conn[c].down
               b == SubSeq(s, n + 1, Len(s))
    <3>2. conn' = [conn EXCEPT ![c] = [conn[c] EXCEPT !.down = b]]
      BY <3>1 DEF Take
    <3>3. s \in Seq(Nat) /\ Len(s) \in Nat
      BY <1>1, LenProperties DEF ConnRecord
    <3>4. Len(b) <= Len(s)
      <4> HIDE DEF s
      <4>1. \A i \in (n + 1)..Len(s) : s[i] \in Nat
        BY <3>3, ElementOfSeq
      <4>2. n \in 1..Len(s)
        BY <3>1 DEF s
      <4> QED BY <3>3, <4>1, <4>2, SubSeqProperties
    <3> HIDE DEF b
    <3>5. \A d \in Clients : /\ conn'[d].state = conn[d].state /\ conn'[d].up = conn[d].up
                             /\ conn'[d].down = IF d = c THEN b ELSE conn[d].down
      BY <1>1, <3>2 DEF ConnRecord
    <3>6. Len(b) <= Room
      <4>1. Len(b) \in Nat \/ Len(b) <= Len(s)
        BY <3>4
      <4> QED BY <1>1, <3>3, <3>4, SizeAssumption DEF Bounded
    <3> QED BY <1>1, <3>5, <3>6 DEF Accepted, Bounded
  <2> QED BY <2>1, <2>2, <2>3, <2>4 DEF ClientStep, CannotConnect, RecvFirst, RecvLoop, RecvEnd,
                                        Killed
<1>3. Places' = Places /\ \A p \in DOMAIN procs : ProcOK(p)' = ProcOK(p)
  BY <1>1, <1>2 DEF Places, Holders, Free, ProcOK
<1> QED BY <1>1, <1>2, <1>3 DEF DescriptorInv, Descriptors, TypeOK, Capacity, Bounded

LEMMA StepDescriptors == SentInv /\ DescriptorInv /\ [Next]_vars => DescriptorInv'
<1> SUFFICES ASSUME SentInv, DescriptorInv, [Next]_vars PROVE DescriptorInv'
  OBVIOUS
<1>1. Typed
  BY DEF SentInv
<1>2. ASSUME NEW p \in DOMAIN procs, Process(p) PROVE DescriptorInv'
  BY <1>1, <1>2, OneDescriptors, AcceptDescriptors, ForkDescriptors DEF Process
<1>3. ASSUME NEW c \in Clients, ClientStep(c) \/ Killed(c) PROVE DescriptorInv'
  BY <1>3, ClientDescriptors
<1>4. CASE UNCHANGED vars
  <2>1. UNCHANGED <<limit, procs, conn>>
    BY <1>4 DEF vars, fixed
  <2> QED BY <2>1 DEF DescriptorInv, Descriptors, TypeOK, ProcOK, Accepted, Capacity, Places,
                      Holders, Free
<1> QED BY <1>2, <1>3, <1>4 DEF Next

\* gfserver.c of pr1/gflib/copy: although nobody closes a connection, and every child
\* starts with the descriptors of its parent, no process has more than limit, each holds
\* the one it serves, and all together accept at most 2^limit - 1 connections, for any
\* number of clients and any limit.
THEOREM DescriptorsBounded == Spec => []Descriptors
<1>1. DescriptorInv => Descriptors
  BY DEF DescriptorInv
<1>2. Spec => [](SentInv /\ DescriptorInv)
  BY InitSentInv, StepSentInv, InitDescriptors, StepDescriptors, PTL DEF Spec
<1> QED BY <1>1, <1>2, PTL
=============================================================================
