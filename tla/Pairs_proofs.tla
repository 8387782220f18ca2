----------------------------- MODULE Pairs_proofs -----------------------------
(***************************************************************************)
(* Proofs about the four client/server pairs, for any clients, any file    *)
(* and any messages, over connections that deliver in pieces, are reset or *)
(* lose what was on its way.                                               *)
(***************************************************************************)
EXTENDS Pairs, SequenceTheorems, TLAPS

Marks  == {"digits", "end", "padding", "nul", "garbage"}
Items  == Range(File) \cup Range(MESSAGE) \cup (UNION {Range(Text[c]) : c \in Clients})
          \cup Marks
States == {"none", "queued", "open", "reset", "closed"}
End    == [state : States, out : Seq(Items)]
Conns  == [Clients -> [client : End, server : End]]
Sides  == {"client", "server"}
Controls == {"start", "size", "open", "recv", "close", "write", "read", "print",
             "done", "failed"}

-----------------------------------------------------------------------------
(* Slices of a sequence.                                                   *)

LEMMA SliceType ==
  ASSUME NEW s \in Seq(Items), NEW a \in 1..(Len(s) + 1), NEW b \in (a - 1)..Len(s)
  PROVE  /\ SubSeq(s, a, b) \in Seq(Items) /\ Len(SubSeq(s, a, b)) = b - a + 1
         /\ \A i \in 1..(b - a + 1) : SubSeq(s, a, b)[i] = s[a + i - 1]
<1>1. a \in Int /\ b \in Int /\ Len(s) \in Nat
  BY LenProperties
<1>2. \A i \in a..b : s[i] \in Items
  BY <1>1, ElementOfSeq
<1>3. /\ SubSeq(s, a, b) \in Seq(Items)
      /\ Len(SubSeq(s, a, b)) = IF a <= b THEN b - a + 1 ELSE 0
      /\ \A i \in 1..(b - a + 1) : SubSeq(s, a, b)[i] = s[a + i - 1]
  BY <1>1, <1>2, SubSeqProperties
<1> QED BY <1>1, <1>3

\* A slice of a slice, given by where it begins and ends.
LEMMA SliceOfSlice ==
  ASSUME NEW s \in Seq(Items), NEW a \in 1..(Len(s) + 1), NEW b \in (a - 1)..Len(s),
         NEW m \in 1..(b - a + 2), NEW n \in (m - 1)..(b - a + 1)
  PROVE  SubSeq(SubSeq(s, a, b), m, n) = SubSeq(s, a + m - 1, a + n - 1)
<1> DEFINE t == SubSeq(s, a, b)
           u == SubSeq(s, a + m - 1, a + n - 1)
<1>0. Len(s) \in Nat /\ a \in Int /\ b \in Int /\ m \in Int /\ n \in Int
  BY LenProperties
<1>1. /\ t \in Seq(Items) /\ Len(t) = b - a + 1
      /\ \A i \in 1..(b - a + 1) : t[i] = s[a + i - 1]
  BY SliceType
<1>2. a + m - 1 \in 1..(Len(s) + 1) /\ a + n - 1 \in (a + m - 1 - 1)..Len(s)
  BY <1>0
<1>3. /\ u \in Seq(Items) /\ Len(u) = (a + n - 1) - (a + m - 1) + 1
      /\ \A i \in 1..((a + n - 1) - (a + m - 1) + 1) : u[i] = s[a + m - 1 + i - 1]
  BY <1>2, SliceType
<1> HIDE DEF t, u
<1>4. m \in 1..(Len(t) + 1) /\ n \in (m - 1)..Len(t)
  BY <1>0, <1>1
<1>5. /\ SubSeq(t, m, n) \in Seq(Items) /\ Len(SubSeq(t, m, n)) = n - m + 1
      /\ \A i \in 1..(n - m + 1) : SubSeq(t, m, n)[i] = t[m + i - 1]
  BY <1>1, <1>4, SliceType
<1>6. ASSUME NEW i \in 1..(n - m + 1) PROVE SubSeq(t, m, n)[i] = u[i]
  <2>1. m + i - 1 \in 1..(b - a + 1) /\ i \in 1..((a + n - 1) - (a + m - 1) + 1)
    BY <1>0
  <2>2. a + (m + i - 1) - 1 = a + m - 1 + i - 1
    BY <1>0, <2>1
  <2>3. SubSeq(t, m, n)[i] = t[m + i - 1] /\ u[i] = s[a + m - 1 + i - 1]
    BY <1>5, <1>3, <2>1
  <2>4. t[m + i - 1] = s[a + (m + i - 1) - 1]
    BY <1>1, <2>1
  <2> QED BY <2>2, <2>3, <2>4
<1>7. Len(u) = n - m + 1
  BY <1>0, <1>3
<1>8. SubSeq(t, m, n) = u
  BY <1>3, <1>5, <1>6, <1>7, SeqEqual
<1> QED BY <1>8 DEF t, u

LEMMA SliceJoin ==
  ASSUME NEW s \in Seq(Items), NEW a \in 1..(Len(s) + 1), NEW b \in (a - 1)..Len(s),
         NEW d \in b..Len(s)
  PROVE  SubSeq(s, a, b) \o SubSeq(s, b + 1, d) = SubSeq(s, a, d)
BY ConcatAdjacentSubSeq

LEMMA SliceEmpty ==
  ASSUME NEW s, NEW a \in Int PROVE SubSeq(s, a, a - 1) = <<>>
BY SubSeqEmpty

-----------------------------------------------------------------------------
(* What the socket calls do to the connections.                            *)

Others(c) == \A d \in Clients \ {c} : conn'[d] = conn[d]
Active(c) == cpc[c] # "start" /\ ~Ended(c)

\* How the two ends of a connection may stand.
Sockets(c) ==
  /\ conn[c].client.state # "queued"
  /\ conn[c].client.state = "none" <=> conn[c].server.state = "none"
  /\ conn[c].client.state = "none" => conn[c].client.out = <<>> /\ conn[c].server.out = <<>>
  /\ Queued(c) => conn[c].server.out = <<>> /\ conn[c].client.state \in {"open", "closed"}
  /\ conn[c].client.state = "open" => conn[c].server.state # "reset"
  /\ conn[c].client.state = "reset" => conn[c].server.state \in {"reset", "closed"}
  /\ cpc[c] = "start" => conn[c].client.state = "none"
  /\ Ended(c) => conn[c].client.state \in {"none", "closed"}
  /\ Active(c) => conn[c].client.state \in {"open", "reset"}
Listens ==
  /\ listening \in BOOLEAN
  /\ spc = "start" => ~listening /\ \A c \in Clients : conn[c].client.state = "none"
  /\ spc \in {"loop", "ended"} => ~listening /\ \A c \in Clients : ~Queued(c)
\* The server serves one client at a time, and none between two.
Idle     == spc \in {"start", "accept", "loop", "ended"}
InUse(c) == conn[c].server.state \in {"open", "reset"}
Single ==
  /\ Idle => \A c \in Clients : ~InUse(c)
  /\ \A c, d \in Clients : InUse(c) /\ InUse(d) => c = d
Net == /\ conn \in Conns /\ cpc \in [Clients -> Controls] /\ Listens /\ Single
       /\ \A c \in Clients : Sockets(c)

LEMMA ConnEnds ==
  ASSUME conn \in Conns, NEW c \in Clients
  PROVE  /\ conn[c] \in [client : End, server : End]
         /\ \A s \in Sides : /\ conn[c][s] \in End /\ Peer(s) \in Sides /\ Peer(s) # s
                             /\ conn[c][s].out \in Seq(Items) /\ conn[c][s].state \in States
BY DEF Conns, End, Sides, Peer

LEMMA ConnectEffect ==
  ASSUME conn \in Conns, NEW c \in Clients, conn' = Connected(c)
  PROVE  /\ conn' \in Conns /\ Others(c)
         /\ conn'[c].client.state = "open" /\ conn'[c].client.out = <<>>
         /\ conn'[c].server.state = "queued" /\ conn'[c].server.out = <<>>
<1>1. <<>> \in Seq(Items)
  BY EmptySeq
<1> QED BY <1>1 DEF Connected, None, Conns, End, States, Others

LEMMA AcceptEffect ==
  ASSUME conn \in Conns, NEW c \in Clients, conn' = Accepted(c)
  PROVE  /\ conn' \in Conns /\ Others(c)
         /\ conn'[c].client = conn[c].client
         /\ conn'[c].server.state = "open" /\ conn'[c].server.out = conn[c].server.out
BY DEF Accepted, Conns, End, States, Others

OutSet(c, s, x) == [conn EXCEPT ![c][s].out = x]
LEMMA SetOut ==
  ASSUME conn \in Conns, NEW c \in Clients, NEW s \in Sides, NEW x \in Seq(Items),
         conn' = OutSet(c, s, x)
  PROVE  /\ conn' \in Conns /\ Others(c) /\ conn'[c][Peer(s)] = conn[c][Peer(s)]
         /\ conn'[c][s].state = conn[c][s].state /\ conn'[c][s].out = x
BY DEF OutSet, Conns, End, States, Others, Peer, Sides

LEMMA SetReset ==
  ASSUME conn \in Conns, NEW c \in Clients, NEW s \in Sides,
         conn' = [conn EXCEPT ![c][s].state = "reset"]
  PROVE  /\ conn' \in Conns /\ Others(c) /\ conn'[c][Peer(s)] = conn[c][Peer(s)]
         /\ conn'[c][s].state = "reset" /\ conn'[c][s].out = conn[c][s].out
BY DEF Conns, End, States, Others, Peer, Sides

LEMMA WriteEffect ==
  ASSUME conn \in Conns, NEW c \in Clients, NEW s \in Sides, NEW data \in Seq(Items),
         conn' = Written(c, s, data)
  PROVE  /\ conn' \in Conns /\ Others(c) /\ conn'[c][Peer(s)] = conn[c][Peer(s)]
         /\ \/ /\ conn[c][Peer(s)].state \in {"open", "queued"} \/ data = <<>>
               /\ conn'[c][s].state = conn[c][s].state
               /\ conn'[c][s].out = conn[c][s].out \o data
            \/ /\ conn[c][Peer(s)].state \notin {"open", "queued"}
               /\ conn'[c][s].state = "reset" /\ conn'[c][s].out = conn[c][s].out
<1>0. conn[c][s].out \o data \in Seq(Items)
  BY ConnEnds, ConcatProperties
<1>1. PICK x \in Seq(Items) : x = conn[c][s].out \o data
  BY <1>0
<1>2. CASE conn[c][Peer(s)].state \in {"open", "queued"} \/ data = <<>>
  <2>1. conn' = OutSet(c, s, x)
    BY <1>1, <1>2 DEF OutSet, Written, Conns, End
  <2>2. /\ conn' \in Conns /\ Others(c) /\ conn'[c][Peer(s)] = conn[c][Peer(s)]
        /\ conn'[c][s].state = conn[c][s].state /\ conn'[c][s].out = x
    BY <1>1, <2>1, SetOut
  <2> QED BY <1>1, <1>2, <2>2
<1>3. CASE ~(conn[c][Peer(s)].state \in {"open", "queued"} \/ data = <<>>)
  <2>1. conn' = [conn EXCEPT ![c][s].state = "reset"]
    BY <1>3 DEF Written
  <2> QED BY <1>3, <2>1, SetReset
<1> QED BY <1>2, <1>3

\* A read takes the first n of what has come.
LEMMA ReadEffect ==
  ASSUME conn \in Conns, NEW c \in Clients, NEW s \in Sides, NEW most \in Nat,
         NEW piece \in Received(c, s, most), conn' = Read(c, s, piece)
  PROVE  /\ conn' \in Conns /\ Others(c) /\ conn'[c][s] = conn[c][s]
         /\ conn'[c][Peer(s)].state = conn[c][Peer(s)].state
         /\ \E n \in 1..Len(Unread(c, s)) :
              /\ n <= most /\ piece = SubSeq(Unread(c, s), 1, n)
              /\ conn'[c][Peer(s)].out = SubSeq(Unread(c, s), n + 1, Len(Unread(c, s)))
<1> DEFINE out == conn[c][Peer(s)].out
<1>1. /\ Peer(s) \in Sides /\ Peer(Peer(s)) = s /\ out \in Seq(Items) /\ Len(out) \in Nat
      /\ Unread(c, s) = out
  BY ConnEnds, LenProperties DEF Sides, Peer, Unread
<1>2. PICK n \in 1..Len(out) : n <= most /\ piece = SubSeq(out, 1, n)
  BY <1>1 DEF Received, Least
<1> HIDE DEF out
<1>3. Len(piece) = n /\ SubSeq(out, n + 1, Len(out)) \in Seq(Items)
  BY <1>1, <1>2, SliceType
<1>4. PICK rest \in Seq(Items) : rest = SubSeq(out, n + 1, Len(out))
  BY <1>3
<1>5. conn' = OutSet(c, Peer(s), rest)
  BY <1>1, <1>3, <1>4 DEF OutSet, Read, Conns, End, out
<1>6. /\ conn' \in Conns /\ Others(c) /\ conn'[c][Peer(Peer(s))] = conn[c][Peer(Peer(s))]
      /\ conn'[c][Peer(s)].state = conn[c][Peer(s)].state /\ conn'[c][Peer(s)].out = rest
  BY <1>1, <1>4, <1>5, SetOut
<1> QED BY <1>1, <1>2, <1>4, <1>6

\* x is a beginning of s.
Part(x, s) == \E l \in 0..Len(s) : x = SubSeq(s, 1, l)

LEMMA PartOfNothing ==
  ASSUME NEW x, Part(x, <<>>) PROVE x = <<>>
<1>1. Len(<<>>) = 0
  OBVIOUS
<1>2. 0..0 = {0}
  OBVIOUS
<1>3. x = SubSeq(<<>>, 1, 0)
  BY <1>1, <1>2 DEF Part
<1> QED BY <1>3, SubSeqEmpty

LEMMA PartType ==
  ASSUME NEW s \in Seq(Items), NEW l \in 0..Len(s) PROVE SubSeq(s, 1, l) \in Seq(Items)
<1>1. 1 \in 1..(Len(s) + 1) /\ l \in (1 - 1)..Len(s)
  BY LenProperties
<1> QED BY <1>1, SliceType

LEMMA ResetFacts ==
  ASSUME NEW k \in [client : End, server : End], NEW s \in Sides, NEW k2 \in Reset(k, s)
  PROVE  /\ k2 \in [client : End, server : End] /\ Peer(s) \in Sides
         /\ k2[s].state = "closed" /\ Part(k2[s].out, k[s].out)
         /\ k2[Peer(s)].state = IF k[Peer(s)].state = "closed" THEN "closed" ELSE "reset"
         /\ k2[Peer(s)].out = <<>>
<1> DEFINE t == Peer(s)
           st == IF k[t].state = "closed" THEN "closed" ELSE "reset"
<1>1. t \in Sides /\ t # s /\ k[s] \in End /\ k[t] \in End /\ k[s].out \in Seq(Items)
  BY DEF Sides, Peer, End
<1>2. PICK l \in 0..Len(k[s].out) :
        k2 = [k EXCEPT ![s] = [state |-> "closed", out |-> SubSeq(k[s].out, 1, l)],
                       ![t] = [state |-> st, out |-> <<>>]]
  BY <1>1 DEF Reset, Prefixes, Sides
<1>3. SubSeq(k[s].out, 1, l) \in Seq(Items) /\ <<>> \in Seq(Items) /\ st \in States
  BY <1>1, PartType, EmptySeq DEF States
<1>4. PICK p \in Seq(Items) : p = SubSeq(k[s].out, 1, l)
  BY <1>3
<1>5. [state |-> "closed", out |-> p] \in End /\ [state |-> st, out |-> <<>>] \in End
  BY <1>3 DEF End, States
<1> HIDE DEF t, st
<1>6. /\ k2 \in [client : End, server : End] /\ k2[s].state = "closed" /\ k2[s].out = p
      /\ k2[t].state = st /\ k2[t].out = <<>>
  BY <1>1, <1>2, <1>4, <1>5 DEF Sides
<1> QED BY <1>1, <1>4, <1>6 DEF Part, t, st

\* What a close leaves of a connection.
LEMMA ClosedFacts ==
  ASSUME NEW k \in [client : End, server : End], NEW s \in Sides, NEW k2 \in Closed(k, s)
  PROVE  /\ k2 \in [client : End, server : End] /\ Peer(s) \in Sides
         /\ \/ k[s].state \in {"none", "closed"} /\ k2 = k
            \/ /\ k[s].state \notin {"none", "closed"}
               /\ k[s].state = "queued" \/ k[Peer(s)].out # <<>>
               /\ k2 \in Reset(k, s)
            \/ /\ k[s].state \notin {"none", "closed", "queued"} /\ k[Peer(s)].out = <<>>
               /\ k2[Peer(s)] = k[Peer(s)]
               /\ k2[s].state = "closed" /\ k2[s].out = k[s].out
<1>0. Peer(s) \in Sides
  BY DEF Sides, Peer
<1>1. CASE k[s].state \in {"none", "closed"}
  <2>1. Closed(k, s) = {k}
    BY <1>1 DEF Closed
  <2> QED BY <1>0, <1>1, <2>1
<1>2. CASE k[s].state \notin {"none", "closed"} /\ (k[s].state = "queued" \/ k[Peer(s)].out # <<>>)
  <2>1. k2 \in Reset(k, s)
    BY <1>2 DEF Closed
  <2> QED BY <1>2, <2>1, ResetFacts
<1>3. CASE /\ k[s].state \notin {"none", "closed", "queued"} /\ k[Peer(s)].out = <<>>
  <2>1. k2 = [k EXCEPT ![s].state = "closed"]
    BY <1>3 DEF Closed
  <2>2. k2 \in [client : End, server : End] /\ Peer(s) \in Sides
    BY <2>1 DEF End, States, Sides, Peer
  <2>3. /\ k2[Peer(s)] = k[Peer(s)]
        /\ k2[s].state = "closed" /\ k2[s].out = k[s].out
    BY <2>1 DEF End, States, Sides, Peer
  <2> QED BY <1>3, <2>2, <2>3
<1> QED BY <1>1, <1>2, <1>3

LEMMA CloseEffect ==
  ASSUME conn \in Conns, NEW c \in Clients, NEW s, Close(c, s)
  PROVE  \E k \in Closed(conn[c], s) :
            conn' = [conn EXCEPT ![c] = k] /\ Others(c) /\ conn'[c] = k
BY DEF Close, Others, Conns

LEMMA CloseClient ==
  ASSUME conn \in Conns, NEW c \in Clients, Sockets(c), Close(c, "client"),
         conn[c].client.state \in {"open", "reset"}
  PROVE  /\ conn' \in Conns /\ Others(c) /\ conn'[c].client.state = "closed"
         /\ Part(conn'[c].client.out, conn[c].client.out) /\ conn'[c].server.out = <<>>
         /\ \/ conn'[c].server.state = conn[c].server.state
            \/ conn[c].server.state = "open" /\ conn'[c].server.state = "reset"
<1>1. PICK k \in Closed(conn[c], "client") :
         conn' = [conn EXCEPT ![c] = k] /\ Others(c) /\ conn'[c] = k
  BY CloseEffect
<1>2. /\ conn[c] \in [client : End, server : End] /\ "client" \in Sides
      /\ Peer("client") = "server"
      /\ conn[c].client.out \in Seq(Items) /\ conn[c].server.state \in States
  BY ConnEnds DEF Sides, Peer
<1>3. /\ k \in [client : End, server : End]
      /\ \/ conn[c].server.out # <<>> /\ k \in Reset(conn[c], "client")
         \/ /\ conn[c].server.out = <<>> /\ k.server = conn[c].server
            /\ k.client.state = "closed" /\ k.client.out = conn[c].client.out
  BY <1>2, ClosedFacts
<1>4. conn' \in Conns
  BY <1>1, <1>3 DEF Conns
<1>5. CASE conn[c].server.out # <<>> /\ k \in Reset(conn[c], "client")
  <2>1. /\ k.client.state = "closed" /\ Part(k.client.out, conn[c].client.out)
        /\ k.server.state = IF conn[c].server.state = "closed" THEN "closed" ELSE "reset"
        /\ k.server.out = <<>>
    BY <1>2, <1>5, ResetFacts
  <2>2. conn[c].server.state \notin {"none", "queued"}
    BY <1>5 DEF Sockets, Queued
  <2> QED BY <1>1, <1>2, <1>4, <2>1, <2>2 DEF States
<1>6. CASE /\ conn[c].server.out = <<>> /\ k.server = conn[c].server
           /\ k.client.state = "closed" /\ k.client.out = conn[c].client.out
  <2>1. SubSeq(conn[c].client.out, 1, Len(conn[c].client.out)) = conn[c].client.out
    BY <1>2, SubSeqFull
  <2>2. Len(conn[c].client.out) \in 0..Len(conn[c].client.out)
    BY <1>2, LenProperties
  <2>3. Part(k.client.out, conn[c].client.out)
    BY <1>6, <2>1, <2>2 DEF Part
  <2> QED BY <1>1, <1>4, <1>6, <2>3
<1> QED BY <1>3, <1>5, <1>6

\* The server's end of c is closed.
ServerCloses(c) ==
  IF conn[c].server.state \in {"none", "closed"} THEN conn'[c] = conn[c]
  ELSE /\ conn'[c].server.state = "closed" /\ Part(conn'[c].server.out, conn[c].server.out)
       /\ conn'[c].client.out = <<>>
       /\ conn'[c].client.state \in {conn[c].client.state, "reset"}
       /\ conn[c].client.state = "closed" => conn'[c].client.state = "closed"
       /\ conn[c].client.out = <<>> /\ ~Queued(c) =>
            /\ conn'[c].client.state = conn[c].client.state
            /\ conn'[c].server.out = conn[c].server.out

LEMMA ClosedServer ==
  ASSUME conn \in Conns, NEW c \in Clients, Sockets(c), conn'[c] \in Closed(conn[c], "server")
  PROVE  conn'[c] \in [client : End, server : End] /\ ServerCloses(c)
<1>1. PICK k \in Closed(conn[c], "server") : conn'[c] = k
  OBVIOUS
<1>2. /\ conn[c] \in [client : End, server : End] /\ "server" \in Sides
      /\ Peer("server") = "client" /\ conn[c].server.out \in Seq(Items)
  BY ConnEnds DEF Sides, Peer
<1>3. /\ k \in [client : End, server : End]
      /\ \/ conn[c].server.state \in {"none", "closed"} /\ k = conn[c]
         \/ /\ conn[c].server.state \notin {"none", "closed"}
            /\ conn[c].server.state = "queued" \/ conn[c].client.out # <<>>
            /\ k \in Reset(conn[c], "server")
         \/ /\ conn[c].server.state \notin {"none", "closed", "queued"}
            /\ conn[c].client.out = <<>> /\ k.client = conn[c].client
            /\ k.server.state = "closed" /\ k.server.out = conn[c].server.out
  BY <1>2, ClosedFacts
<1>4. CASE conn[c].server.state \in {"none", "closed"} /\ k = conn[c]
  BY <1>1, <1>3, <1>4 DEF ServerCloses
<1>5. CASE /\ conn[c].server.state \notin {"none", "closed"}
           /\ conn[c].server.state = "queued" \/ conn[c].client.out # <<>>
           /\ k \in Reset(conn[c], "server")
  <2>1. /\ k.server.state = "closed" /\ Part(k.server.out, conn[c].server.out)
        /\ k.client.state = IF conn[c].client.state = "closed" THEN "closed" ELSE "reset"
        /\ k.client.out = <<>>
    BY <1>2, <1>5, ResetFacts
  <2> QED BY <1>1, <1>3, <1>5, <2>1 DEF ServerCloses, Queued
<1>6. CASE /\ conn[c].server.state \notin {"none", "closed", "queued"}
           /\ conn[c].client.out = <<>> /\ k.client = conn[c].client
           /\ k.server.state = "closed" /\ k.server.out = conn[c].server.out
  <2>1. SubSeq(conn[c].server.out, 1, Len(conn[c].server.out)) = conn[c].server.out
    BY <1>2, SubSeqFull
  <2>2. Len(conn[c].server.out) \in 0..Len(conn[c].server.out)
    BY <1>2, LenProperties
  <2>3. Part(k.server.out, conn[c].server.out)
    BY <1>6, <2>1, <2>2 DEF Part
  <2> QED BY <1>1, <1>3, <1>6, <2>3 DEF ServerCloses
<1> QED BY <1>3, <1>4, <1>5, <1>6

LEMMA CloseServer ==
  ASSUME conn \in Conns, NEW c \in Clients, Sockets(c), Close(c, "server")
  PROVE  conn' \in Conns /\ Others(c) /\ ServerCloses(c)
<1>1. PICK k \in Closed(conn[c], "server") :
         conn' = [conn EXCEPT ![c] = k] /\ Others(c) /\ conn'[c] = k
  BY CloseEffect
<1>2. conn'[c] \in [client : End, server : End] /\ ServerCloses(c)
  BY <1>1, ClosedServer
<1>3. conn' \in Conns
  BY <1>1, <1>2 DEF Conns
<1> QED BY <1>1, <1>2, <1>3

LEMMA CloseAllEffect ==
  ASSUME Net, NEW cut, CloseAll(cut)
  PROVE  /\ conn' \in Conns /\ listening' = FALSE
         /\ \A c \in Clients : ServerCloses(c)
<1>1. PICK k \in [Clients -> UNION {Closed(conn[c], "server") : c \in Clients}] :
        (\A c \in Clients : k[c] \in Closed(conn[c], "server")) /\ conn' = k
  BY DEF CloseAll
<1>2. \A c \in Clients : conn'[c] \in [client : End, server : End] /\ ServerCloses(c)
  BY <1>1, ClosedServer DEF Net
<1>3. conn' \in Conns
  BY <1>1, <1>2 DEF Conns
<1> QED BY <1>2, <1>3 DEF CloseAll

LEMMA NetworkEffect ==
  ASSUME conn \in Conns, NEW c \in Clients, NetworkFails(c)
  PROVE  /\ conn' \in Conns /\ Others(c)
         /\ conn[c].client.state = "open" /\ conn[c].server.state = "open"
         /\ conn'[c].client.state = "reset" /\ conn'[c].server.state = "reset"
         /\ Part(conn'[c].client.out, conn[c].client.out)
         /\ Part(conn'[c].server.out, conn[c].server.out)
<1>1. /\ conn[c].client.out \in Seq(Items) /\ conn[c].server.out \in Seq(Items)
      /\ Unread(c, "server") = conn[c].client.out /\ Unread(c, "client") = conn[c].server.out
  BY ConnEnds DEF Sides, Unread, Peer
<1>2. PICK l \in 0..Len(conn[c].client.out), m \in 0..Len(conn[c].server.out) :
         conn' = [conn EXCEPT ![c] =
           [client |-> [state |-> "reset", out |-> SubSeq(conn[c].client.out, 1, l)],
            server |-> [state |-> "reset", out |-> SubSeq(conn[c].server.out, 1, m)]]]
  BY <1>1 DEF NetworkFails, Prefixes
<1>3. /\ SubSeq(conn[c].client.out, 1, l) \in Seq(Items)
      /\ SubSeq(conn[c].server.out, 1, m) \in Seq(Items)
  BY <1>1, PartType
<1>4. PICK p \in Seq(Items), q \in Seq(Items) :
        p = SubSeq(conn[c].client.out, 1, l) /\ q = SubSeq(conn[c].server.out, 1, m)
  BY <1>3
<1>5. conn' = [conn EXCEPT ![c] = [client |-> [state |-> "reset", out |-> p],
                                   server |-> [state |-> "reset", out |-> q]]]
  BY <1>2, <1>4
<1>6. /\ conn' \in Conns /\ Others(c)
      /\ conn'[c].client.state = "reset" /\ conn'[c].server.state = "reset"
      /\ conn'[c].client.out = p /\ conn'[c].server.out = q
  BY <1>5 DEF Conns, End, States, Others
<1>7. conn[c].client.state = "open" /\ conn[c].server.state = "open"
  BY DEF NetworkFails
<1> QED BY <1>4, <1>6, <1>7 DEF Part

-----------------------------------------------------------------------------
(* The pairs mean by each socket call what Pair does.                      *)

LEMMA SameT ==
  /\ \A c, from, to : T!Client(c, from, to) <=> Client(c, from, to)
  /\ \A from, to : T!Server(from, to) <=> Server(from, to)
  /\ \A cs, why : T!Blame(cs, why) <=> Blame(cs, why)
  /\ \A c : /\ T!Connected(c) = Connected(c) /\ T!Queued(c) = Queued(c)
            /\ T!Accepted(c) = Accepted(c)
  /\ T!Served = Served
  /\ \A c, s : /\ T!CanWrite(c, s) = CanWrite(c, s) /\ T!Unread(c, s) = Unread(c, s)
               /\ T!AtEnd(c, s) = AtEnd(c, s) /\ T!Failed(c, s) = Failed(c, s)
  /\ \A c, s, x : /\ T!Received(c, s, x) = Received(c, s, x)
                  /\ T!Written(c, s, x) = Written(c, s, x) /\ T!Read(c, s, x) = Read(c, s, x)
  /\ \A c, s : T!Close(c, s) <=> Close(c, s)
  /\ \A cut : T!CloseAll(cut) <=> CloseAll(cut)
<1>1. /\ \A a, b : T!Least(a, b) = Least(a, b)
      /\ \A s : T!Peer(s) = Peer(s)
      /\ T!None = None
  BY DEF T!Least, Least, T!Peer, Peer, T!None, None
<1>2. /\ \A c, from, to : T!Client(c, from, to) <=> Client(c, from, to)
      /\ \A from, to : T!Server(from, to) <=> Server(from, to)
      /\ \A cs, why : T!Blame(cs, why) <=> Blame(cs, why)
  BY DEF T!Client, Client, T!server, server, T!Server, Server, T!Blame, Blame
<1>3. \A c : /\ T!Connected(c) = Connected(c) /\ T!Queued(c) = Queued(c)
             /\ T!Accepted(c) = Accepted(c)
  BY <1>1 DEF T!Connected, Connected, T!Queued, Queued, T!Accepted, Accepted
<1>4. T!Served = Served /\ T!Waiting = Waiting
  BY <1>3 DEF T!Served, Served, T!Waiting, Waiting
<1>5. \A c, s : /\ T!CanWrite(c, s) = CanWrite(c, s) /\ T!Unread(c, s) = Unread(c, s)
  BY <1>1 DEF T!CanWrite, CanWrite, T!Unread, Unread
<1>6. \A c, s : T!AtEnd(c, s) = AtEnd(c, s) /\ T!Failed(c, s) = Failed(c, s)
  BY <1>1, <1>5 DEF T!AtEnd, AtEnd, T!Failed, Failed
<1>7. \A c, s, x : T!Received(c, s, x) = Received(c, s, x)
  BY <1>1, <1>5 DEF T!Received, Received
<1>8. \A c, s, x : T!Written(c, s, x) = Written(c, s, x)
  BY <1>1 DEF T!Written, Written
<1>9. \A c, s, x : T!Read(c, s, x) = Read(c, s, x)
  BY <1>1 DEF T!Read, Read
<1>10. \A k, s : T!Reset(k, s) = Reset(k, s)
  BY <1>1 DEF T!Reset, Reset, T!Prefixes, Prefixes
<1>11. \A k, s : T!Closed(k, s) = Closed(k, s)
  BY <1>1, <1>10 DEF T!Closed, Closed
<1>12. \A c, s : T!Close(c, s) <=> Close(c, s)
  BY <1>11 DEF T!Close, Close
<1>13. \A cut : T!CloseAll(cut) <=> CloseAll(cut)
  BY <1>2, <1>4, <1>11 DEF T!CloseAll, CloseAll
<1> QED BY <1>2, <1>3, <1>4, <1>5, <1>6, <1>7, <1>8, <1>9, <1>12, <1>13

LEMMA SameS ==
  /\ \A c, from, to : S!Client(c, from, to) <=> Client(c, from, to)
  /\ \A from, to : S!Server(from, to) <=> Server(from, to)
  /\ \A cs, why : S!Blame(cs, why) <=> Blame(cs, why)
  /\ \A c : /\ S!Connected(c) = Connected(c) /\ S!Queued(c) = Queued(c)
            /\ S!Accepted(c) = Accepted(c)
  /\ S!Served = Served
  /\ \A c, s : /\ S!CanWrite(c, s) = CanWrite(c, s) /\ S!Unread(c, s) = Unread(c, s)
               /\ S!AtEnd(c, s) = AtEnd(c, s) /\ S!Failed(c, s) = Failed(c, s)
  /\ \A c, s, x : /\ S!Received(c, s, x) = Received(c, s, x)
                  /\ S!Written(c, s, x) = Written(c, s, x) /\ S!Read(c, s, x) = Read(c, s, x)
  /\ \A c, s : S!Close(c, s) <=> Close(c, s)
  /\ \A cut : S!CloseAll(cut) <=> CloseAll(cut)
<1>1. /\ \A a, b : S!Least(a, b) = Least(a, b)
      /\ \A s : S!Peer(s) = Peer(s)
      /\ S!None = None
  BY DEF S!Least, Least, S!Peer, Peer, S!None, None
<1>2. /\ \A c, from, to : S!Client(c, from, to) <=> Client(c, from, to)
      /\ \A from, to : S!Server(from, to) <=> Server(from, to)
      /\ \A cs, why : S!Blame(cs, why) <=> Blame(cs, why)
  BY DEF S!Client, Client, S!server, server, S!Server, Server, S!Blame, Blame
<1>3. \A c : /\ S!Connected(c) = Connected(c) /\ S!Queued(c) = Queued(c)
             /\ S!Accepted(c) = Accepted(c)
  BY <1>1 DEF S!Connected, Connected, S!Queued, Queued, S!Accepted, Accepted
<1>4. S!Served = Served /\ S!Waiting = Waiting
  BY <1>3 DEF S!Served, Served, S!Waiting, Waiting
<1>5. \A c, s : /\ S!CanWrite(c, s) = CanWrite(c, s) /\ S!Unread(c, s) = Unread(c, s)
  BY <1>1 DEF S!CanWrite, CanWrite, S!Unread, Unread
<1>6. \A c, s : S!AtEnd(c, s) = AtEnd(c, s) /\ S!Failed(c, s) = Failed(c, s)
  BY <1>1, <1>5 DEF S!AtEnd, AtEnd, S!Failed, Failed
<1>7. \A c, s, x : S!Received(c, s, x) = Received(c, s, x)
  BY <1>1, <1>5 DEF S!Received, Received
<1>8. \A c, s, x : S!Written(c, s, x) = Written(c, s, x)
  BY <1>1 DEF S!Written, Written
<1>9. \A c, s, x : S!Read(c, s, x) = Read(c, s, x)
  BY <1>1 DEF S!Read, Read
<1>10. \A k, s : S!Reset(k, s) = Reset(k, s)
  BY <1>1 DEF S!Reset, Reset, S!Prefixes, Prefixes
<1>11. \A k, s : S!Closed(k, s) = Closed(k, s)
  BY <1>1, <1>10 DEF S!Closed, Closed
<1>12. \A c, s : S!Close(c, s) <=> Close(c, s)
  BY <1>11 DEF S!Close, Close
<1>13. \A cut : S!CloseAll(cut) <=> CloseAll(cut)
  BY <1>2, <1>4, <1>11 DEF S!CloseAll, CloseAll
<1> QED BY <1>2, <1>3, <1>4, <1>5, <1>6, <1>7, <1>8, <1>9, <1>12, <1>13

LEMMA SameE ==
  /\ \A c, from, to : E!Client(c, from, to) <=> Client(c, from, to)
  /\ \A from, to : E!Server(from, to) <=> Server(from, to)
  /\ \A cs, why : E!Blame(cs, why) <=> Blame(cs, why)
  /\ \A c : /\ E!Connected(c) = Connected(c) /\ E!Queued(c) = Queued(c)
            /\ E!Accepted(c) = Accepted(c)
  /\ E!Served = Served
  /\ \A c, s : /\ E!CanWrite(c, s) = CanWrite(c, s) /\ E!Unread(c, s) = Unread(c, s)
               /\ E!AtEnd(c, s) = AtEnd(c, s) /\ E!Failed(c, s) = Failed(c, s)
  /\ \A c, s, x : /\ E!Received(c, s, x) = Received(c, s, x)
                  /\ E!Written(c, s, x) = Written(c, s, x) /\ E!Read(c, s, x) = Read(c, s, x)
  /\ \A c, s : E!Close(c, s) <=> Close(c, s)
  /\ \A cut : E!CloseAll(cut) <=> CloseAll(cut)
<1>1. /\ \A a, b : E!Least(a, b) = Least(a, b)
      /\ \A s : E!Peer(s) = Peer(s)
      /\ E!None = None
  BY DEF E!Least, Least, E!Peer, Peer, E!None, None
<1>2. /\ \A c, from, to : E!Client(c, from, to) <=> Client(c, from, to)
      /\ \A from, to : E!Server(from, to) <=> Server(from, to)
      /\ \A cs, why : E!Blame(cs, why) <=> Blame(cs, why)
  BY DEF E!Client, Client, E!server, server, E!Server, Server, E!Blame, Blame
<1>3. \A c : /\ E!Connected(c) = Connected(c) /\ E!Queued(c) = Queued(c)
             /\ E!Accepted(c) = Accepted(c)
  BY <1>1 DEF E!Connected, Connected, E!Queued, Queued, E!Accepted, Accepted
<1>4. E!Served = Served /\ E!Waiting = Waiting
  BY <1>3 DEF E!Served, Served, E!Waiting, Waiting
<1>5. \A c, s : /\ E!CanWrite(c, s) = CanWrite(c, s) /\ E!Unread(c, s) = Unread(c, s)
  BY <1>1 DEF E!CanWrite, CanWrite, E!Unread, Unread
<1>6. \A c, s : E!AtEnd(c, s) = AtEnd(c, s) /\ E!Failed(c, s) = Failed(c, s)
  BY <1>1, <1>5 DEF E!AtEnd, AtEnd, E!Failed, Failed
<1>7. \A c, s, x : E!Received(c, s, x) = Received(c, s, x)
  BY <1>1, <1>5 DEF E!Received, Received
<1>8. \A c, s, x : E!Written(c, s, x) = Written(c, s, x)
  BY <1>1 DEF E!Written, Written
<1>9. \A c, s, x : E!Read(c, s, x) = Read(c, s, x)
  BY <1>1 DEF E!Read, Read
<1>10. \A k, s : E!Reset(k, s) = Reset(k, s)
  BY <1>1 DEF E!Reset, Reset, E!Prefixes, Prefixes
<1>11. \A k, s : E!Closed(k, s) = Closed(k, s)
  BY <1>1, <1>10 DEF E!Closed, Closed
<1>12. \A c, s : E!Close(c, s) <=> Close(c, s)
  BY <1>11 DEF E!Close, Close
<1>13. \A cut : E!CloseAll(cut) <=> CloseAll(cut)
  BY <1>2, <1>4, <1>11 DEF E!CloseAll, CloseAll
<1> QED BY <1>2, <1>3, <1>4, <1>5, <1>6, <1>7, <1>8, <1>9, <1>12, <1>13

LEMMA SameM ==
  /\ \A c, from, to : M!Client(c, from, to) <=> Client(c, from, to)
  /\ \A from, to : M!Server(from, to) <=> Server(from, to)
  /\ \A cs, why : M!Blame(cs, why) <=> Blame(cs, why)
  /\ \A c : /\ M!Connected(c) = Connected(c) /\ M!Queued(c) = Queued(c)
            /\ M!Accepted(c) = Accepted(c)
  /\ M!Served = Served
  /\ \A c, s : /\ M!CanWrite(c, s) = CanWrite(c, s) /\ M!Unread(c, s) = Unread(c, s)
               /\ M!AtEnd(c, s) = AtEnd(c, s) /\ M!Failed(c, s) = Failed(c, s)
  /\ \A c, s, x : /\ M!Received(c, s, x) = Received(c, s, x)
                  /\ M!Written(c, s, x) = Written(c, s, x) /\ M!Read(c, s, x) = Read(c, s, x)
  /\ \A c, s : M!Close(c, s) <=> Close(c, s)
  /\ \A cut : M!CloseAll(cut) <=> CloseAll(cut)
<1>1. /\ \A a, b : M!Least(a, b) = Least(a, b)
      /\ \A s : M!Peer(s) = Peer(s)
      /\ M!None = None
  BY DEF M!Least, Least, M!Peer, Peer, M!None, None
<1>2. /\ \A c, from, to : M!Client(c, from, to) <=> Client(c, from, to)
      /\ \A from, to : M!Server(from, to) <=> Server(from, to)
      /\ \A cs, why : M!Blame(cs, why) <=> Blame(cs, why)
  BY DEF M!Client, Client, M!server, server, M!Server, Server, M!Blame, Blame
<1>3. \A c : /\ M!Connected(c) = Connected(c) /\ M!Queued(c) = Queued(c)
             /\ M!Accepted(c) = Accepted(c)
  BY <1>1 DEF M!Connected, Connected, M!Queued, Queued, M!Accepted, Accepted
<1>4. M!Served = Served /\ M!Waiting = Waiting
  BY <1>3 DEF M!Served, Served, M!Waiting, Waiting
<1>5. \A c, s : /\ M!CanWrite(c, s) = CanWrite(c, s) /\ M!Unread(c, s) = Unread(c, s)
  BY <1>1 DEF M!CanWrite, CanWrite, M!Unread, Unread
<1>6. \A c, s : M!AtEnd(c, s) = AtEnd(c, s) /\ M!Failed(c, s) = Failed(c, s)
  BY <1>1, <1>5 DEF M!AtEnd, AtEnd, M!Failed, Failed
<1>7. \A c, s, x : M!Received(c, s, x) = Received(c, s, x)
  BY <1>1, <1>5 DEF M!Received, Received
<1>8. \A c, s, x : M!Written(c, s, x) = Written(c, s, x)
  BY <1>1 DEF M!Written, Written
<1>9. \A c, s, x : M!Read(c, s, x) = Read(c, s, x)
  BY <1>1 DEF M!Read, Read
<1>10. \A k, s : M!Reset(k, s) = Reset(k, s)
  BY <1>1 DEF M!Reset, Reset, M!Prefixes, Prefixes
<1>11. \A k, s : M!Closed(k, s) = Closed(k, s)
  BY <1>1, <1>10 DEF M!Closed, Closed
<1>12. \A c, s : M!Close(c, s) <=> Close(c, s)
  BY <1>11 DEF M!Close, Close
<1>13. \A cut : M!CloseAll(cut) <=> CloseAll(cut)
  BY <1>2, <1>4, <1>11 DEF M!CloseAll, CloseAll
<1> QED BY <1>2, <1>3, <1>4, <1>5, <1>6, <1>7, <1>8, <1>9, <1>12, <1>13

-----------------------------------------------------------------------------
(* Every step of every pair keeps the connections as Net says.             *)

Moving == Controls \ {"start", "done", "failed"}
Busy   == {"send", "close", "header", "data", "read", "write", "compare"}

LEMMA NetInit ==
  ASSUME conn = [c \in Clients |-> [client |-> None, server |-> None]],
         listening = FALSE, spc = "start", cpc = [c \in Clients |-> "start"]
  PROVE  Net
<1>1. None \in End
  BY EmptySeq DEF None, End, States
<1>2. conn \in Conns /\ cpc \in [Clients -> Controls]
  BY <1>1 DEF Conns, Controls
<1>3. \A c \in Clients : /\ conn[c].client = None /\ conn[c].server = None
                         /\ cpc[c] = "start"
  OBVIOUS
<1>4. Listens /\ Single
  BY <1>3 DEF Listens, Single, InUse, None
<1>5. \A c \in Clients : Sockets(c)
  BY <1>3 DEF Sockets, Queued, Active, Ended, None
<1> QED BY <1>2, <1>4, <1>5 DEF Net

LEMMA NetConnect ==
  ASSUME Net, NEW c \in Clients, NEW to \in Moving, Client(c, "start", to), listening,
         conn' = Connected(c)
  PROVE  Net'
<1>1. /\ conn' \in Conns /\ Others(c)
      /\ conn'[c].client.state = "open" /\ conn'[c].client.out = <<>>
      /\ conn'[c].server.state = "queued" /\ conn'[c].server.out = <<>>
  BY ConnectEffect DEF Net
<1>2. UNCHANGED <<listening, spc>> /\ cpc[c] = "start" /\ cpc' = [cpc EXCEPT ![c] = to]
  BY DEF Client, server
<1>3. cpc' \in [Clients -> Controls] /\ cpc'[c] = to /\ \A d \in Clients \ {c} : cpc'[d] = cpc[d]
  BY <1>2 DEF Net, Moving
<1>4. Single'
  BY <1>1, <1>2 DEF Net, Single, Idle, InUse, Others
<1>5. Listens'
  BY <1>1, <1>2 DEF Net, Listens, Queued, Others
<1>6. Sockets(c)'
  BY <1>1, <1>3 DEF Sockets, Queued, Ended, Active, Moving
<1>7. \A d \in Clients \ {c} : Sockets(d)'
  BY <1>1, <1>3 DEF Net, Sockets, Queued, Ended, Active, Others
<1> QED BY <1>1, <1>3, <1>4, <1>5, <1>6, <1>7 DEF Net

LEMMA NetCannotStart ==
  ASSUME Net, NEW c \in Clients, Client(c, "start", "failed"), conn' = conn
  PROVE  Net'
<1>1. UNCHANGED <<listening, spc>> /\ cpc[c] = "start" /\ cpc' = [cpc EXCEPT ![c] = "failed"]
  BY DEF Client, server
<1>2. /\ cpc' \in [Clients -> Controls] /\ cpc'[c] = "failed"
      /\ \A d \in Clients \ {c} : cpc'[d] = cpc[d]
  BY <1>1 DEF Net, Controls
<1>3. Single' /\ Listens'
  BY <1>1 DEF Net, Single, Idle, InUse, Listens, Queued
<1>4. \A d \in Clients : Sockets(d)'
  BY <1>1, <1>2 DEF Net, Sockets, Queued, Ended, Active
<1> QED BY <1>2, <1>3, <1>4 DEF Net

\* A client that has connected moves on, reads or writes.
LEMMA NetClientMoves ==
  ASSUME Net, NEW c \in Clients, NEW from \in Moving, NEW to \in Moving, Client(c, from, to),
         \/ conn' = conn
         \/ CanWrite(c, "client") /\ \E data \in Seq(Items) : conn' = Written(c, "client", data)
         \/ \E most \in Nat : \E piece \in Received(c, "client", most) :
              conn' = Read(c, "client", piece)
  PROVE  Net'
<1>0. "client" \in Sides /\ Peer("client") = "server" /\ conn \in Conns
  BY DEF Sides, Peer, Net
<1>1. UNCHANGED <<listening, spc>> /\ cpc[c] = from /\ cpc' = [cpc EXCEPT ![c] = to]
  BY DEF Client, server
<1>2. cpc' \in [Clients -> Controls] /\ cpc'[c] = to /\ \A d \in Clients \ {c} : cpc'[d] = cpc[d]
  BY <1>1 DEF Net, Moving
<1>3. Active(c) /\ Active(c)' /\ cpc'[c] \notin {"start", "done", "failed"}
  BY <1>1, <1>2 DEF Active, Ended, Moving, Controls
<1>4. CASE conn' = conn
  <2>1. Single' /\ Listens'
    BY <1>1, <1>4 DEF Net, Single, Idle, InUse, Listens, Queued
  <2>2. \A d \in Clients : Sockets(d)'
    BY <1>1, <1>2, <1>3, <1>4 DEF Net, Sockets, Queued, Ended, Active
  <2> QED BY <1>2, <1>4, <2>1, <2>2 DEF Net
<1>5. CASE CanWrite(c, "client") /\ \E data \in Seq(Items) : conn' = Written(c, "client", data)
  <2>1. PICK data \in Seq(Items) : conn' = Written(c, "client", data)
    BY <1>5
  <2>2. /\ conn' \in Conns /\ Others(c) /\ conn'[c].server = conn[c].server
        /\ \/ conn'[c].client.state = conn[c].client.state
           \/ conn[c].server.state \notin {"open", "queued"} /\ conn'[c].client.state = "reset"
    BY <1>0, <2>1, WriteEffect
  <2>3. conn[c].client.state = "open" /\ conn[c].server.state \in States
    BY <1>0, <1>5, ConnEnds DEF CanWrite, Sides
  <2>4. Sockets(c)'
    BY <1>3, <2>2, <2>3 DEF Net, Sockets, Queued, Ended, Active, States
  <2>5. \A d \in Clients \ {c} : Sockets(d)'
    BY <1>2, <2>2 DEF Net, Sockets, Queued, Ended, Active, Others
  <2>6. Single' /\ Listens'
    BY <1>1, <2>2, <2>3 DEF Net, Single, Idle, InUse, Listens, Queued, Others
  <2> QED BY <1>2, <2>2, <2>4, <2>5, <2>6 DEF Net
<1>6. CASE \E most \in Nat : \E piece \in Received(c, "client", most) :
              conn' = Read(c, "client", piece)
  <2>1. PICK most \in Nat : \E piece \in Received(c, "client", most) : conn' = Read(c, "client", piece)
    BY <1>6
  <2>2. PICK piece \in Received(c, "client", most) : conn' = Read(c, "client", piece)
    BY <2>1
  <2>3. /\ conn' \in Conns /\ Others(c) /\ conn'[c].client = conn[c].client
        /\ conn'[c].server.state = conn[c].server.state
        /\ \E n \in 1..Len(Unread(c, "client")) : n <= most
    BY <1>0, <2>2, ReadEffect
  <2>4. conn[c].server.out # <<>>
    BY <1>0, <2>3 DEF Unread
  <2>5. Sockets(c)'
    BY <1>3, <2>3, <2>4 DEF Net, Sockets, Queued, Ended, Active
  <2>6. \A d \in Clients \ {c} : Sockets(d)'
    BY <1>2, <2>3 DEF Net, Sockets, Queued, Ended, Active, Others
  <2>7. Single' /\ Listens'
    BY <1>1, <2>3 DEF Net, Single, Idle, InUse, Listens, Queued, Others
  <2> QED BY <1>2, <2>3, <2>5, <2>6, <2>7 DEF Net
<1> QED BY <1>4, <1>5, <1>6

LEMMA NetClientCloses ==
  ASSUME Net, NEW c \in Clients, NEW from \in Moving, NEW to \in {"done", "failed"},
         Client(c, from, to), Close(c, "client")
  PROVE  Net'
<1>1. UNCHANGED <<listening, spc>> /\ cpc[c] = from /\ cpc' = [cpc EXCEPT ![c] = to]
  BY DEF Client, server
<1>2. cpc' \in [Clients -> Controls] /\ cpc'[c] = to /\ \A d \in Clients \ {c} : cpc'[d] = cpc[d]
  BY <1>1 DEF Net, Controls
<1>3. Sockets(c) /\ conn \in Conns /\ conn[c].client.state \in {"open", "reset"}
  BY <1>1 DEF Net, Sockets, Active, Ended, Moving
<1>4. /\ conn' \in Conns /\ Others(c) /\ conn'[c].client.state = "closed"
      /\ conn'[c].server.out = <<>>
      /\ \/ conn'[c].server.state = conn[c].server.state
         \/ conn[c].server.state = "open" /\ conn'[c].server.state = "reset"
  BY <1>3, CloseClient
<1>5. Sockets(c)'
  BY <1>2, <1>3, <1>4 DEF Sockets, Queued, Ended, Active
<1>6. \A d \in Clients \ {c} : Sockets(d)'
  BY <1>2, <1>4 DEF Net, Sockets, Queued, Ended, Active, Others
<1>7. Single' /\ Listens'
  BY <1>1, <1>3, <1>4 DEF Net, Single, Idle, InUse, Listens, Queued, Others, Sockets
<1> QED BY <1>2, <1>4, <1>5, <1>6, <1>7 DEF Net

LEMMA NetServerStart ==
  ASSUME Net, Server("start", "accept"), listening' = TRUE, conn' = conn
  PROVE  Net'
<1>1. cpc' = cpc /\ spc = "start" /\ spc' = "accept"
  BY DEF Server
<1>2. Single' /\ Listens'
  BY <1>1 DEF Net, Single, Idle, InUse, Listens
<1>3. \A c \in Clients : Sockets(c)'
  BY <1>1 DEF Net, Sockets, Queued, Ended, Active
<1> QED BY <1>1, <1>2, <1>3 DEF Net

LEMMA SocketsClosed ==
  ASSUME NEW c \in Clients, Sockets(c), ServerCloses(c), cpc' = cpc
  PROVE  Sockets(c)'
BY DEF Sockets, ServerCloses, Queued, Ended, Active

LEMMA NetCloseAll ==
  ASSUME Net, NEW cut, CloseAll(cut), cpc' = cpc, spc' \in {"loop", "ended"}
  PROVE  Net'
<1>1. /\ conn' \in Conns /\ listening' = FALSE
      /\ \A c \in Clients : ServerCloses(c)
  BY CloseAllEffect
<1>2. \A c \in Clients : Sockets(c)'
  BY <1>1, SocketsClosed DEF Net
<1>3. \A c \in Clients : conn'[c].server.state \in {"none", "closed"}
  BY <1>1 DEF ServerCloses
<1>4. Single' /\ Listens'
  BY <1>1, <1>3 DEF Single, InUse, Listens, Queued
<1> QED BY <1>1, <1>2, <1>4 DEF Net

LEMMA NetAccept ==
  ASSUME Net, NEW c \in Clients, NEW to \in Busy, Server("accept", to), Queued(c),
         conn' = Accepted(c), listening' = listening
  PROVE  Net'
<1>1. cpc' = cpc /\ spc = "accept" /\ spc' = to
  BY DEF Server
<1>2. /\ conn' \in Conns /\ Others(c) /\ conn'[c].client = conn[c].client
      /\ conn'[c].server.state = "open" /\ conn'[c].server.out = conn[c].server.out
  BY AcceptEffect DEF Net
<1>3. Single'
  BY <1>1, <1>2 DEF Net, Single, Idle, InUse, Others, Busy
<1>4. Listens'
  BY <1>1, <1>2 DEF Net, Listens, Busy
<1>5. Sockets(c)'
  BY <1>1, <1>2 DEF Net, Sockets, Queued, Ended, Active
<1>6. \A d \in Clients \ {c} : Sockets(d)'
  BY <1>1, <1>2 DEF Net, Sockets, Queued, Ended, Active, Others
<1> QED BY <1>1, <1>2, <1>3, <1>4, <1>5, <1>6 DEF Net

\* The server goes on with the one connection it serves.
LEMMA NetServerMoves ==
  ASSUME Net, NEW from \in Busy, NEW to \in Busy, Server(from, to), listening' = listening,
         \/ conn' = conn
         \/ \E c \in Served : \E data \in Seq(Items) :
              CanWrite(c, "server") /\ conn' = Written(c, "server", data)
         \/ \E c \in Served : \E most \in Nat : \E piece \in Received(c, "server", most) :
              conn' = Read(c, "server", piece)
  PROVE  Net'
<1>0. "server" \in Sides /\ Peer("server") = "client" /\ conn \in Conns
  BY DEF Sides, Peer, Net
<1>1. cpc' = cpc /\ spc = from /\ spc' = to /\ ~Idle /\ ~Idle' /\ spc' \notin {"start", "loop", "ended"}
  BY DEF Server, Idle, Busy
<1>2. CASE conn' = conn
  <2>1. Single' /\ Listens'
    BY <1>1, <1>2 DEF Net, Single, InUse, Listens
  <2>2. \A d \in Clients : Sockets(d)'
    BY <1>1, <1>2 DEF Net, Sockets, Queued, Ended, Active
  <2> QED BY <1>1, <1>2, <2>1, <2>2 DEF Net
<1>3. CASE \E c \in Served : \E data \in Seq(Items) :
              CanWrite(c, "server") /\ conn' = Written(c, "server", data)
  <2>1. PICK c \in Clients : \E data \in Seq(Items) :
              CanWrite(c, "server") /\ conn' = Written(c, "server", data)
    BY <1>3 DEF Served
  <2>2. PICK data \in Seq(Items) : CanWrite(c, "server") /\ conn' = Written(c, "server", data)
    BY <2>1
  <2>3. /\ conn' \in Conns /\ Others(c) /\ conn'[c].client = conn[c].client
        /\ \/ conn'[c].server.state = conn[c].server.state
           \/ conn[c].client.state \notin {"open", "queued"} /\ conn'[c].server.state = "reset"
    BY <1>0, <2>2, WriteEffect
  <2>4. conn[c].server.state = "open"
    BY <2>2 DEF CanWrite
  <2>5. Sockets(c)'
    BY <1>1, <2>3, <2>4 DEF Net, Sockets, Queued, Ended, Active
  <2>6. \A d \in Clients \ {c} : Sockets(d)'
    BY <1>1, <2>3 DEF Net, Sockets, Queued, Ended, Active, Others
  <2>7. Single' /\ Listens'
    BY <1>1, <2>3, <2>4 DEF Net, Single, InUse, Listens, Others
  <2> QED BY <1>1, <2>3, <2>5, <2>6, <2>7 DEF Net
<1>4. CASE \E c \in Served : \E most \in Nat : \E piece \in Received(c, "server", most) :
              conn' = Read(c, "server", piece)
  <2>1. PICK c \in Clients : \E most \in Nat : \E piece \in Received(c, "server", most) :
              conn' = Read(c, "server", piece)
    BY <1>4 DEF Served
  <2>2. PICK most \in Nat : \E piece \in Received(c, "server", most) : conn' = Read(c, "server", piece)
    BY <2>1
  <2>3. PICK piece \in Received(c, "server", most) : conn' = Read(c, "server", piece)
    BY <2>2
  <2>4. /\ conn' \in Conns /\ Others(c) /\ conn'[c].server = conn[c].server
        /\ conn'[c].client.state = conn[c].client.state
        /\ \E n \in 1..Len(Unread(c, "server")) : n <= most
    BY <1>0, <2>3, ReadEffect
  <2>5. conn[c].client.out # <<>>
    BY <1>0, <2>4 DEF Unread
  <2>6. Sockets(c)'
    BY <1>1, <2>4, <2>5 DEF Net, Sockets, Queued, Ended, Active
  <2>7. \A d \in Clients \ {c} : Sockets(d)'
    BY <1>1, <2>4 DEF Net, Sockets, Queued, Ended, Active, Others
  <2>8. Single' /\ Listens'
    BY <1>1, <2>4 DEF Net, Single, InUse, Listens, Others
  <2> QED BY <1>1, <2>4, <2>6, <2>7, <2>8 DEF Net
<1> QED BY <1>2, <1>3, <1>4

LEMMA NetServerCloses ==
  ASSUME Net, NEW c \in Served, NEW from \in Busy, Server(from, "accept"),
         listening' = listening, Close(c, "server")
  PROVE  Net'
<1>1. cpc' = cpc /\ spc = from /\ spc' = "accept" /\ c \in Clients
  BY DEF Server, Served
<1>2. conn' \in Conns /\ Others(c) /\ ServerCloses(c)
  BY <1>1, CloseServer DEF Net
<1>3. InUse(c)
  BY DEF Served, InUse
<1>4. Single'
  BY <1>1, <1>2, <1>3 DEF Net, Single, InUse, Others, ServerCloses
<1>5. Listens'
  BY <1>1 DEF Net, Listens
<1>6. Sockets(c)'
  BY <1>1, <1>2, SocketsClosed DEF Net
<1>7. \A d \in Clients \ {c} : Sockets(d)'
  BY <1>1, <1>2 DEF Net, Sockets, Queued, Ended, Active, Others
<1> QED BY <1>1, <1>2, <1>4, <1>5, <1>6, <1>7 DEF Net

LEMMA NetFault ==
  ASSUME Net, NEW c \in Clients, NetworkFails(c)
  PROVE  Net'
<1>1. UNCHANGED <<listening, spc, cpc>>
  BY DEF NetworkFails, server
<1>2. /\ conn' \in Conns /\ Others(c)
      /\ conn[c].client.state = "open" /\ conn[c].server.state = "open"
      /\ conn'[c].client.state = "reset" /\ conn'[c].server.state = "reset"
  BY NetworkEffect DEF Net
<1>3. Single' /\ Listens'
  BY <1>1, <1>2 DEF Net, Single, Idle, InUse, Listens, Queued, Others
<1>4. Sockets(c)'
  BY <1>1, <1>2 DEF Net, Sockets, Queued, Ended, Active
<1>5. \A d \in Clients \ {c} : Sockets(d)'
  BY <1>1, <1>2 DEF Net, Sockets, Queued, Ended, Active, Others
<1> QED BY <1>1, <1>2, <1>3, <1>4, <1>5 DEF Net

-----------------------------------------------------------------------------
(* A file on its way: what the server sends of it, in order, to one client.*)

\* All but sdata of str has been sent.
Left(str) == /\ sdata \in Seq(Items) /\ Len(sdata) <= Len(str)
             /\ sdata = SubSeq(str, Len(str) - Len(sdata) + 1, Len(str))
OpenEnds(c) == conn[c].client.state = "open" /\ conn[c].server.state = "open"
HalfShut(c) == conn[c].client.state = "open" /\ conn[c].server.state = "closed"
\* The elements of str from d on and before e are on their way to c.
OnWay(c, str, d, e) ==
  /\ d \in 1..(Len(str) + 1) /\ e \in d..(Len(str) + 1)
  /\ conn[c].server.out = SubSeq(str, d, e - 1)
  /\ Len(sdata) + e - 1 <= Len(str)
  /\ OpenEnds(c) => Len(sdata) + e - 1 = Len(str)
  /\ HalfShut(c) /\ causes[c] = {} => e - 1 = Len(str)
\* Nothing goes to a client but what the server sends to one of them.
Untouched(c, file) == ~InUse(c) /\ conn[c].server.out = <<>> /\ file = <<>>
\* The client sends nothing, and a connection is only reset for a cause.
Causes(c) == /\ conn[c].client.out = <<>>
             /\ conn[c].client.state = "reset" => causes[c] # {}

LEMMA LeftAll ==
  ASSUME NEW str \in Seq(Items), sdata = str PROVE Left(str)
<1>1. Len(str) \in Nat /\ Len(str) - Len(str) + 1 = 1
  BY LenProperties
<1>2. SubSeq(str, 1, Len(str)) = str
  BY SubSeqFull
<1> QED BY <1>1, <1>2 DEF Left

LEMMA WayInit ==
  ASSUME NEW c \in Clients, NEW str \in Seq(Items), sdata = str,
         conn[c] = [client |-> None, server |-> None]
  PROVE  OnWay(c, str, 1, 1)
<1>1. Len(str) \in Nat /\ SubSeq(str, 1, 1 - 1) = <<>>
  BY LenProperties, SliceEmpty
<1>2. conn[c].server.out = <<>> /\ ~OpenEnds(c) /\ ~HalfShut(c)
  BY DEF None, OpenEnds, HalfShut
<1>3. 1 \in 1..(Len(str) + 1) /\ Len(sdata) + 1 - 1 <= Len(str)
  BY <1>1
<1> QED BY <1>1, <1>2, <1>3 DEF OnWay

LEMMA WayKeeps ==
  ASSUME NEW c \in Clients, NEW str \in Seq(Items), NEW d, NEW e, OnWay(c, str, d, e),
         conn'[c] = conn[c], causes[c] = {} \/ causes'[c] # {},
         Len(sdata) \in Nat, Len(sdata') \in Nat,
         sdata' = sdata \/ (Len(sdata') <= Len(sdata) /\ ~OpenEnds(c))
  PROVE  OnWay(c, str, d, e)'
<1>1. Len(str) \in Nat /\ d \in Int /\ e \in Int
  BY LenProperties DEF OnWay
<1>2. Len(sdata') + e - 1 <= Len(str)
  BY <1>1 DEF OnWay
<1>3. OpenEnds(c)' = OpenEnds(c) /\ HalfShut(c)' = HalfShut(c)
  BY DEF OpenEnds, HalfShut
<1> QED BY <1>2, <1>3 DEF OnWay

\* An end whose states do not matter.
LEMMA WayShut ==
  ASSUME NEW c \in Clients, NEW str \in Seq(Items), NEW d, NEW e, OnWay(c, str, d, e),
         NEW f \in d..e, conn'[c].server.out = SubSeq(str, d, f - 1), sdata' = sdata,
         sdata \in Seq(Items), ~OpenEnds(c)', ~HalfShut(c)' \/ causes'[c] # {}
  PROVE  OnWay(c, str, d, f)'
<1>1. Len(str) \in Nat /\ d \in Int /\ e \in Int /\ f \in Int /\ Len(sdata) \in Nat
  BY LenProperties DEF OnWay
<1>2. f \in d..(Len(str) + 1) /\ Len(sdata) + f - 1 <= Len(str)
  BY <1>1 DEF OnWay
<1> QED BY <1>2 DEF OnWay

\* What the server has left, when it takes n elements of it.
LEMMA LeftShrinks ==
  ASSUME NEW str \in Seq(Items), Left(str), NEW n \in 0..Len(sdata),
         sdata' = SubSeq(sdata, n + 1, Len(sdata))
  PROVE  /\ Left(str)' /\ Len(sdata') = Len(sdata) - n
         /\ SubSeq(sdata, 1, n) \in Seq(Items) /\ Len(SubSeq(sdata, 1, n)) = n
         /\ SubSeq(sdata, 1, n) =
              SubSeq(str, Len(str) - Len(sdata) + 1, Len(str) - Len(sdata) + n)
<1> DEFINE a == Len(str) - Len(sdata) + 1
           b == Len(str)
           l == Len(sdata)
<1>1. b \in Nat /\ l \in Nat /\ l <= b /\ sdata \in Seq(Items) /\ a \in 1..(Len(str) + 1)
  BY LenProperties DEF Left
<1>2. b \in (a - 1)..Len(str) /\ b - a + 1 = l
  BY <1>1
<1>3. /\ n + 1 \in 1..(b - a + 2) /\ l \in (n + 1 - 1)..(b - a + 1)
      /\ 1 \in 1..(b - a + 2) /\ n \in (1 - 1)..(b - a + 1)
  BY <1>1
<1>4. sdata = SubSeq(str, a, b)
  BY DEF Left
<1> HIDE DEF a, b, l
<1>5. SubSeq(SubSeq(str, a, b), n + 1, l) = SubSeq(str, a + (n + 1) - 1, a + l - 1)
  BY <1>1, <1>2, <1>3, SliceOfSlice
<1>6. SubSeq(SubSeq(str, a, b), 1, n) = SubSeq(str, a + 1 - 1, a + n - 1)
  BY <1>1, <1>2, <1>3, SliceOfSlice
<1>7. n + 1 \in 1..(Len(sdata) + 1) /\ l \in (n + 1 - 1)..Len(sdata)
  BY <1>1 DEF l
<1>8. SubSeq(sdata, n + 1, l) \in Seq(Items) /\ Len(SubSeq(sdata, n + 1, l)) = l - (n + 1) + 1
  BY <1>1, <1>7, SliceType
<1>9. 1 \in 1..(Len(sdata) + 1) /\ n \in (1 - 1)..Len(sdata)
  BY <1>1 DEF l
<1>10. SubSeq(sdata, 1, n) \in Seq(Items) /\ Len(SubSeq(sdata, 1, n)) = n - 1 + 1
  BY <1>1, <1>9, SliceType
<1>11. sdata' \in Seq(Items) /\ Len(sdata') = l - n
  BY <1>1, <1>8 DEF l
<1>12. sdata' = SubSeq(str, b - (l - n) + 1, b)
  <2>1. a + (n + 1) - 1 = b - (l - n) + 1 /\ a + l - 1 = b
    BY <1>1, <1>2 DEF l, b, a
  <2> QED BY <1>4, <1>5, <2>1 DEF l
<1>13. a + 1 - 1 = a /\ a + n - 1 = Len(str) - Len(sdata) + n
  BY <1>1 DEF a, b, l
<1>14. l - n <= b
  BY <1>1, <1>3
<1>15. n - 1 + 1 = n
  BY <1>3
<1>16. Left(str)'
  BY <1>11, <1>12, <1>14 DEF Left, b
<1> QED BY <1>4, <1>6, <1>10, <1>11, <1>13, <1>15, <1>16 DEF a, l

\* The server sends the next n elements.
LEMMA WaySend ==
  ASSUME Net, NEW c \in Clients, NEW str \in Seq(Items), NEW d, NEW e, OnWay(c, str, d, e),
         Left(str), CanWrite(c, "server"), NEW n \in 1..Len(sdata),
         conn' = Written(c, "server", SubSeq(sdata, 1, n)),
         sdata' = SubSeq(sdata, n + 1, Len(sdata))
  PROVE  \E e2 \in 1..(Len(str) + 1) : OnWay(c, str, d, e2)'
<1>0. PICK m \in Nat, l \in Nat : m = Len(str) /\ l = Len(sdata)
  BY LenProperties DEF Left
<1>1. /\ d \in Int /\ e \in Int /\ n \in Int /\ n >= 1 /\ n <= l
      /\ d >= 1 /\ d <= e /\ e <= m + 1 /\ l <= m /\ l + e - 1 <= m
  BY <1>0 DEF OnWay, Left
<1>2. /\ "server" \in Sides /\ Peer("server") = "client" /\ conn \in Conns /\ Sockets(c)
      /\ n \in 0..Len(sdata)
  BY <1>0, <1>1 DEF Sides, Peer, Net
<1>3. /\ Left(str)' /\ Len(sdata') = l - n
      /\ SubSeq(sdata, 1, n) \in Seq(Items) /\ Len(SubSeq(sdata, 1, n)) = n
      /\ SubSeq(sdata, 1, n) = SubSeq(str, m - l + 1, m - l + n)
  BY <1>0, <1>2, LeftShrinks
<1>4. PICK piece \in Seq(Items) : piece = SubSeq(sdata, 1, n)
  BY <1>3
<1>5. piece # <<>> /\ conn' = Written(c, "server", piece)
  <2>1. Len(piece) = n /\ Len(<<>>) = 0 /\ n # 0
    BY <1>1, <1>3, <1>4
  <2>2. piece # <<>>
    BY <2>1
  <2>3. conn' = Written(c, "server", piece)
    BY <1>4
  <2> QED BY <2>2, <2>3
<1>6. /\ conn'[c].client = conn[c].client
      /\ \/ /\ conn[c].client.state \in {"open", "queued"}
            /\ conn'[c].server.state = conn[c].server.state
            /\ conn'[c].server.out = conn[c].server.out \o piece
         \/ /\ conn[c].client.state \notin {"open", "queued"}
            /\ conn'[c].server.state = "reset" /\ conn'[c].server.out = conn[c].server.out
  BY <1>2, <1>5, WriteEffect
<1>7. conn[c].server.state = "open"
  BY DEF CanWrite
<1>8. CASE conn[c].client.state \in {"open", "queued"}
  <2>0. /\ conn'[c].client.state \in {"open", "queued"}
        /\ conn'[c].server.state = "open" /\ conn'[c].server.out = conn[c].server.out \o piece
    BY <1>6, <1>7, <1>8
  <2>1. OpenEnds(c)
    BY <1>2, <1>7, <1>8 DEF Sockets, OpenEnds
  <2>2. l + e - 1 = m
    BY <1>0, <2>1 DEF OnWay
  <2>3. m - l + 1 = (e - 1) + 1 /\ m - l + n = e - 1 + n /\ e - 1 + n <= m
    BY <1>1, <2>2
  <2>4. piece = SubSeq(str, (e - 1) + 1, e - 1 + n)
    BY <1>3, <1>4, <2>3
  <2>5. d \in 1..(m + 1) /\ e - 1 \in (d - 1)..m /\ e - 1 + n \in (e - 1)..m
    BY <1>1, <2>3
  <2>6. SubSeq(str, d, e - 1) \o SubSeq(str, (e - 1) + 1, e - 1 + n) = SubSeq(str, d, e - 1 + n)
    BY <1>0, <2>5, SliceJoin
  <2>7. PICK e2 \in 1..(m + 1) : e2 = e + n
    BY <1>1, <2>3
  <2>8. e2 - 1 = e - 1 + n /\ e2 \in d..(m + 1) /\ (l - n) + e2 - 1 = m
    BY <1>1, <2>2, <2>7
  <2>9. conn'[c].server.out = SubSeq(str, d, e2 - 1)
    BY <2>0, <2>4, <2>6, <2>8 DEF OnWay
  <2>10. ~HalfShut(c)'
    BY <2>0 DEF HalfShut
  <2>11. Len(sdata') + e2 - 1 = m
    BY <1>3, <2>8
  <2>12. Len(sdata') + e2 - 1 <= m
    BY <2>11
  <2>13. e2 \in d..(m + 1) /\ e2 \in 1..(m + 1)
    BY <2>7, <2>8
  <2>14. OnWay(c, str, d, e2)'
    BY <1>0, <2>5, <2>9, <2>10, <2>11, <2>12, <2>13 DEF OnWay
  <2> QED BY <1>0, <2>13, <2>14
<1>9. CASE conn[c].client.state \notin {"open", "queued"}
  <2>1. ~OpenEnds(c)' /\ ~HalfShut(c)' /\ conn'[c].server.out = conn[c].server.out
    BY <1>6, <1>9 DEF OpenEnds, HalfShut
  <2>2. (l - n) + e - 1 <= m
    BY <1>1
  <2>3. Len(sdata') + e - 1 <= Len(str)
    BY <1>0, <1>3, <2>2
  <2>4. OnWay(c, str, d, e)'
    BY <2>1, <2>3 DEF OnWay
  <2>5. e \in 1..(Len(str) + 1)
    BY <1>0, <1>1
  <2> QED BY <2>4, <2>5
<1> QED BY <1>8, <1>9

\* The client reads the next n elements.
LEMMA WayReceive ==
  ASSUME Net, NEW c \in Clients, NEW str \in Seq(Items),
         NEW d \in 1..(Len(str) + 1), NEW e \in 1..(Len(str) + 1), OnWay(c, str, d, e),
         NEW most \in Nat, NEW piece \in Received(c, "client", most),
         conn' = Read(c, "client", piece), sdata' = sdata, causes[c] = {} \/ causes'[c] # {}
  PROVE  \E f \in 1..(Len(str) + 1) : /\ OnWay(c, str, f, e)' /\ d < f /\ f <= e
                                      /\ piece = SubSeq(str, d, f - 1)
<1>0. PICK m \in Nat : m = Len(str)
  BY LenProperties
<1>1. d \in Int /\ e \in Int /\ d >= 1 /\ d <= e /\ e <= m + 1
  BY <1>0 DEF OnWay
<1>2. /\ "client" \in Sides /\ Peer("client") = "server" /\ conn \in Conns
      /\ d \in 1..(m + 1) /\ e - 1 \in (d - 1)..m
      /\ Unread(c, "client") = SubSeq(str, d, e - 1)
  BY <1>0, <1>1 DEF Sides, Peer, Net, Unread, OnWay
<1>3. PICK u \in Nat : u = e - 1 - d + 1 /\ Len(Unread(c, "client")) = u
  <2>1. e - 1 - d + 1 \in Nat
    BY <1>1
  <2>2. Len(SubSeq(str, d, e - 1)) = e - 1 - d + 1
    BY <1>0, <1>2, SliceType
  <2> QED BY <1>2, <2>1, <2>2
<1>4. /\ conn'[c].client = conn[c].client
      /\ conn'[c].server.state = conn[c].server.state
      /\ \E n \in 1..Len(Unread(c, "client")) :
           /\ n <= most /\ piece = SubSeq(Unread(c, "client"), 1, n)
           /\ conn'[c].server.out = SubSeq(Unread(c, "client"), n + 1, Len(Unread(c, "client")))
  <2>1. conn' \in Conns /\ Others(c) /\ conn'[c]["client"] = conn[c]["client"]
         /\ conn'[c][Peer("client")].state = conn[c][Peer("client")].state
         /\ \E n \in 1..Len(Unread(c, "client")) :
              /\ n <= most /\ piece = SubSeq(Unread(c, "client"), 1, n)
              /\ conn'[c][Peer("client")].out
                   = SubSeq(Unread(c, "client"), n + 1, Len(Unread(c, "client")))
    BY <1>2, ReadEffect
  <2> QED BY <1>2, <2>1
<1>5. PICK n \in 1..u : /\ piece = SubSeq(SubSeq(str, d, e - 1), 1, n)
                        /\ conn'[c].server.out = SubSeq(SubSeq(str, d, e - 1), n + 1, u)
  BY <1>2, <1>3, <1>4
<1>6. /\ n \in Int /\ n >= 1 /\ d + n <= e
      /\ 1 \in 1..(e - 1 - d + 2) /\ n \in (1 - 1)..(e - 1 - d + 1)
      /\ n + 1 \in 1..(e - 1 - d + 2) /\ u \in (n + 1 - 1)..(e - 1 - d + 1)
  <2>1. n \in Int /\ n >= 1 /\ n <= u /\ u = e - 1 - d + 1
    BY <1>3, <1>5
  <2>2. e - 1 - d + 2 = u + 1 /\ d + n <= e
    BY <1>1, <2>1
  <2>3. /\ 1 \in 1..(u + 1) /\ n \in (1 - 1)..u /\ n + 1 \in 1..(u + 1) /\ u \in (n + 1 - 1)..u
    BY <1>3, <2>1
  <2> QED BY <2>1, <2>2, <2>3
<1>7. SubSeq(SubSeq(str, d, e - 1), 1, n) = SubSeq(str, d + 1 - 1, d + n - 1)
  BY <1>0, <1>2, <1>6, SliceOfSlice
<1>8. SubSeq(SubSeq(str, d, e - 1), n + 1, u) = SubSeq(str, d + (n + 1) - 1, d + u - 1)
  BY <1>0, <1>2, <1>6, SliceOfSlice
<1>9. PICK f \in 1..(m + 1) : f = d + n
  <2>1. d + n \in 1..(m + 1)
    BY <1>1, <1>6
  <2> QED BY <2>1
<1>10. /\ d + 1 - 1 = d /\ d + n - 1 = f - 1 /\ d + (n + 1) - 1 = f /\ d + u - 1 = e - 1
       /\ d < f /\ f <= e /\ e \in f..(m + 1)
  BY <1>1, <1>3, <1>6, <1>9
<1>11. piece = SubSeq(str, d, f - 1) /\ conn'[c].server.out = SubSeq(str, f, e - 1)
  BY <1>5, <1>7, <1>8, <1>10
<1>12. OpenEnds(c)' = OpenEnds(c) /\ HalfShut(c)' = HalfShut(c)
  BY <1>4 DEF OpenEnds, HalfShut
<1>13. OnWay(c, str, f, e)'
  BY <1>0, <1>9, <1>10, <1>11, <1>12 DEF OnWay
<1> QED BY <1>0, <1>10, <1>11, <1>13

\* A beginning of what is on its way.
LEMMA WayPart ==
  ASSUME NEW c \in Clients, NEW str \in Seq(Items), NEW d, NEW e, OnWay(c, str, d, e),
         NEW x, Part(x, conn[c].server.out)
  PROVE  \E f \in d..e : x = SubSeq(str, d, f - 1)
<1>0. PICK m \in Nat : m = Len(str)
  BY LenProperties
<1>1. d \in Int /\ e \in Int /\ d >= 1 /\ d <= e /\ e <= m + 1
  BY <1>0 DEF OnWay
<1>2. d \in 1..(m + 1) /\ e - 1 \in (d - 1)..m /\ conn[c].server.out = SubSeq(str, d, e - 1)
  BY <1>1, <1>0 DEF OnWay
<1>3. Len(SubSeq(str, d, e - 1)) = e - 1 - d + 1
  BY <1>0, <1>2, SliceType
<1>4. PICK l \in 0..(e - 1 - d + 1) : x = SubSeq(SubSeq(str, d, e - 1), 1, l)
  BY <1>2, <1>3 DEF Part
<1>5. 1 \in 1..(e - 1 - d + 2) /\ l \in (1 - 1)..(e - 1 - d + 1)
  BY <1>1, <1>4
<1>6. x = SubSeq(str, d + 1 - 1, d + l - 1)
  BY <1>0, <1>2, <1>4, <1>5, SliceOfSlice
<1>7. d + 1 - 1 = d /\ d + l \in d..e
  BY <1>1, <1>4
<1>8. x = SubSeq(str, d, (d + l) - 1)
  BY <1>1, <1>4, <1>6, <1>7
<1> QED BY <1>7, <1>8

LEMMA WayConnect ==
  ASSUME Net, NEW c \in Clients, NEW str \in Seq(Items), NEW d, NEW e, OnWay(c, str, d, e),
         conn[c].client.state = "none", conn' = Connected(c), sdata' = sdata
  PROVE  OnWay(c, str, d, e)'
<1>1. conn'[c].server.state = "queued" /\ conn'[c].server.out = <<>>
  BY ConnectEffect DEF Net
<1>2. conn[c].server.out = <<>>
  BY DEF Net, Sockets
<1>3. ~OpenEnds(c)' /\ ~HalfShut(c)'
  BY <1>1 DEF OpenEnds, HalfShut
<1> QED BY <1>1, <1>2, <1>3 DEF OnWay

\* A connection is accepted before the server has sent anything.
LEMMA WayAccept ==
  ASSUME Net, NEW c \in Clients, NEW str \in Seq(Items), NEW d, NEW e, OnWay(c, str, d, e),
         sdata = str, conn' = Accepted(c), sdata' = sdata
  PROVE  OnWay(c, str, d, e)'
<1>0. PICK m \in Nat : m = Len(str)
  BY LenProperties
<1>1. /\ conn'[c].client = conn[c].client
      /\ conn'[c].server.state = "open" /\ conn'[c].server.out = conn[c].server.out
  BY AcceptEffect DEF Net
<1>2. d \in Int /\ e \in Int /\ d >= 1 /\ d <= e /\ m + e - 1 <= m
  BY <1>0 DEF OnWay
<1>3. m + e - 1 = m
  BY <1>2
<1>4. Len(sdata') + e - 1 = Len(str)
  BY <1>0, <1>3
<1>5. ~HalfShut(c)'
  BY <1>1 DEF HalfShut
<1> QED BY <1>1, <1>4, <1>5 DEF OnWay

LEMMA WayClientCloses ==
  ASSUME Net, NEW c \in Clients, NEW str \in Seq(Items), NEW d, NEW e, OnWay(c, str, d, e),
         conn[c].client.state \in {"open", "reset"}, Close(c, "client"),
         sdata \in Seq(Items), sdata' = sdata
  PROVE  d \in 1..(Len(str) + 1) /\ OnWay(c, str, d, d)'
<1>1. conn'[c].client.state = "closed" /\ conn'[c].server.out = <<>>
  BY CloseClient DEF Net
<1>2. ~OpenEnds(c)' /\ ~HalfShut(c)'
  BY <1>1 DEF OpenEnds, HalfShut
<1>3. d \in Int /\ d \in d..e /\ d \in 1..(Len(str) + 1)
  BY DEF OnWay
<1>4. SubSeq(str, d, d - 1) = <<>>
  BY <1>3, SliceEmpty
<1> QED BY <1>1, <1>2, <1>3, <1>4, WayShut

\* The server closes its end when it has sent everything, or it is to blame.
LEMMA WayServerCloses ==
  ASSUME Net, NEW c \in Clients, NEW str \in Seq(Items), NEW d, NEW e, OnWay(c, str, d, e),
         Causes(c), ServerCloses(c), sdata \in Seq(Items), sdata' = sdata,
         causes[c] = {} \/ causes'[c] # {},
         Queued(c) => causes'[c] # {}, OpenEnds(c) => sdata = <<>> \/ causes'[c] # {}
  PROVE  OnWay(c, str, d, e)' /\ Causes(c)'
<1>0. Sockets(c) /\ conn \in Conns /\ e \in Int /\ Len(sdata) \in Nat
  BY LenProperties DEF Net, OnWay
<1>1. CASE conn[c].server.state \in {"none", "closed"}
  <2>1. conn'[c] = conn[c]
    BY <1>1 DEF ServerCloses
  <2> QED BY <1>0, <2>1, WayKeeps DEF Causes
<1>2. CASE Queued(c)
  <2>1. conn[c].server.out = <<>> /\ conn[c].server.state = "queued"
    BY <1>0, <1>2 DEF Sockets, Queued
  <2>2. /\ conn'[c].server.state = "closed" /\ Part(conn'[c].server.out, <<>>)
        /\ conn'[c].client.out = <<>>
    BY <2>1 DEF ServerCloses
  <2>3. conn'[c].server.out = <<>> /\ causes'[c] # {}
    BY <1>2, <2>2, PartOfNothing
  <2>4. ~OpenEnds(c)'
    BY <2>2 DEF OpenEnds
  <2>5. conn'[c].server.out = SubSeq(str, d, e - 1) /\ e \in d..e
    BY <2>1, <2>3 DEF OnWay
  <2>6. OnWay(c, str, d, e)'
    BY <2>3, <2>4, <2>5, WayShut
  <2> QED BY <2>2, <2>3, <2>6 DEF Causes
<1>3. CASE InUse(c)
  <2>1. /\ conn'[c].server.state = "closed" /\ conn'[c].client.out = <<>>
        /\ conn'[c].client.state = conn[c].client.state
        /\ conn'[c].server.out = conn[c].server.out
    BY <1>3 DEF ServerCloses, InUse, Causes, Queued
  <2>2. Causes(c)'
    BY <2>1 DEF Causes
  <2>3. ~OpenEnds(c)'
    BY <2>1 DEF OpenEnds
  <2>4. ASSUME HalfShut(c)', causes'[c] = {} PROVE e - 1 = Len(str)
    <3>1. conn[c].client.state = "open"
      BY <1>3, <2>1, <2>4 DEF HalfShut
    <3>2. OpenEnds(c)
      BY <1>0, <1>3, <3>1 DEF OpenEnds, Sockets, InUse
    <3>3. Len(sdata) = 0 /\ Len(sdata) + e - 1 = Len(str)
      BY <2>4, <3>2 DEF OnWay
    <3> QED BY <1>0, <3>3
  <2> QED BY <2>1, <2>2, <2>3, <2>4 DEF OnWay
<1>4. conn[c].server.state \in States
  BY <1>0, ConnEnds DEF Sides
<1> QED BY <1>1, <1>2, <1>3, <1>4 DEF Queued, InUse, States

LEMMA WayFault ==
  ASSUME Net, NEW c \in Clients, NEW str \in Seq(Items), NEW d, NEW e, OnWay(c, str, d, e),
         Causes(c), NetworkFails(c), sdata \in Seq(Items)
  PROVE  /\ \E f \in 1..(Len(str) + 1) : OnWay(c, str, d, f)'
         /\ Causes(c)' /\ causes'[c] # {}
<1>1. /\ conn'[c].client.state = "reset" /\ conn'[c].server.state = "reset"
      /\ Part(conn'[c].client.out, conn[c].client.out)
      /\ Part(conn'[c].server.out, conn[c].server.out)
  BY NetworkEffect DEF Net
<1>2. sdata' = sdata /\ causes'[c] # {}
  BY DEF NetworkFails, server, Blame
<1>3. conn'[c].client.out = <<>>
  BY <1>1, PartOfNothing DEF Causes
<1>4. PICK x : x = conn'[c].server.out
  OBVIOUS
<1>5. \E f \in d..e : x = SubSeq(str, d, f - 1)
  BY <1>1, <1>4, WayPart
<1>6. PICK f \in d..e : x = SubSeq(str, d, f - 1)
  BY <1>5
<1>7. ~OpenEnds(c)' /\ f \in 1..(Len(str) + 1)
  BY <1>1, <1>6 DEF OpenEnds, OnWay
<1>8. OnWay(c, str, d, f)'
  BY <1>2, <1>4, <1>6, <1>7, WayShut
<1> QED BY <1>2, <1>3, <1>7, <1>8 DEF Causes

-----------------------------------------------------------------------------
(* The transfer of pr1/transfer.                                           *)

\* What c has appended and what is on its way to it make a beginning of the
\* file; it ends without the whole file only for a cause.
TransferClient(c) ==
  /\ Causes(c)
  /\ \E d, e \in 1..(Len(File) + 1) :
        OnWay(c, File, d, e) /\ cdata[c] = SubSeq(File, 1, d - 1)
  /\ cpc[c] = "done" /\ causes[c] = {} => cdata[c] = File
TransferInv ==
  /\ Left(File) /\ cdata \in [Clients -> Seq(Items)]
  /\ spc \in {"start", "accept"} => sdata = File /\ \A c \in Clients : Untouched(c, cdata[c])
  /\ spc = "close" => sdata = <<>> \/ \A c \in Clients : InUse(c) => causes[c] # {}
  /\ \A c, d \in Clients : Untouched(c, cdata[c]) \/ Untouched(d, cdata[d]) \/ c = d
  /\ \A c \in Clients : TransferClient(c)

LEMMA FileType == File \in Seq(Items) /\ Len(File) \in Nat /\ Block \in Nat \ {0}
<1>1. Range(File) \subseteq Items
  BY DEF Items
<1>2. File \in Seq(Range(File)) /\ Block \in Nat \ {0}
  BY PairsAssumption
<1> QED BY <1>1, <1>2, SeqMonotonic, LenProperties

\* What a step leaves of a client it does not concern.
LEMMA TransferKeeps ==
  ASSUME NEW c \in Clients, TransferClient(c), sdata \in Seq(Items), sdata' \in Seq(Items),
         conn'[c] = conn[c], cpc'[c] = cpc[c], cdata'[c] = cdata[c],
         causes[c] = {} \/ causes'[c] # {},
         sdata' = sdata \/ (Len(sdata') <= Len(sdata) /\ ~OpenEnds(c))
  PROVE  TransferClient(c)'
<1>1. PICK d \in 1..(Len(File) + 1), e \in 1..(Len(File) + 1) :
        OnWay(c, File, d, e) /\ cdata[c] = SubSeq(File, 1, d - 1)
  BY DEF TransferClient
<1>2. Len(sdata) \in Nat /\ Len(sdata') \in Nat
  BY LenProperties
<1>3. OnWay(c, File, d, e)'
  BY <1>1, <1>2, FileType, WayKeeps
<1>4. Causes(c)'
  BY DEF Causes, TransferClient
<1> QED BY <1>1, <1>3, <1>4 DEF TransferClient

LEMMA TransferServerCloses ==
  ASSUME Net, NEW c \in Clients, TransferClient(c), ServerCloses(c),
         sdata \in Seq(Items), sdata' = sdata, cpc'[c] = cpc[c], cdata'[c] = cdata[c],
         causes[c] = {} \/ causes'[c] # {},
         Queued(c) => causes'[c] # {}, OpenEnds(c) => sdata = <<>> \/ causes'[c] # {}
  PROVE  TransferClient(c)' /\ (Untouched(c, cdata[c]) => Untouched(c, cdata[c])')
<1>1. PICK d \in 1..(Len(File) + 1), e \in 1..(Len(File) + 1) :
        OnWay(c, File, d, e) /\ cdata[c] = SubSeq(File, 1, d - 1)
  BY DEF TransferClient
<1>2. OnWay(c, File, d, e)' /\ Causes(c)'
  BY <1>1, FileType, WayServerCloses DEF TransferClient
<1>3. TransferClient(c)'
  BY <1>1, <1>2 DEF TransferClient
<1>4. ASSUME conn[c].server.out = <<>> PROVE conn'[c].server.out = <<>>
  BY <1>4, PartOfNothing DEF ServerCloses
<1> QED BY <1>3, <1>4 DEF Untouched, ServerCloses, InUse

LEMMA TransferCloseAll ==
  ASSUME Net, TransferInv, CloseAll({}), UNCHANGED <<sdata, cpc, cdata>>,
         spc' \in {"loop", "ended"},
         \A c \in Clients : OpenEnds(c) => sdata = <<>> \/ causes[c] # {}
  PROVE  TransferInv'
<1>1. \A c \in Clients : ServerCloses(c)
  BY CloseAllEffect
<1>2. \A c \in Clients : /\ causes[c] = {} \/ causes'[c] # {}
                         /\ Queued(c) => causes'[c] # {}
  BY DEF CloseAll, Blame, Waiting
<1>3. ASSUME NEW c \in Clients
      PROVE  TransferClient(c)' /\ (Untouched(c, cdata[c]) => Untouched(c, cdata[c])')
  BY <1>1, <1>2, TransferServerCloses DEF TransferInv, Left
<1>4. Left(File)'
  BY DEF TransferInv, Left
<1> QED BY <1>3, <1>4 DEF TransferInv

LEMMA TransferServerMoves ==
  ASSUME Net, TransferInv,
         T!ServerStart \/ T!ServerFails \/ T!FileEnds \/ T!SendFails \/ T!CloseBoth
  PROVE  Net' /\ TransferInv'
<1>0. sdata \in Seq(Items) /\ \A c \in Clients : TransferClient(c) /\ Sockets(c)
  BY DEF TransferInv, Left, Net
<1>1. CASE T!ServerStart
  <2>1. /\ Server("start", "accept") /\ spc = "start" /\ spc' = "accept" /\ listening' = TRUE
        /\ UNCHANGED <<conn, sdata, causes, cpc, cdata>>
    BY <1>1, SameT DEF T!ServerStart, Server
  <2>2. Net'
    BY <2>1, NetServerStart
  <2>3. \A c \in Clients : TransferClient(c)'
    BY <1>0, <2>1, TransferKeeps
  <2>4. \A c \in Clients : Untouched(c, cdata[c])' = Untouched(c, cdata[c])
    BY <2>1 DEF Untouched, InUse
  <2>5. Left(File)'
    BY <2>1 DEF TransferInv, Left
  <2> QED BY <2>1, <2>2, <2>3, <2>4, <2>5 DEF TransferInv
<1>2. CASE T!ServerFails
  <2>1. /\ spc \in {"start", "accept"} /\ spc' = "ended"
        /\ CloseAll({}) /\ UNCHANGED <<sdata, cpc, cdata>>
    BY <1>2, SameT DEF T!ServerFails, Server
  <2>2. \A c \in Clients : ~OpenEnds(c)
    BY <2>1 DEF Net, Single, Idle, InUse, OpenEnds
  <2> QED BY <2>1, <2>2, TransferCloseAll, NetCloseAll
<1>3. CASE T!FileEnds
  <2>1. /\ Server("send", "close") /\ UNCHANGED <<listening, sdata, conn, cpc, cdata>>
        /\ IF sdata = <<>> THEN UNCHANGED causes ELSE \E why : Blame(Served, why)
        /\ spc' = "close"
    BY <1>3, SameT DEF T!FileEnds, Server
  <2>2. Net'
    BY <2>1, NetServerMoves DEF Busy
  <2>3. \A c \in Clients : causes[c] = {} \/ causes'[c] # {}
    BY <2>1 DEF Blame
  <2>4. \A c \in Clients : TransferClient(c)'
    BY <1>0, <2>1, <2>3, TransferKeeps
  <2>5. sdata = <<>> \/ \A c \in Clients : InUse(c) => causes'[c] # {}
    BY <2>1 DEF Blame, InUse, Served
  <2>6. \A c \in Clients : /\ Untouched(c, cdata[c])' = Untouched(c, cdata[c])
                           /\ InUse(c)' = InUse(c)
    BY <2>1 DEF Untouched, InUse
  <2>7. Left(File)'
    BY <2>1 DEF TransferInv, Left
  <2> QED BY <2>1, <2>2, <2>4, <2>5, <2>6, <2>7 DEF TransferInv
<1>4. CASE T!SendFails
  <2>1. /\ spc' = "ended" /\ CloseAll({}) /\ UNCHANGED <<sdata, cpc, cdata>>
        /\ spc = "loop" \/ \E c \in Served : ~CanWrite(c, "server")
    BY <1>4, SameT DEF T!SendFails, Server
  <2>2. ASSUME NEW d \in Clients PROVE ~OpenEnds(d)
    <3>1. CASE spc = "loop"
      BY <3>1 DEF Net, Single, Idle, InUse, OpenEnds
    <3>2. CASE \E c \in Served : ~CanWrite(c, "server")
      BY <3>2 DEF Net, Single, InUse, Served, CanWrite, OpenEnds
    <3> QED BY <2>1, <3>1, <3>2
  <2> QED BY <2>1, <2>2, TransferCloseAll, NetCloseAll
<1>5. CASE T!CloseBoth
  <2>1. /\ spc = "close" /\ spc' = "loop" /\ CloseAll({}) /\ UNCHANGED <<sdata, cpc, cdata>>
    BY <1>5, SameT DEF T!CloseBoth, Server
  <2>2. \A c \in Clients : OpenEnds(c) => sdata = <<>> \/ causes[c] # {}
    BY <2>1 DEF TransferInv, InUse, OpenEnds
  <2> QED BY <2>1, <2>2, TransferCloseAll, NetCloseAll
<1> QED BY <1>1, <1>2, <1>3, <1>4, <1>5

LEMMA TransferAccept ==
  ASSUME Net, TransferInv, NEW c \in Clients, T!Accept(c)
  PROVE  Net' /\ TransferInv'
<1>1. /\ Queued(c) /\ Server("accept", "send") /\ spc = "accept" /\ spc' = "send"
      /\ conn' = Accepted(c) /\ UNCHANGED <<listening, sdata, causes, cpc, cdata>>
  BY SameT DEF T!Accept, Server
<1>2. Net'
  BY <1>1, NetAccept DEF Busy
<1>3. sdata = File /\ (\A d \in Clients : Untouched(d, cdata[d])) /\ sdata \in Seq(Items)
  BY <1>1 DEF TransferInv, Left
<1>4. Others(c) /\ conn'[c].client = conn[c].client
  BY <1>1, AcceptEffect DEF Net
<1>5. TransferClient(c)'
  <2>1. PICK d \in 1..(Len(File) + 1), e \in 1..(Len(File) + 1) :
          OnWay(c, File, d, e) /\ cdata[c] = SubSeq(File, 1, d - 1)
    BY DEF TransferInv, TransferClient
  <2>2. OnWay(c, File, d, e)'
    BY <1>1, <1>3, <2>1, FileType, WayAccept
  <2>3. Causes(c) /\ (cpc[c] = "done" /\ causes[c] = {} => cdata[c] = File)
    BY DEF TransferInv, TransferClient
  <2> QED BY <1>1, <1>4, <2>1, <2>2, <2>3 DEF TransferClient, Causes
<1>6. \A d \in Clients \ {c} : TransferClient(d)' /\ Untouched(d, cdata[d])'
  <2>1. ASSUME NEW d \in Clients \ {c} PROVE TransferClient(d)'
    BY <1>1, <1>3, <1>4, TransferKeeps DEF TransferInv, Others
  <2> QED BY <1>1, <1>3, <1>4, <2>1 DEF Untouched, InUse, Others
<1>7. Left(File)'
  BY <1>1 DEF TransferInv, Left
<1> QED BY <1>1, <1>2, <1>5, <1>6, <1>7 DEF TransferInv

LEMMA TransferSend ==
  ASSUME Net, TransferInv, NEW c \in Clients, T!Send(c)
  PROVE  Net' /\ TransferInv'
<1>1. PICK n : n = Least(Block, Len(sdata))
  OBVIOUS
<1>2. /\ c \in Served /\ Server("send", "send") /\ spc = "send" /\ spc' = "send"
      /\ sdata # <<>> /\ CanWrite(c, "server")
      /\ conn' = Written(c, "server", SubSeq(sdata, 1, n))
      /\ sdata' = SubSeq(sdata, n + 1, Len(sdata))
      /\ UNCHANGED <<listening, causes, cpc, cdata>>
  BY <1>1, SameT DEF T!Send, Server, T!Least, Least
<1>3. sdata \in Seq(Items) /\ Left(File)
  BY DEF TransferInv, Left
<1>4. n \in 1..Len(sdata)
  <2>1. Len(sdata) \in Nat /\ Len(sdata) # 0
    BY <1>2, <1>3, LenProperties, EmptySeq
  <2> QED BY <1>1, <2>1, FileType DEF Least
<1>5. /\ Left(File)' /\ Len(sdata') = Len(sdata) - n /\ SubSeq(sdata, 1, n) \in Seq(Items)
  BY <1>2, <1>3, <1>4, FileType, LeftShrinks
<1>6. Len(sdata') <= Len(sdata) /\ sdata' \in Seq(Items)
  BY <1>3, <1>4, <1>5, LenProperties DEF Left
<1>7. Net'
  BY <1>2, <1>5, NetServerMoves DEF Busy
<1>8. Others(c) /\ conn'[c].client = conn[c].client
  BY <1>2, <1>5, WriteEffect DEF Net, Sides, Peer
<1>9. TransferClient(c)'
  <2>1. PICK d \in 1..(Len(File) + 1), e \in 1..(Len(File) + 1) :
          OnWay(c, File, d, e) /\ cdata[c] = SubSeq(File, 1, d - 1)
    BY DEF TransferInv, TransferClient
  <2>2. \E e2 \in 1..(Len(File) + 1) : OnWay(c, File, d, e2)'
    BY <1>2, <1>3, <1>4, <2>1, FileType, WaySend
  <2>3. Causes(c) /\ (cpc[c] = "done" /\ causes[c] = {} => cdata[c] = File)
    BY DEF TransferInv, TransferClient
  <2> QED BY <1>2, <1>8, <2>1, <2>2, <2>3 DEF TransferClient, Causes
<1>10. \A d \in Clients \ {c} : TransferClient(d)' /\ Untouched(d, cdata[d])' = Untouched(d, cdata[d])
  <2>1. ASSUME NEW d \in Clients \ {c} PROVE TransferClient(d)'
    <3>1. ~OpenEnds(d)
      BY <1>2 DEF Net, Single, InUse, Served, OpenEnds
    <3> QED BY <1>2, <1>3, <1>6, <1>8, <3>1, TransferKeeps DEF TransferInv, Others
  <2> QED BY <1>2, <1>8, <2>1 DEF Untouched, InUse, Others
<1>11. \A d \in Clients \ {c} : Untouched(d, cdata[d])
  BY <1>2 DEF TransferInv, Served, Untouched, InUse
<1> QED BY <1>2, <1>5, <1>7, <1>9, <1>10, <1>11 DEF TransferInv

\* A step of one client, or of the network on its connection.
LEMMA TransferOne ==
  ASSUME TransferInv, NEW c \in Clients, UNCHANGED <<spc, sdata>>, Others(c),
         cdata' \in [Clients -> Seq(Items)],
         \A d \in Clients \ {c} : cpc'[d] = cpc[d] /\ cdata'[d] = cdata[d],
         \A d \in Clients : causes[d] = {} \/ causes'[d] # {},
         InUse(c)' => InUse(c), Untouched(c, cdata[c]) => Untouched(c, cdata[c])',
         TransferClient(c)'
  PROVE  TransferInv'
<1>1. \A d \in Clients \ {c} : TransferClient(d)'
  BY TransferKeeps DEF TransferInv, Left, Others
<1>2. \A d \in Clients \ {c} : /\ Untouched(d, cdata[d])' = Untouched(d, cdata[d])
                               /\ InUse(d)' = InUse(d)
  BY DEF Untouched, InUse, Others
<1>3. Left(File)'
  BY DEF TransferInv, Left
<1> QED BY <1>1, <1>2, <1>3 DEF TransferInv

\* The client goes on, connected or not, and nothing comes of its connection.
LEMMA TransferConnect ==
  ASSUME Net, TransferInv, NEW c \in Clients, T!Connect(c)
  PROVE  Net' /\ TransferInv'
<1>1. /\ listening /\ Client(c, "start", "open") /\ conn' = Connected(c)
      /\ UNCHANGED <<spc, sdata, cdata, causes>> /\ cpc[c] = "start"
      /\ cpc' = [cpc EXCEPT ![c] = "open"]
  BY SameT DEF T!Connect, Client, server
<1>2. Net'
  BY <1>1, NetConnect DEF Moving, Controls
<1>3. cpc'[c] = "open" /\ \A d \in Clients \ {c} : cpc'[d] = cpc[d]
  BY <1>1 DEF Net
<1>4. /\ Others(c) /\ conn'[c].client.state = "open" /\ conn'[c].client.out = <<>>
      /\ conn'[c].server.state = "queued" /\ conn'[c].server.out = <<>>
  BY <1>1, ConnectEffect DEF Net
<1>5. conn[c].client.state = "none" /\ Causes(c)'
  BY <1>1, <1>4 DEF Net, Sockets, Causes
<1>6. PICK d \in 1..(Len(File) + 1), e \in 1..(Len(File) + 1) :
        OnWay(c, File, d, e) /\ cdata[c] = SubSeq(File, 1, d - 1)
  BY DEF TransferInv, TransferClient
<1>7. OnWay(c, File, d, e)'
  BY <1>1, <1>5, <1>6, FileType, WayConnect
<1>8. TransferClient(c)'
  BY <1>1, <1>3, <1>5, <1>6, <1>7 DEF TransferClient
<1>9. ~InUse(c)' /\ (Untouched(c, cdata[c]) => Untouched(c, cdata[c])')
  BY <1>1, <1>4 DEF InUse, Untouched
<1> QED BY <1>1, <1>2, <1>3, <1>4, <1>8, <1>9, TransferOne DEF TransferInv

LEMMA TransferQuiet ==
  ASSUME Net, TransferInv, NEW c \in Clients, T!CannotStart(c) \/ T!OpenOutput(c)
  PROVE  Net' /\ TransferInv'
<1>1. /\ UNCHANGED <<spc, sdata, conn, cdata, causes>>
      /\ \/ Client(c, "start", "failed") /\ cpc' = [cpc EXCEPT ![c] = "failed"]
         \/ Client(c, "open", "recv") /\ cpc' = [cpc EXCEPT ![c] = "recv"]
  BY SameT DEF T!CannotStart, T!OpenOutput, Client, server
<1>2. Net'
  BY <1>1, NetCannotStart, NetClientMoves DEF Moving, Controls
<1>3. cpc'[c] # "done" /\ \A d \in Clients \ {c} : cpc'[d] = cpc[d]
  BY <1>1 DEF Net
<1>4. PICK d \in 1..(Len(File) + 1), e \in 1..(Len(File) + 1) :
        OnWay(c, File, d, e) /\ cdata[c] = SubSeq(File, 1, d - 1)
  BY DEF TransferInv, TransferClient
<1>5. OnWay(c, File, d, e)' /\ Causes(c)'
  BY <1>1, <1>4 DEF OnWay, OpenEnds, HalfShut, Causes, TransferInv, TransferClient
<1>6. TransferClient(c)'
  BY <1>1, <1>3, <1>4, <1>5 DEF TransferClient
<1>7. Others(c) /\ InUse(c)' = InUse(c) /\ Untouched(c, cdata[c])' = Untouched(c, cdata[c])
  BY <1>1 DEF InUse, Untouched, Others
<1> QED BY <1>1, <1>2, <1>3, <1>6, <1>7, TransferOne DEF TransferInv

LEMMA TransferRecv ==
  ASSUME Net, TransferInv, NEW c \in Clients, T!Recv(c)
  PROVE  Net' /\ TransferInv'
<1>1. /\ Client(c, "recv", "recv") /\ cpc' = [cpc EXCEPT ![c] = "recv"]
      /\ UNCHANGED <<spc, sdata, causes>>
  BY SameT DEF T!Recv, Client, server
<1>2. PICK piece \in Received(c, "client", Block) :
        /\ cdata' = [cdata EXCEPT ![c] = @ \o piece] /\ conn' = Read(c, "client", piece)
  BY SameT DEF T!Recv
<1>3. Net'
  BY <1>1, <1>2, FileType, NetClientMoves DEF Moving, Controls
<1>4. cpc'[c] = "recv" /\ \A d \in Clients \ {c} : cpc'[d] = cpc[d]
  BY <1>1 DEF Net
<1>5. /\ Others(c) /\ conn'[c].client = conn[c].client
      /\ conn'[c].server.state = conn[c].server.state
      /\ Unread(c, "client") = conn[c].server.out
      /\ \E n \in 1..Len(Unread(c, "client")) : n <= Block
  BY <1>2, FileType, ReadEffect DEF Net, Sides, Peer, Unread
<1>6. PICK d \in 1..(Len(File) + 1), e \in 1..(Len(File) + 1) :
        OnWay(c, File, d, e) /\ cdata[c] = SubSeq(File, 1, d - 1)
  BY DEF TransferInv, TransferClient
<1>7. \E f \in 1..(Len(File) + 1) : /\ OnWay(c, File, f, e)' /\ d < f /\ f <= e
                                    /\ piece = SubSeq(File, d, f - 1)
  <2>1. File \in Seq(Items) /\ Block \in Nat /\ sdata' = sdata /\ (causes[c] = {} \/ causes'[c] # {})
    BY <1>1, FileType
  <2>2. conn' = Read(c, "client", piece) /\ OnWay(c, File, d, e)
    BY <1>2, <1>6
  <2> QED BY <2>1, <2>2, WayReceive
<1>8. PICK f \in 1..(Len(File) + 1) : /\ OnWay(c, File, f, e)' /\ d < f /\ f <= e
                                      /\ piece = SubSeq(File, d, f - 1)
  BY <1>7
<1>9. PICK got : got = SubSeq(File, 1, f - 1)
  OBVIOUS
<1>10. cdata[c] \o piece = got /\ got \in Seq(Items)
  <2>1. /\ 1 \in 1..(Len(File) + 1) /\ d - 1 \in (1 - 1)..Len(File)
        /\ f - 1 \in (d - 1)..Len(File) /\ f - 1 \in (1 - 1)..Len(File) /\ (d - 1) + 1 = d
    BY <1>8, FileType
  <2>2. SubSeq(File, 1, d - 1) \o SubSeq(File, (d - 1) + 1, f - 1) = SubSeq(File, 1, f - 1)
    BY <2>1, FileType, SliceJoin
  <2>3. SubSeq(File, 1, f - 1) \in Seq(Items)
    BY <2>1, FileType, SliceType
  <2> QED BY <1>6, <1>8, <1>9, <2>1, <2>2, <2>3
<1>11. cdata' = [cdata EXCEPT ![c] = got]
  BY <1>2, <1>10 DEF TransferInv
<1>12. /\ cdata' \in [Clients -> Seq(Items)] /\ cdata'[c] = got
       /\ \A x \in Clients \ {c} : cdata'[x] = cdata[x]
  BY <1>10, <1>11 DEF TransferInv
<1>13. Causes(c)'
  BY <1>1, <1>5 DEF TransferInv, TransferClient, Causes
<1>14. TransferClient(c)'
  BY <1>4, <1>8, <1>9, <1>12, <1>13 DEF TransferClient
<1>15. InUse(c)' = InUse(c) /\ ~Untouched(c, cdata[c])
  BY <1>5 DEF InUse, Untouched
<1> QED BY <1>1, <1>3, <1>4, <1>5, <1>12, <1>14, <1>15, TransferOne

\* The client closes: it gives up, or all of the file has come or cannot come.
LEMMA TransferEnds ==
  ASSUME Net, TransferInv, NEW c \in Clients, T!CannotOpen(c) \/ T!WriteFails(c) \/ T!RecvEnds(c)
  PROVE  Net' /\ TransferInv'
<1>1. PICK to \in {"done", "failed"} :
        /\ \/ Client(c, "open", to) \/ Client(c, "recv", to)
        /\ to = "done" => AtEnd(c, "client") \/ Failed(c, "client")
        /\ Close(c, "client") /\ UNCHANGED <<cdata, causes>>
  BY SameT DEF T!CannotOpen, T!WriteFails, T!RecvEnds
<1>2. /\ UNCHANGED <<spc, sdata>> /\ cpc' = [cpc EXCEPT ![c] = to]
      /\ cpc[c] \in {"open", "recv"}
  BY <1>1 DEF Client, server
<1>3. Net'
  BY <1>1, NetClientCloses DEF Moving, Controls
<1>4. cpc'[c] = to /\ \A d \in Clients \ {c} : cpc'[d] = cpc[d]
  BY <1>2 DEF Net
<1>5. Sockets(c) /\ conn[c].client.state \in {"open", "reset"}
  BY <1>2 DEF Net, Sockets, Active, Ended
<1>6. /\ Others(c) /\ conn'[c].client.state = "closed"
      /\ Part(conn'[c].client.out, conn[c].client.out) /\ conn'[c].server.out = <<>>
      /\ \/ conn'[c].server.state = conn[c].server.state
         \/ conn[c].server.state = "open" /\ conn'[c].server.state = "reset"
  BY <1>1, <1>5, CloseClient DEF Net
<1>7. PICK d \in 1..(Len(File) + 1), e \in 1..(Len(File) + 1) :
        OnWay(c, File, d, e) /\ cdata[c] = SubSeq(File, 1, d - 1)
  BY DEF TransferInv, TransferClient
<1>8. OnWay(c, File, d, d)'
  BY <1>1, <1>2, <1>5, <1>7, FileType, WayClientCloses DEF TransferInv, Left
<1>9. Causes(c) /\ Causes(c)'
  BY <1>6, PartOfNothing DEF TransferInv, TransferClient, Causes
<1>10. ASSUME to = "done", causes[c] = {} PROVE cdata[c] = File
  <2>1. AtEnd(c, "client")
    BY <1>1, <1>9, <1>10 DEF Causes, Failed
  <2>2. conn[c].server.out = <<>> /\ HalfShut(c)
    BY <2>1 DEF AtEnd, HalfShut, Unread, Peer, CanWrite
  <2>3. e - 1 = Len(File) /\ SubSeq(File, d, e - 1) = <<>>
    BY <1>7, <1>10, <2>2 DEF OnWay
  <2>4. Len(SubSeq(File, d, Len(File))) = Len(File) - d + 1
    <3>1. d \in 1..(Len(File) + 1) /\ Len(File) \in (d - 1)..Len(File)
      BY FileType
    <3> QED BY <3>1, FileType, SliceType
  <2>5. Len(<<>>) = 0 /\ d \in Int
    OBVIOUS
  <2>6. Len(File) - d + 1 = 0
    BY <2>3, <2>4, <2>5
  <2>7. d - 1 = Len(File)
    BY <2>5, <2>6, FileType
  <2> QED BY <1>7, <2>7, FileType, SubSeqFull
<1>11. TransferClient(c)'
  BY <1>1, <1>4, <1>7, <1>8, <1>9, <1>10 DEF TransferClient
<1>12. (InUse(c)' => InUse(c)) /\ (Untouched(c, cdata[c]) => Untouched(c, cdata[c])')
  BY <1>1, <1>6 DEF InUse, Untouched
<1> QED BY <1>1, <1>2, <1>3, <1>4, <1>6, <1>11, <1>12, TransferOne DEF TransferInv

LEMMA TransferFault ==
  ASSUME Net, TransferInv, NEW c \in Clients, NetworkFails(c)
  PROVE  Net' /\ TransferInv'
<1>1. /\ UNCHANGED <<spc, sdata, cpc, cdata>> /\ Net'
      /\ \A d \in Clients : causes[d] = {} \/ causes'[d] # {}
  BY NetFault DEF NetworkFails, server, Blame
<1>2. /\ Others(c) /\ conn[c].server.state = "open"
      /\ conn'[c].server.state = "reset"
  BY NetworkEffect DEF Net
<1>3. PICK d \in 1..(Len(File) + 1), e \in 1..(Len(File) + 1) :
        OnWay(c, File, d, e) /\ cdata[c] = SubSeq(File, 1, d - 1)
  BY DEF TransferInv, TransferClient
<1>4. /\ \E f \in 1..(Len(File) + 1) : OnWay(c, File, d, f)'
      /\ Causes(c)' /\ causes'[c] # {}
  BY <1>3, FileType, WayFault DEF TransferInv, TransferClient, Left
<1>5. TransferClient(c)'
  BY <1>1, <1>3, <1>4 DEF TransferClient
<1>6. InUse(c) /\ ~Untouched(c, cdata[c])
  BY <1>2 DEF InUse, Untouched
<1> QED BY <1>1, <1>2, <1>5, <1>6, TransferOne DEF TransferInv

LEMMA TransferInit ==
  ASSUME T!Init PROVE Net /\ TransferInv
<1>1. /\ listening = FALSE /\ spc = "start" /\ sdata = File
      /\ conn = [c \in Clients |-> [client |-> None, server |-> None]]
      /\ cpc = [c \in Clients |-> "start"] /\ cdata = [c \in Clients |-> <<>>]
      /\ causes = [c \in Clients |-> {}]
  BY DEF T!Init, T!PairInit, T!None, None
<1>2. Net
  BY <1>1, NetInit
<1>3. \A c \in Clients : Untouched(c, cdata[c])
  BY <1>1 DEF Untouched, InUse, None
<1>4. Left(File)
  BY <1>1, FileType, LeftAll
<1>5. ASSUME NEW c \in Clients PROVE TransferClient(c)
  <2>1. OnWay(c, File, 1, 1)
    BY <1>1, FileType, WayInit
  <2>2. cdata[c] = SubSeq(File, 1, 1 - 1) /\ 1 \in 1..(Len(File) + 1)
    BY <1>1, FileType, SliceEmpty
  <2>3. Causes(c) /\ cpc[c] # "done"
    BY <1>1 DEF Causes, None
  <2> QED BY <2>1, <2>2, <2>3 DEF TransferClient
<1>6. cdata \in [Clients -> Seq(Items)] /\ spc # "close"
  BY <1>1, EmptySeq
<1> QED BY <1>1, <1>2, <1>3, <1>4, <1>5, <1>6 DEF TransferInv

LEMMA TransferNext ==
  ASSUME Net, TransferInv, T!ServerStep \/ \E c \in Clients : T!ClientStep(c) \/ NetworkFails(c)
  PROVE  Net' /\ TransferInv'
<1>1. CASE T!ServerStep
  BY <1>1, TransferServerMoves, TransferAccept, TransferSend DEF T!ServerStep
<1>2. ASSUME NEW c \in Clients, T!ClientStep(c) PROVE Net' /\ TransferInv'
  BY <1>2, TransferConnect, TransferQuiet, TransferRecv, TransferEnds DEF T!ClientStep
<1>3. ASSUME NEW c \in Clients, NetworkFails(c) PROVE Net' /\ TransferInv'
  BY <1>3, TransferFault
<1> QED BY <1>1, <1>2, <1>3

-----------------------------------------------------------------------------
(* The transfer with a header, of transferserver.c at the root.            *)

Whole == S!Header \o File

\* What c has in its file are elements a to b - 1 of what the server sends,
\* and those from d on are on their way; with nothing amiss they are the file's.
Piece(c, a, b, d, e) ==
  /\ OnWay(c, Whole, d, e) /\ a <= b /\ b <= d
  /\ cdata[c].file = SubSeq(Whole, a, b - 1)
  /\ cpc[c] \in {"start", "size"} => d = 1
  /\ cpc[c] \in {"open", "recv"} => b = d
  /\ cpc[c] \in {"open", "recv"} /\ causes[c] = {} =>
       a = 4 /\ cdata[c].remain = Len(Whole) + 1 - d
SizedClient(c) ==
  /\ Causes(c)
  /\ cpc[c] \in {"start", "size", "open"} => cdata[c].file = <<>>
  /\ \E a, b, d, e \in 1..(Len(Whole) + 1) : Piece(c, a, b, d, e)
  /\ cpc[c] \in {"close", "done"} /\ causes[c] = {} => cdata[c].file = File
SizedInv ==
  /\ Left(Whole) /\ cdata \in [Clients -> [file : Seq(Items), remain : Int]]
  /\ spc \in {"start", "accept"} => \A c \in Clients : Untouched(c, cdata[c].file)
  /\ spc \in {"start", "accept", "header"} => sdata = Whole
  /\ \A c, d \in Clients :
        Untouched(c, cdata[c].file) \/ Untouched(d, cdata[d].file) \/ c = d
  /\ \A c \in Clients : SizedClient(c)

LEMMA MarksAreItems ==
  /\ "digits" \in Items /\ "end" \in Items /\ "padding" \in Items
  /\ "nul" \in Items /\ "garbage" \in Items
<1>1. Marks \subseteq Items
  BY DEF Items
<1>2. /\ "digits" \in Marks /\ "end" \in Marks /\ "padding" \in Marks
      /\ "nul" \in Marks /\ "garbage" \in Marks
  BY DEF Marks
<1> QED BY <1>1, <1>2

LEMMA WholeFacts ==
  /\ Whole \in Seq(Items) /\ Len(Whole) = Len(File) + 3 /\ Len(Whole) \in Nat
  /\ SubSeq(Whole, 1, 3) = S!Header /\ SubSeq(Whole, 4, Len(Whole)) = File
  /\ S!Header \in Seq(Items) /\ Len(S!Header) = 3
<1>1. S!Header \in Seq(Items) /\ Len(S!Header) = 3
  <2>1. "digits" \in Items /\ "end" \in Items /\ "padding" \in Items
    BY MarksAreItems
  <2> QED BY <2>1 DEF S!Header
<1>2. PICK h \in Seq(Items) : h = S!Header
  BY <1>1
<1>3. Whole = h \o File /\ Len(h) = 3
  BY <1>1, <1>2 DEF Whole
<1>4. Len(File) \in Nat /\ File \in Seq(Items)
  BY FileType
<1>5. /\ h \o File \in Seq(Items) /\ Len(h \o File) = Len(h) + Len(File)
      /\ \A i \in 1..Len(h) + Len(File) :
           (h \o File)[i] = IF i <= Len(h) THEN h[i] ELSE File[i - Len(h)]
  BY <1>2, <1>4, ConcatProperties
<1>6. Whole \in Seq(Items) /\ Len(Whole) = Len(File) + 3
  BY <1>5, <1>3, <1>4
<1>7. \A i \in 1..Len(File) + 3 : Whole[i] = IF i <= 3 THEN h[i] ELSE File[i - 3]
  BY <1>5, <1>3, <1>4
<1>8. SubSeq(Whole, 1, 3) = h
  <2>1. 1 \in 1..(Len(Whole) + 1) /\ 3 \in (1 - 1)..Len(Whole) /\ 3 - 1 + 1 = 3
    BY <1>6, <1>4
  <2>2. /\ SubSeq(Whole, 1, 3) \in Seq(Items) /\ Len(SubSeq(Whole, 1, 3)) = 3
        /\ \A i \in 1..3 : SubSeq(Whole, 1, 3)[i] = Whole[1 + i - 1]
    BY <1>6, <2>1, SliceType
  <2>3. ASSUME NEW i \in 1..3 PROVE SubSeq(Whole, 1, 3)[i] = h[i]
    <3>1. 1 + i - 1 = i /\ i \in 1..Len(File) + 3 /\ i <= 3
      BY <1>4
    <3> QED BY <1>7, <2>2, <3>1
  <2> QED BY <1>2, <1>3, <2>2, <2>3, SeqEqual
<1>9. SubSeq(Whole, 4, Len(Whole)) = File
  <2>1. PICK m \in Nat : m = Len(File)
    BY <1>4
  <2>2. /\ 4 \in 1..(m + 3 + 1) /\ m + 3 \in (4 - 1)..(m + 3) /\ m + 3 - 4 + 1 = m
        /\ Len(Whole) = m + 3
    BY <1>6, <2>1
  <2>3. /\ SubSeq(Whole, 4, m + 3) \in Seq(Items) /\ Len(SubSeq(Whole, 4, m + 3)) = m
        /\ \A i \in 1..m : SubSeq(Whole, 4, m + 3)[i] = Whole[4 + i - 1]
    BY <1>6, <2>2, SliceType
  <2>4. ASSUME NEW i \in 1..m PROVE SubSeq(Whole, 4, m + 3)[i] = File[i]
    <3>1. 4 + i - 1 \in 1..m + 3 /\ ~(4 + i - 1 <= 3) /\ 4 + i - 1 - 3 = i
      OBVIOUS
    <3> QED BY <1>7, <2>1, <2>3, <3>1
  <2> QED BY <2>1, <2>2, <2>3, <2>4, FileType, SeqEqual
<1> QED BY <1>1, <1>2, <1>6, <1>4, <1>8, <1>9

\* What a step leaves of a client it does not concern.
LEMMA SizedKeeps ==
  ASSUME NEW c \in Clients, SizedClient(c), sdata \in Seq(Items), sdata' \in Seq(Items),
         conn'[c] = conn[c], cpc'[c] = cpc[c], cdata'[c] = cdata[c],
         causes[c] = {} \/ causes'[c] # {},
         sdata' = sdata \/ (Len(sdata') <= Len(sdata) /\ ~OpenEnds(c))
  PROVE  SizedClient(c)'
<1>1. PICK a, b, d, e \in 1..(Len(Whole) + 1) : Piece(c, a, b, d, e)
  BY DEF SizedClient
<1>2. Len(sdata) \in Nat /\ Len(sdata') \in Nat
  BY LenProperties
<1>3. OnWay(c, Whole, d, e)
  BY <1>1 DEF Piece
<1>4. OnWay(c, Whole, d, e)'
  BY <1>2, <1>3, WholeFacts, WayKeeps
<1>5. Piece(c, a, b, d, e)'
  BY <1>1, <1>4 DEF Piece
<1>6. Causes(c)'
  BY DEF Causes, SizedClient
<1> QED BY <1>5, <1>6 DEF SizedClient

LEMMA SizedServerCloses ==
  ASSUME Net, NEW c \in Clients, SizedClient(c), ServerCloses(c),
         sdata \in Seq(Items), sdata' = sdata, cpc'[c] = cpc[c], cdata'[c] = cdata[c],
         causes[c] = {} \/ causes'[c] # {},
         Queued(c) => causes'[c] # {}, OpenEnds(c) => sdata = <<>> \/ causes'[c] # {}
  PROVE  SizedClient(c)' /\ (Untouched(c, cdata[c].file) => Untouched(c, cdata[c].file)')
<1>1. PICK a, b, d, e \in 1..(Len(Whole) + 1) : Piece(c, a, b, d, e)
  BY DEF SizedClient
<1>2. OnWay(c, Whole, d, e) /\ Causes(c)
  BY <1>1 DEF Piece, SizedClient
<1>3. OnWay(c, Whole, d, e)' /\ Causes(c)'
  BY <1>2, WholeFacts, WayServerCloses
<1>4. Piece(c, a, b, d, e)'
  BY <1>1, <1>3 DEF Piece
<1>5. SizedClient(c)'
  BY <1>3, <1>4 DEF SizedClient
<1>6. ASSUME conn[c].server.out = <<>> PROVE conn'[c].server.out = <<>>
  BY <1>6, PartOfNothing DEF ServerCloses
<1> QED BY <1>5, <1>6 DEF Untouched, ServerCloses, InUse

LEMMA SizedCloseAll ==
  ASSUME Net, SizedInv, NEW cut, CloseAll(cut), UNCHANGED <<sdata, cpc, cdata>>, spc' = "ended",
         \A c \in Clients : OpenEnds(c) => sdata = <<>> \/ causes'[c] # {}
  PROVE  SizedInv'
<1>1. \A c \in Clients : ServerCloses(c)
  BY CloseAllEffect
<1>2. \A c \in Clients : /\ causes[c] = {} \/ causes'[c] # {}
                         /\ Queued(c) => causes'[c] # {}
  BY DEF CloseAll, Blame, Waiting
<1>3. ASSUME NEW c \in Clients
      PROVE  SizedClient(c)' /\ (Untouched(c, cdata[c].file) => Untouched(c, cdata[c].file)')
  BY <1>1, <1>2, SizedServerCloses DEF SizedInv, Left
<1>4. Left(Whole)'
  BY DEF SizedInv, Left
<1> QED BY <1>3, <1>4 DEF SizedInv

LEMMA SizedServerMoves ==
  ASSUME Net, SizedInv, S!ServerStart \/ S!ServerFails \/ S!ServerEnds
  PROVE  Net' /\ SizedInv'
<1>0. sdata \in Seq(Items) /\ \A c \in Clients : SizedClient(c) /\ Sockets(c)
  BY DEF SizedInv, Left, Net
<1>1. CASE S!ServerStart
  <2>1. /\ Server("start", "accept") /\ spc = "start" /\ spc' = "accept" /\ listening' = TRUE
        /\ UNCHANGED <<conn, sdata, causes, cpc, cdata>>
    BY <1>1, SameS DEF S!ServerStart, Server
  <2>2. Net'
    BY <2>1, NetServerStart
  <2>3. \A c \in Clients : SizedClient(c)'
    BY <1>0, <2>1, SizedKeeps
  <2>4. \A c \in Clients : Untouched(c, cdata[c].file)' = Untouched(c, cdata[c].file)
    BY <2>1 DEF Untouched, InUse
  <2>5. Left(Whole)'
    BY <2>1 DEF SizedInv, Left
  <2> QED BY <2>1, <2>2, <2>3, <2>4, <2>5 DEF SizedInv
<1>2. CASE S!ServerFails
  <2>1. /\ spc \in {"start", "accept"} /\ spc' = "ended"
        /\ CloseAll({}) /\ UNCHANGED <<sdata, cpc, cdata>>
    BY <1>2, SameS DEF S!ServerFails, Server
  <2>2. \A c \in Clients : ~OpenEnds(c)
    BY <2>1 DEF Net, Single, Idle, InUse, OpenEnds
  <2> QED BY <2>1, <2>2, SizedCloseAll, NetCloseAll
<1>3. CASE S!ServerEnds
  <2>1. PICK cut : cut = IF sdata = <<>> THEN {} ELSE Served
    OBVIOUS
  <2>2. spc' = "ended" /\ CloseAll(cut) /\ UNCHANGED <<sdata, cpc, cdata>>
    BY <1>3, <2>1, SameS DEF S!ServerEnds, Server
  <2>3. \A c \in Clients : OpenEnds(c) => sdata = <<>> \/ causes'[c] # {}
    BY <2>1, <2>2 DEF CloseAll, Blame, Served, OpenEnds
  <2> QED BY <2>2, <2>3, SizedCloseAll, NetCloseAll
<1> QED BY <1>1, <1>2, <1>3

LEMMA SizedAccept ==
  ASSUME Net, SizedInv, NEW c \in Clients, S!Accept(c)
  PROVE  Net' /\ SizedInv'
<1>1. /\ Queued(c) /\ Server("accept", "header") /\ spc = "accept" /\ spc' = "header"
      /\ conn' = Accepted(c) /\ UNCHANGED <<listening, sdata, causes, cpc, cdata>>
  BY SameS DEF S!Accept, Server
<1>2. Net'
  BY <1>1, NetAccept DEF Busy
<1>3. sdata = Whole /\ (\A d \in Clients : Untouched(d, cdata[d].file)) /\ sdata \in Seq(Items)
  BY <1>1 DEF SizedInv, Left
<1>4. Others(c) /\ conn'[c].client = conn[c].client
  BY <1>1, AcceptEffect DEF Net
<1>5. SizedClient(c)'
  <2>1. PICK a, b, d, e \in 1..(Len(Whole) + 1) : Piece(c, a, b, d, e)
    BY DEF SizedInv, SizedClient
  <2>2. OnWay(c, Whole, d, e)
    BY <2>1 DEF Piece
  <2>3. OnWay(c, Whole, d, e)'
    BY <1>1, <1>3, <2>2, WholeFacts, WayAccept
  <2>4. Piece(c, a, b, d, e)'
    BY <1>1, <2>1, <2>3 DEF Piece
  <2>5. Causes(c)'
    BY <1>1, <1>4 DEF SizedInv, SizedClient, Causes
  <2> QED BY <1>1, <2>4, <2>5 DEF SizedClient, SizedInv
<1>6. \A d \in Clients \ {c} : SizedClient(d)' /\ Untouched(d, cdata[d].file)'
  <2>1. ASSUME NEW d \in Clients \ {c} PROVE SizedClient(d)'
    BY <1>1, <1>3, <1>4, SizedKeeps DEF SizedInv, Others
  <2> QED BY <1>1, <1>3, <1>4, <2>1 DEF Untouched, InUse, Others
<1>7. Left(Whole)'
  BY <1>1 DEF SizedInv, Left
<1> QED BY <1>1, <1>2, <1>3, <1>5, <1>6, <1>7 DEF SizedInv

\* The header, then the blocks of the file.
LEMMA SizedSend ==
  ASSUME Net, SizedInv, NEW c \in Clients, S!SendHeader(c) \/ S!SendFile(c)
  PROVE  Net' /\ SizedInv'
<1>0. sdata \in Seq(Items) /\ Left(Whole) /\ Len(sdata) \in Nat
  BY LenProperties DEF SizedInv, Left
<1>1. PICK n \in 1..Len(sdata) :
      /\ c \in Served /\ (Server("header", "data") \/ Server("data", "data"))
      /\ CanWrite(c, "server") /\ conn' = Written(c, "server", SubSeq(sdata, 1, n))
      /\ sdata' = SubSeq(sdata, n + 1, Len(sdata))
      /\ UNCHANGED <<listening, causes>>
  <2>1. CASE S!SendHeader(c)
    <3>1. /\ c \in Served /\ Server("header", "data") /\ CanWrite(c, "server")
          /\ conn' = Written(c, "server", S!Header) /\ sdata' = File
          /\ UNCHANGED <<listening, causes>>
      BY <2>1, SameS DEF S!SendHeader
    <3>2. sdata = Whole
      BY <3>1 DEF SizedInv, Server
    <3>3. 3 \in 1..Len(sdata) /\ SubSeq(sdata, 1, 3) = S!Header
          /\ SubSeq(sdata, 3 + 1, Len(sdata)) = File
      BY <3>2, WholeFacts, FileType
    <3> QED BY <3>1, <3>3
  <2>2. CASE S!SendFile(c)
    <3>1. PICK n : n = Least(Block, Len(sdata))
      OBVIOUS
    <3>2. /\ c \in Served /\ Server("data", "data") /\ CanWrite(c, "server") /\ sdata # <<>>
          /\ conn' = Written(c, "server", SubSeq(sdata, 1, n))
          /\ sdata' = SubSeq(sdata, n + 1, Len(sdata)) /\ UNCHANGED <<listening, causes>>
      BY <2>2, <3>1, SameS DEF S!SendFile, S!Least, Least
    <3>3. n \in 1..Len(sdata)
      <4>1. Len(sdata) # 0
        BY <1>0, <3>2, EmptySeq
      <4> QED BY <1>0, <3>1, <4>1, FileType DEF Least
    <3> QED BY <3>2, <3>3
  <2> QED BY <2>1, <2>2
<1>2. n \in 0..Len(sdata) /\ UNCHANGED <<cpc, cdata>> /\ spc' = "data"
  BY <1>0, <1>1 DEF Server
<1>3. /\ Left(Whole)' /\ Len(sdata') = Len(sdata) - n /\ SubSeq(sdata, 1, n) \in Seq(Items)
  BY <1>0, <1>1, <1>2, WholeFacts, LeftShrinks
<1>4. Len(sdata') <= Len(sdata) /\ sdata' \in Seq(Items)
  BY <1>0, <1>2, <1>3 DEF Left
<1>5. Net'
  BY <1>1, <1>3, NetServerMoves DEF Busy
<1>6. Others(c) /\ conn'[c].client = conn[c].client
  BY <1>1, <1>3, WriteEffect DEF Net, Sides, Peer
<1>7. SizedClient(c)'
  <2>1. PICK a, b, d, e \in 1..(Len(Whole) + 1) : Piece(c, a, b, d, e)
    BY DEF SizedInv, SizedClient
  <2>2. OnWay(c, Whole, d, e)
    BY <2>1 DEF Piece
  <2>3. \E e2 \in 1..(Len(Whole) + 1) : OnWay(c, Whole, d, e2)'
    BY <1>0, <1>1, <2>2, WholeFacts, WaySend
  <2>4. PICK e2 \in 1..(Len(Whole) + 1) : OnWay(c, Whole, d, e2)'
    BY <2>3
  <2>5. Piece(c, a, b, d, e2)'
    BY <1>1, <1>2, <2>1, <2>4 DEF Piece
  <2>6. Causes(c)'
    BY <1>1, <1>6 DEF SizedInv, SizedClient, Causes
  <2> QED BY <1>1, <1>2, <2>5, <2>6 DEF SizedClient, SizedInv
<1>8. \A d \in Clients \ {c} :
        SizedClient(d)' /\ Untouched(d, cdata[d].file)' = Untouched(d, cdata[d].file)
  <2>1. ASSUME NEW d \in Clients \ {c} PROVE SizedClient(d)'
    <3>1. ~OpenEnds(d)
      BY <1>1 DEF Net, Single, InUse, Served, OpenEnds
    <3> QED BY <1>0, <1>1, <1>2, <1>4, <1>6, <3>1, SizedKeeps DEF SizedInv, Others
  <2> QED BY <1>2, <1>6, <2>1 DEF Untouched, InUse, Others
<1>9. \A d \in Clients \ {c} : Untouched(d, cdata[d].file)
  BY <1>1 DEF SizedInv, Served, Untouched, InUse
<1> QED BY <1>2, <1>3, <1>5, <1>7, <1>8, <1>9 DEF SizedInv

LEMMA SizedOne ==
  ASSUME SizedInv, NEW c \in Clients, UNCHANGED <<spc, sdata>>, Others(c),
         cdata' \in [Clients -> [file : Seq(Items), remain : Int]],
         \A d \in Clients \ {c} : cpc'[d] = cpc[d] /\ cdata'[d] = cdata[d],
         \A d \in Clients : causes[d] = {} \/ causes'[d] # {},
         Untouched(c, cdata[c].file) => Untouched(c, cdata[c].file)',
         SizedClient(c)'
  PROVE  SizedInv'
<1>1. \A d \in Clients \ {c} : SizedClient(d)'
  BY SizedKeeps DEF SizedInv, Left, Others
<1>2. \A d \in Clients \ {c} : Untouched(d, cdata[d].file)' = Untouched(d, cdata[d].file)
  BY DEF Untouched, InUse, Others
<1>3. Left(Whole)'
  BY DEF SizedInv, Left
<1> QED BY <1>1, <1>2, <1>3 DEF SizedInv

LEMMA SizedConnect ==
  ASSUME Net, SizedInv, NEW c \in Clients, S!Connect(c)
  PROVE  Net' /\ SizedInv'
<1>1. /\ listening /\ Client(c, "start", "size") /\ conn' = Connected(c)
      /\ UNCHANGED <<spc, sdata, cdata, causes>> /\ cpc[c] = "start"
      /\ cpc' = [cpc EXCEPT ![c] = "size"]
  BY SameS DEF S!Connect, Client, server
<1>2. Net'
  BY <1>1, NetConnect DEF Moving, Controls
<1>3. cpc'[c] = "size" /\ \A d \in Clients \ {c} : cpc'[d] = cpc[d]
  BY <1>1 DEF Net
<1>4. /\ Others(c) /\ conn'[c].client.state = "open" /\ conn'[c].client.out = <<>>
      /\ conn'[c].server.state = "queued" /\ conn'[c].server.out = <<>>
  BY <1>1, ConnectEffect DEF Net
<1>5. conn[c].client.state = "none" /\ Causes(c)'
  BY <1>1, <1>4 DEF Net, Sockets, Causes
<1>6. PICK a, b, d, e \in 1..(Len(Whole) + 1) : Piece(c, a, b, d, e)
  BY DEF SizedInv, SizedClient
<1>7. OnWay(c, Whole, d, e)
  BY <1>6 DEF Piece
<1>8. OnWay(c, Whole, d, e)'
  BY <1>1, <1>5, <1>7, WholeFacts, WayConnect
<1>9. Piece(c, a, b, d, e)'
  BY <1>1, <1>3, <1>6, <1>8 DEF Piece
<1>10. SizedClient(c)'
  BY <1>1, <1>3, <1>5, <1>9 DEF SizedClient, SizedInv
<1>11. Untouched(c, cdata[c].file) => Untouched(c, cdata[c].file)'
  BY <1>1, <1>4 DEF InUse, Untouched
<1> QED BY <1>1, <1>2, <1>3, <1>4, <1>10, <1>11, SizedOne DEF SizedInv

\* The end of the stream comes with the end of the file, or for a cause.
LEMMA SizedComplete ==
  ASSUME Net, SizedInv, NEW c \in Clients, cpc[c] = "recv",
         AtEnd(c, "client") \/ Failed(c, "client"), causes[c] = {}
  PROVE  cdata[c].file = File
<1>1. PICK a, b, d, e \in 1..(Len(Whole) + 1) : Piece(c, a, b, d, e)
  BY DEF SizedInv, SizedClient
<1>2. /\ OnWay(c, Whole, d, e) /\ b = d /\ a = 4
      /\ cdata[c].file = SubSeq(Whole, a, b - 1)
  BY <1>1 DEF Piece
<1>3. AtEnd(c, "client")
  BY DEF SizedInv, SizedClient, Causes, Failed
<1>4. conn[c].server.out = <<>> /\ HalfShut(c)
  BY <1>3 DEF AtEnd, HalfShut, Unread, Peer, CanWrite
<1>5. e - 1 = Len(Whole) /\ SubSeq(Whole, d, e - 1) = <<>>
  BY <1>2, <1>4 DEF OnWay
<1>6. Len(SubSeq(Whole, d, Len(Whole))) = Len(Whole) - d + 1
  <2>1. d \in 1..(Len(Whole) + 1) /\ Len(Whole) \in (d - 1)..Len(Whole)
    BY WholeFacts
  <2> QED BY <2>1, WholeFacts, SliceType
<1>7. Len(<<>>) = 0 /\ d \in Int
  OBVIOUS
<1>8. Len(Whole) - d + 1 = 0
  BY <1>5, <1>6, <1>7
<1>9. d - 1 = Len(Whole)
  BY <1>7, <1>8, WholeFacts
<1> QED BY <1>2, <1>9, WholeFacts

LEMMA SizedQuiet ==
  ASSUME Net, SizedInv, NEW c \in Clients, S!CannotStart(c) \/ S!OpenOutput(c) \/ S!RecvEnds(c)
  PROVE  Net' /\ SizedInv'
<1>1. PICK from, to :
        /\ Client(c, from, to)
        /\ \/ from = "start" /\ to = "failed"
           \/ from = "open" /\ to = "recv"
           \/ from = "recv" /\ to = "close" /\ (AtEnd(c, "client") \/ Failed(c, "client"))
        /\ UNCHANGED <<conn, cdata, causes>>
  BY SameS DEF S!CannotStart, S!OpenOutput, S!RecvEnds
<1>2. UNCHANGED <<spc, sdata>> /\ cpc[c] = from /\ cpc' = [cpc EXCEPT ![c] = to]
  BY <1>1 DEF Client, server
<1>3. Net'
  <2>1. CASE from = "start"
    BY <1>1, <2>1, NetCannotStart
  <2>2. CASE from # "start"
    <3>1. from \in Moving /\ to \in Moving
      BY <1>1, <2>2 DEF Moving, Controls
    <3> QED BY <1>1, <3>1, NetClientMoves
  <2> QED BY <2>1, <2>2
<1>4. cpc'[c] = to /\ \A d \in Clients \ {c} : cpc'[d] = cpc[d]
  BY <1>2 DEF Net
<1>5. PICK a, b, d, e \in 1..(Len(Whole) + 1) : Piece(c, a, b, d, e)
  BY DEF SizedInv, SizedClient
<1>6. Piece(c, a, b, d, e)' /\ Causes(c)'
  <2>1. OnWay(c, Whole, d, e)'
    BY <1>1, <1>2, <1>5 DEF Piece, OnWay, OpenEnds, HalfShut
  <2> QED BY <1>1, <1>2, <1>4, <1>5, <2>1 DEF Piece, Causes, SizedInv, SizedClient
<1>7. to = "close" /\ causes[c] = {} => cdata[c].file = File
  BY <1>1, <1>2, SizedComplete
<1>8. SizedClient(c)'
  BY <1>1, <1>2, <1>4, <1>5, <1>6, <1>7 DEF SizedClient, SizedInv
<1>9. Others(c) /\ Untouched(c, cdata[c].file)' = Untouched(c, cdata[c].file)
  BY <1>1 DEF InUse, Untouched, Others
<1> QED BY <1>1, <1>2, <1>3, <1>4, <1>8, <1>9, SizedOne DEF SizedInv

\* The first recv: the header is all it brings, or the transfer has a cause to fail.
LEMMA SizedRecvSize ==
  ASSUME Net, SizedInv, NEW c \in Clients, S!RecvSize(c)
  PROVE  Net' /\ SizedInv'
<1>1. /\ Client(c, "size", "open") /\ cpc[c] = "size" /\ cpc' = [cpc EXCEPT ![c] = "open"]
      /\ UNCHANGED <<spc, sdata>>
  BY SameS DEF S!RecvSize, Client, server
<1>2. cpc'[c] = "open" /\ \A d \in Clients \ {c} : cpc'[d] = cpc[d]
  BY <1>1 DEF Net
<1>3. PICK a, b, d, e \in 1..(Len(Whole) + 1) : Piece(c, a, b, d, e)
  BY DEF SizedInv, SizedClient
<1>4. OnWay(c, Whole, d, e) /\ d = 1 /\ cdata[c].file = <<>> /\ Causes(c)
  BY <1>1, <1>3 DEF Piece, SizedInv, SizedClient
<1>5. PICK size \in Int :
        /\ cdata' = [cdata EXCEPT ![c].remain = size]
        /\ \/ \E piece \in Received(c, "client", Len(S!Header) + Block) :
                /\ conn' = Read(c, "client", piece)
                /\ Len(piece) > 1 => size = Len(File)
                /\ IF piece = S!Header THEN UNCHANGED causes
                   ELSE \E why : Blame({c}, why)
           \/ conn' = conn /\ \E why : Blame({c}, why)
  <2>1. (0..Len(S!Header \o File)) \subseteq Int /\ Len(File) \in Int
    BY FileType
  <2>2. CASE \E piece \in Received(c, "client", Len(S!Header) + Block) :
          /\ conn' = Read(c, "client", piece)
          /\ \E size \in IF Len(piece) > 1 THEN {Len(File)} ELSE 0..Len(S!Header \o File) :
               cdata' = [cdata EXCEPT ![c].remain = size]
          /\ IF piece = S!Header THEN UNCHANGED causes ELSE \E why : Blame({c}, why)
    BY <2>1, <2>2
  <2>3. CASE /\ \E size \in 0..Len(S!Header \o File) : cdata' = [cdata EXCEPT ![c].remain = size]
             /\ \E why : Blame({c}, why) /\ UNCHANGED conn
    BY <2>1, <2>3
  <2> QED BY <2>2, <2>3, SameS DEF S!RecvSize
<1>6. /\ cdata' \in [Clients -> [file : Seq(Items), remain : Int]]
      /\ cdata'[c].file = <<>> /\ cdata'[c].remain = size
      /\ \A x \in Clients \ {c} : cdata'[x] = cdata[x]
  BY <1>4, <1>5 DEF SizedInv
<1>7. \A x \in Clients : causes[x] = {} \/ causes'[x] # {}
  BY <1>5 DEF Blame
<1>8. CASE conn' = conn /\ \E why : Blame({c}, why)
  <2>1. causes'[c] # {}
    BY <1>8 DEF Blame
  <2>2. Net'
    BY <1>1, <1>8, NetClientMoves DEF Moving, Controls
  <2>3. OnWay(c, Whole, d, e)' /\ Causes(c)'
    BY <1>1, <1>4, <1>7, <1>8 DEF OnWay, OpenEnds, HalfShut, Causes
  <2>4. SubSeq(Whole, d, d - 1) = <<>>
    BY SliceEmpty
  <2>5. Piece(c, d, d, d, e)'
    BY <1>2, <1>6, <2>1, <2>3, <2>4 DEF Piece
  <2>6. SizedClient(c)'
    BY <1>2, <1>6, <2>3, <2>5 DEF SizedClient
  <2>7. Others(c) /\ (Untouched(c, cdata[c].file) => Untouched(c, cdata[c].file)')
    BY <1>6, <1>8 DEF Others, Untouched, InUse
  <2> QED BY <1>1, <1>2, <1>6, <1>7, <2>2, <2>6, <2>7, SizedOne
<1>9. CASE \E piece \in Received(c, "client", Len(S!Header) + Block) :
                /\ conn' = Read(c, "client", piece)
                /\ Len(piece) > 1 => size = Len(File)
                /\ IF piece = S!Header THEN UNCHANGED causes
                   ELSE \E why : Blame({c}, why)
  <2>1. PICK most \in Nat : most = Len(S!Header) + Block
    BY WholeFacts, FileType
  <2>2. PICK piece \in Received(c, "client", most) :
                /\ conn' = Read(c, "client", piece)
                /\ Len(piece) > 1 => size = Len(File)
                /\ IF piece = S!Header THEN UNCHANGED causes
                   ELSE \E why : Blame({c}, why)
    BY <1>9, <2>1
  <2>3. Net'
    BY <1>1, <2>2, NetClientMoves DEF Moving, Controls
  <2>4. /\ Others(c) /\ conn'[c].client = conn[c].client
        /\ conn'[c].server.state = conn[c].server.state
        /\ Unread(c, "client") = conn[c].server.out
        /\ \E n \in 1..Len(Unread(c, "client")) : n <= most
    BY <2>2, ReadEffect DEF Net, Sides, Peer, Unread
  <2>5. \E f \in 1..(Len(Whole) + 1) : /\ OnWay(c, Whole, f, e)' /\ d < f /\ f <= e
                                       /\ piece = SubSeq(Whole, d, f - 1)
    <3>1. Whole \in Seq(Items) /\ sdata' = sdata /\ (causes[c] = {} \/ causes'[c] # {})
      BY <1>1, <1>7, WholeFacts
    <3>2. conn' = Read(c, "client", piece) /\ OnWay(c, Whole, d, e)
      BY <1>4, <2>2
    <3> QED BY <3>1, <3>2, WayReceive
  <2>6. PICK f \in 1..(Len(Whole) + 1) : /\ OnWay(c, Whole, f, e)' /\ d < f /\ f <= e
                                         /\ piece = SubSeq(Whole, d, f - 1)
    BY <2>5
  <2>7. Causes(c)'
    BY <1>4, <1>7, <2>4 DEF Causes
  <2>8. SubSeq(Whole, f, f - 1) = <<>>
    BY SliceEmpty
  <2>9. ASSUME causes'[c] = {} PROVE f = 4 /\ size = Len(Whole) + 1 - f
    <3>1. piece = S!Header
      BY <2>2, <2>9 DEF Blame
    <3>2. f - 1 \in (1 - 1)..Len(Whole) /\ 1 \in 1..(Len(Whole) + 1) /\ f - 1 - 1 + 1 = f - 1
      BY WholeFacts
    <3>3. Len(piece) = f - 1
      BY <1>4, <2>6, <3>2, WholeFacts, SliceType
    <3>4. Len(piece) = 3
      BY <3>1, WholeFacts
    <3>5. size = Len(File)
      BY <2>2, <3>4
    <3>6. f - 1 = 3
      BY <3>3, <3>4
    <3> QED BY <3>5, <3>6, WholeFacts, FileType
  <2>10. Piece(c, f, f, f, e)'
    BY <1>2, <1>6, <2>6, <2>8, <2>9 DEF Piece
  <2>11. SizedClient(c)'
    BY <1>2, <1>6, <2>7, <2>10 DEF SizedClient
  <2>12. ~Untouched(c, cdata[c].file)
    BY <2>4 DEF Untouched
  <2> QED BY <1>1, <1>2, <1>6, <1>7, <2>3, <2>4, <2>11, <2>12, SizedOne
<1> QED BY <1>5, <1>8, <1>9

LEMMA SizedRecv ==
  ASSUME Net, SizedInv, NEW c \in Clients, S!Recv(c)
  PROVE  Net' /\ SizedInv'
<1>1. PICK to \in {"recv", "close"}, piece \in Received(c, "client", Block) :
        /\ Client(c, "recv", to) /\ conn' = Read(c, "client", piece) /\ UNCHANGED causes
        /\ IF cdata[c].remain > 0
           THEN /\ to = "recv"
                /\ cdata' = [cdata EXCEPT ![c] = [file   |-> @.file \o piece,
                                                  remain |-> @.remain - Len(piece)]]
           ELSE to = "close" /\ UNCHANGED cdata
  BY SameS DEF S!Recv
<1>2. UNCHANGED <<spc, sdata>> /\ cpc[c] = "recv" /\ cpc' = [cpc EXCEPT ![c] = to]
  BY <1>1 DEF Client, server
<1>3. cpc'[c] = to /\ \A d \in Clients \ {c} : cpc'[d] = cpc[d]
  BY <1>2 DEF Net
<1>4. Net'
  BY <1>1, FileType, NetClientMoves DEF Moving, Controls
<1>5. /\ Others(c) /\ conn'[c].client = conn[c].client
      /\ conn'[c].server.state = conn[c].server.state
      /\ Unread(c, "client") = conn[c].server.out
      /\ \E n \in 1..Len(Unread(c, "client")) : n <= Block
  BY <1>1, FileType, ReadEffect DEF Net, Sides, Peer, Unread
<1>6. PICK a, b, d, e \in 1..(Len(Whole) + 1) : Piece(c, a, b, d, e)
  BY DEF SizedInv, SizedClient
<1>7. /\ OnWay(c, Whole, d, e) /\ a <= b /\ b = d /\ cdata[c].file = SubSeq(Whole, a, d - 1)
      /\ causes[c] = {} => a = 4 /\ cdata[c].remain = Len(Whole) + 1 - d
  BY <1>2, <1>6 DEF Piece
<1>8. \E f \in 1..(Len(Whole) + 1) : /\ OnWay(c, Whole, f, e)' /\ d < f /\ f <= e
                                     /\ piece = SubSeq(Whole, d, f - 1)
  <2>1. /\ Whole \in Seq(Items) /\ Block \in Nat /\ sdata' = sdata
        /\ causes[c] = {} \/ causes'[c] # {}
    BY <1>1, <1>2, WholeFacts, FileType
  <2>2. conn' = Read(c, "client", piece)
    BY <1>1
  <2> QED BY <1>7, <2>1, <2>2, WayReceive
<1>9. PICK f \in 1..(Len(Whole) + 1) : /\ OnWay(c, Whole, f, e)' /\ d < f /\ f <= e
                                       /\ piece = SubSeq(Whole, d, f - 1)
  BY <1>8
<1>10. PICK m \in Nat : m = Len(Whole)
  BY WholeFacts
<1>11. /\ d - 1 \in (a - 1)..m /\ f - 1 \in (d - 1)..m /\ f - 1 \in (a - 1)..m
       /\ (d - 1) + 1 = d /\ d < m + 1 /\ a <= f
  BY <1>7, <1>9, <1>10
<1>12. Causes(c)' /\ ~Untouched(c, cdata[c].file)
  <2>1. Causes(c)'
    BY <1>1, <1>5 DEF SizedInv, SizedClient, Causes
  <2>2. conn[c].server.out # <<>>
    BY <1>5
  <2> QED BY <2>1, <2>2 DEF Untouched
<1>13. CASE cdata[c].remain > 0
  <2>1. PICK got : got = SubSeq(Whole, a, f - 1)
    OBVIOUS
  <2>2. SubSeq(Whole, a, d - 1) \o SubSeq(Whole, (d - 1) + 1, f - 1) = SubSeq(Whole, a, f - 1)
    BY <1>10, <1>11, WholeFacts, SliceJoin
  <2>3. cdata[c].file \o piece = got
    BY <1>7, <1>9, <1>11, <2>1, <2>2
  <2>4. got \in Seq(Items)
    BY <1>10, <1>11, <2>1, WholeFacts, SliceType
  <2>5. Len(piece) = f - d
    <3>1. Len(SubSeq(Whole, d, f - 1)) = f - 1 - d + 1
      BY <1>10, <1>11, WholeFacts, SliceType
    <3>2. f - 1 - d + 1 = f - d
      OBVIOUS
    <3> QED BY <1>9, <3>1, <3>2
  <2>6. PICK left \in Int : left = cdata[c].remain - (f - d)
    BY DEF SizedInv
  <2>7. to = "recv" /\ cdata' = [cdata EXCEPT ![c] = [file |-> got, remain |-> left]]
    BY <1>1, <1>13, <2>3, <2>5, <2>6 DEF SizedInv
  <2>8. /\ cdata' \in [Clients -> [file : Seq(Items), remain : Int]]
        /\ cdata'[c].file = got /\ cdata'[c].remain = left
        /\ \A x \in Clients \ {c} : cdata'[x] = cdata[x]
    BY <2>4, <2>7 DEF SizedInv
  <2>9. causes[c] = {} => a = 4 /\ left = Len(Whole) + 1 - f
    BY <1>7, <1>10, <2>6
  <2>10. Piece(c, a, f, f, e)'
    <3>1. a <= f /\ f <= f /\ OnWay(c, Whole, f, e)' /\ cdata'[c].file = SubSeq(Whole, a, f - 1)
      BY <1>9, <1>11, <2>1, <2>8
    <3>2. causes'[c] = {} => a = 4 /\ cdata'[c].remain = Len(Whole) + 1 - f
      BY <1>1, <2>8, <2>9
    <3> QED BY <1>3, <2>7, <3>1, <3>2 DEF Piece
  <2>11. SizedClient(c)'
    BY <1>3, <1>12, <2>7, <2>10 DEF SizedClient
  <2> QED BY <1>1, <1>2, <1>3, <1>4, <1>5, <1>12, <2>8, <2>11, SizedOne
<1>14. CASE ~(cdata[c].remain > 0)
  <2>1. to = "close" /\ cdata' = cdata
    BY <1>1, <1>14
  <2>2. causes[c] # {}
    <3>1. ASSUME causes[c] = {} PROVE FALSE
      <4>1. cdata[c].remain = m + 1 - d
        BY <1>7, <1>10, <3>1
      <4>2. m + 1 - d > 0
        BY <1>11
      <4> QED BY <1>14, <4>1, <4>2
    <3> QED BY <3>1
  <2>3. Piece(c, a, d, f, e)'
    BY <1>1, <1>3, <1>7, <1>9, <2>1, <2>2 DEF Piece
  <2>4. SizedClient(c)'
    BY <1>1, <1>3, <1>12, <2>1, <2>2, <2>3 DEF SizedClient
  <2>5. cdata' \in [Clients -> [file : Seq(Items), remain : Int]]
    BY <2>1 DEF SizedInv
  <2> QED BY <1>1, <1>2, <1>3, <1>4, <1>5, <1>12, <2>1, <2>4, <2>5, SizedOne
<1> QED BY <1>13, <1>14

LEMMA SizedEnds ==
  ASSUME Net, SizedInv, NEW c \in Clients, S!CannotOpen(c) \/ S!CloseClient(c)
  PROVE  Net' /\ SizedInv'
<1>1. PICK from, to :
        /\ Client(c, from, to)
        /\ (from = "open" /\ to = "failed") \/ (from = "close" /\ to = "done")
        /\ Close(c, "client") /\ UNCHANGED <<cdata, causes>>
  BY SameS DEF S!CannotOpen, S!CloseClient
<1>2. UNCHANGED <<spc, sdata>> /\ cpc[c] = from /\ cpc' = [cpc EXCEPT ![c] = to]
  BY <1>1 DEF Client, server
<1>3. Net'
  <2>1. from \in Moving /\ to \in {"done", "failed"}
    BY <1>1 DEF Moving, Controls
  <2> QED BY <1>1, <2>1, NetClientCloses
<1>4. cpc'[c] = to /\ \A d \in Clients \ {c} : cpc'[d] = cpc[d]
  BY <1>2 DEF Net
<1>5. Sockets(c) /\ conn[c].client.state \in {"open", "reset"}
  BY <1>1, <1>2 DEF Net, Sockets, Active, Ended
<1>6. /\ Others(c) /\ conn'[c].client.state = "closed"
      /\ Part(conn'[c].client.out, conn[c].client.out) /\ conn'[c].server.out = <<>>
      /\ \/ conn'[c].server.state = conn[c].server.state
         \/ conn[c].server.state = "open" /\ conn'[c].server.state = "reset"
  BY <1>1, <1>5, CloseClient DEF Net
<1>7. PICK a, b, d, e \in 1..(Len(Whole) + 1) : Piece(c, a, b, d, e)
  BY DEF SizedInv, SizedClient
<1>8. OnWay(c, Whole, d, e) /\ sdata \in Seq(Items)
  BY <1>7 DEF Piece, SizedInv, Left
<1>9. OnWay(c, Whole, d, d)'
  BY <1>1, <1>2, <1>5, <1>8, WholeFacts, WayClientCloses
<1>10. Piece(c, a, b, d, d)'
  BY <1>1, <1>4, <1>7, <1>9 DEF Piece
<1>11. Causes(c)'
  BY <1>6, PartOfNothing DEF SizedInv, SizedClient, Causes
<1>12. SizedClient(c)'
  BY <1>1, <1>2, <1>4, <1>10, <1>11 DEF SizedClient, SizedInv
<1>13. Untouched(c, cdata[c].file) => Untouched(c, cdata[c].file)'
  BY <1>1, <1>6 DEF InUse, Untouched
<1> QED BY <1>1, <1>2, <1>3, <1>4, <1>6, <1>12, <1>13, SizedOne DEF SizedInv

LEMMA SizedFault ==
  ASSUME Net, SizedInv, NEW c \in Clients, NetworkFails(c)
  PROVE  Net' /\ SizedInv'
<1>1. /\ UNCHANGED <<spc, sdata, cpc, cdata>> /\ Net'
      /\ \A d \in Clients : causes[d] = {} \/ causes'[d] # {}
  BY NetFault DEF NetworkFails, server, Blame
<1>2. Others(c) /\ conn[c].server.state = "open"
  BY NetworkEffect DEF Net
<1>3. PICK a, b, d, e \in 1..(Len(Whole) + 1) : Piece(c, a, b, d, e)
  BY DEF SizedInv, SizedClient
<1>4. OnWay(c, Whole, d, e) /\ Causes(c) /\ sdata \in Seq(Items)
  BY <1>3 DEF Piece, SizedInv, SizedClient, Left
<1>5. /\ \E f \in 1..(Len(Whole) + 1) : OnWay(c, Whole, d, f)'
      /\ Causes(c)' /\ causes'[c] # {}
  BY <1>4, WholeFacts, WayFault
<1>6. PICK f \in 1..(Len(Whole) + 1) : OnWay(c, Whole, d, f)'
  BY <1>5
<1>7. Piece(c, a, b, d, f)'
  BY <1>1, <1>3, <1>5, <1>6 DEF Piece
<1>8. SizedClient(c)'
  BY <1>1, <1>5, <1>7 DEF SizedClient, SizedInv
<1>9. ~Untouched(c, cdata[c].file)
  BY <1>2 DEF InUse, Untouched
<1> QED BY <1>1, <1>2, <1>8, <1>9, SizedOne DEF SizedInv

LEMMA SizedInit ==
  ASSUME S!Init PROVE Net /\ SizedInv
<1>1. /\ listening = FALSE /\ spc = "start" /\ sdata = Whole
      /\ conn = [c \in Clients |-> [client |-> None, server |-> None]]
      /\ cpc = [c \in Clients |-> "start"]
      /\ cdata = [c \in Clients |-> [file |-> <<>>, remain |-> 0]]
      /\ causes = [c \in Clients |-> {}]
  BY DEF S!Init, S!PairInit, S!None, None, Whole
<1>2. Net
  BY <1>1, NetInit
<1>3. \A c \in Clients : Untouched(c, cdata[c].file)
  BY <1>1 DEF Untouched, InUse, None
<1>4. Left(Whole)
  BY <1>1, WholeFacts, LeftAll
<1>5. ASSUME NEW c \in Clients PROVE SizedClient(c)
  <2>1. OnWay(c, Whole, 1, 1)
    BY <1>1, WholeFacts, WayInit
  <2>2. cdata[c].file = SubSeq(Whole, 1, 1 - 1) /\ 1 \in 1..(Len(Whole) + 1)
    <3>1. cdata[c].file = <<>> /\ SubSeq(Whole, 1, 1 - 1) = <<>>
      BY <1>1, SliceEmpty
    <3> QED BY <3>1, WholeFacts
  <2>3. Piece(c, 1, 1, 1, 1)
    BY <1>1, <2>1, <2>2 DEF Piece
  <2>4. Causes(c) /\ cpc[c] = "start" /\ cdata[c].file = <<>>
    BY <1>1 DEF Causes, None
  <2> QED BY <2>2, <2>3, <2>4 DEF SizedClient
<1>6. cdata \in [Clients -> [file : Seq(Items), remain : Int]]
  BY <1>1, EmptySeq
<1> QED BY <1>1, <1>2, <1>3, <1>4, <1>5, <1>6 DEF SizedInv

LEMMA SizedNext ==
  ASSUME Net, SizedInv, S!ServerStep \/ \E c \in Clients : S!ClientStep(c) \/ NetworkFails(c)
  PROVE  Net' /\ SizedInv'
<1>1. CASE S!ServerStep
  BY <1>1, SizedServerMoves, SizedAccept, SizedSend DEF S!ServerStep
<1>2. ASSUME NEW c \in Clients, S!ClientStep(c) PROVE Net' /\ SizedInv'
  BY <1>2, SizedConnect, SizedQuiet, SizedRecvSize, SizedRecv, SizedEnds DEF S!ClientStep
<1>3. ASSUME NEW c \in Clients, NetworkFails(c) PROVE Net' /\ SizedInv'
  BY <1>3, SizedFault
<1> QED BY <1>1, <1>2, <1>3

-----------------------------------------------------------------------------
(* Strings in buffers.                                                     *)

Buffers == [1..Size -> Items]
\* t is a string that fits a buffer with its NUL.
Fits(t) == t \in Seq(Items) /\ "nul" \notin Range(t) /\ Len(t) + 1 <= Size

LEMMA TextFits ==
  /\ Size \in Nat /\ Fits(MESSAGE) /\ \A c \in Clients : Fits(Text[c])
<1>1. ASSUME NEW m, Message(m), Range(m) \subseteq Items PROVE Fits(m)
  <2>1. m \in Seq(Range(m)) /\ "nul" \notin Range(m) /\ Len(m) < Size /\ Size \in Nat
    BY <1>1, PairsAssumption DEF Message
  <2>2. m \in Seq(Items)
    BY <1>1, <2>1, SeqMonotonic
  <2>3. Len(m) \in Nat
    BY <2>2, LenProperties
  <2> QED BY <2>1, <2>2, <2>3 DEF Fits
<1>2. Range(MESSAGE) \subseteq Items
  BY DEF Items
<1>3. \A c \in Clients : Range(Text[c]) \subseteq Items
  BY DEF Items
<1> QED BY <1>1, <1>2, <1>3, PairsAssumption

LEMMA BufferType ==
  ASSUME NEW b \in Buffers
  PROVE  b \in Seq(Items) /\ Len(b) = Size /\ Size \in Nat /\ DOMAIN b = 1..Size
<1>1. Size \in Nat /\ DOMAIN b = 1..Size
  BY TextFits DEF Buffers
<1>2. b \in Seq(Items)
  BY <1>1 DEF Buffers
<1> QED BY <1>1, <1>2

\* The string in b is the first k characters of t.
LEMMA StringIs ==
  ASSUME NEW b \in Buffers, NEW t, Fits(t), NEW k \in 0..Len(t), b[k + 1] = "nul",
         \A i \in 1..k : b[i] = t[i]
  PROVE  String(b) = SubSeq(t, 1, k)
<1>1. /\ Size \in Nat /\ b \in Seq(Items) /\ Len(b) = Size /\ t \in Seq(Items) /\ Len(t) \in Nat
      /\ Len(t) + 1 <= Size /\ \A i \in 1..Len(t) : t[i] # "nul"
  <2>1. t \in Seq(Items) /\ Len(t) \in Nat /\ DOMAIN t = 1..Len(t)
    BY LenProperties DEF Fits
  <2>2. \A i \in 1..Len(t) : t[i] \in Range(t)
    BY <2>1 DEF Range
  <2> QED BY <2>1, <2>2, BufferType DEF Fits
<1> DEFINE I == {i \in 1..Len(b) : b[i] = "nul"}
<1>2. SelectInSeq(b, LAMBDA x : x = "nul") = IF I # {} THEN Min(I) ELSE 0
  BY DEF SelectInSeq
<1>3. k + 1 \in I /\ \A i \in I : k + 1 <= i
  <2>1. k + 1 \in 1..Len(b)
    BY <1>1
  <2>2. ASSUME NEW i \in I, ~(k + 1 <= i) PROVE FALSE
    <3>1. i \in 1..k /\ i \in 1..Len(t) /\ b[i] = "nul"
      BY <1>1, <2>2
    <3> QED BY <1>1, <3>1
  <2> QED BY <2>1, <2>2
<1>4. Min(I) = k + 1
  <2>1. I \subseteq Int
    OBVIOUS
  <2> HIDE DEF I
  <2>2. \A y \in I : (\A i \in I : y <= i) => y = k + 1
    BY <1>3, <2>1
  <2>3. \E y \in I : \A i \in I : y <= i
    BY <1>3
  <2> QED BY <2>2, <2>3 DEF Min
<1>5. SelectInSeq(b, LAMBDA x : x = "nul") - 1 = k
  <2>1. I # {}
    BY <1>3
  <2> HIDE DEF I
  <2> QED BY <1>2, <1>4, <2>1
<1>6. String(b) = SubSeq(b, 1, k)
  BY <1>5 DEF String
<1>7. 1 \in 1..(Len(b) + 1) /\ k \in (1 - 1)..Len(b) /\ 1 \in 1..(Len(t) + 1) /\ k \in (1 - 1)..Len(t)
      /\ k - 1 + 1 = k
  BY <1>1
<1>8. /\ SubSeq(b, 1, k) \in Seq(Items) /\ Len(SubSeq(b, 1, k)) = k
      /\ \A i \in 1..k : SubSeq(b, 1, k)[i] = b[1 + i - 1]
  BY <1>1, <1>7, SliceType
<1>9. /\ SubSeq(t, 1, k) \in Seq(Items) /\ Len(SubSeq(t, 1, k)) = k
      /\ \A i \in 1..k : SubSeq(t, 1, k)[i] = t[1 + i - 1]
  BY <1>1, <1>7, SliceType
<1>10. \A i \in 1..k : SubSeq(b, 1, k)[i] = SubSeq(t, 1, k)[i]
  <2>1. \A i \in 1..k : 1 + i - 1 = i
    OBVIOUS
  <2> QED BY <1>8, <1>9, <2>1
<1>11. SubSeq(b, 1, k) = SubSeq(t, 1, k)
  BY <1>8, <1>9, <1>10, SeqEqual
<1> QED BY <1>6, <1>11

LEMMA OverlaidFacts ==
  ASSUME NEW b \in Buffers, NEW p \in Seq(Items)
  PROVE  /\ Overlaid(b, p) \in Buffers
         /\ \A i \in 1..Size : Overlaid(b, p)[i] = IF i <= Len(p) THEN p[i] ELSE b[i]
<1>1. Size \in Nat /\ DOMAIN b = 1..Size /\ Len(p) \in Nat
  BY BufferType, LenProperties
<1>2. \A i \in 1..Size : Overlaid(b, p)[i] = IF i <= Len(p) THEN p[i] ELSE b[i]
  BY <1>1 DEF Overlaid
<1>3. \A i \in 1..Size : b[i] \in Items /\ (i <= Len(p) => p[i] \in Items)
  <2>1. \A i \in 1..Len(p) : p[i] \in Items
    BY ElementOfSeq
  <2>2. \A i \in 1..Size : i <= Len(p) => i \in 1..Len(p)
    BY <1>1
  <2> QED BY <2>1, <2>2 DEF Buffers
<1>4. Overlaid(b, p) \in Buffers
  BY <1>1, <1>3 DEF Overlaid, Buffers
<1> QED BY <1>2, <1>4

\* A string with its NUL.
LEMMA WithNul ==
  ASSUME NEW t \in Seq(Items)
  PROVE  /\ Append(t, "nul") \in Seq(Items) /\ Len(Append(t, "nul")) = Len(t) + 1
         /\ \A i \in 1..Len(t) : Append(t, "nul")[i] = t[i]
         /\ Append(t, "nul")[Len(t) + 1] = "nul" /\ Len(t) \in Nat
BY MarksAreItems, AppendProperties, LenProperties

LEMMA StoredFacts ==
  ASSUME NEW b \in Buffers, NEW t, Fits(t)
  PROVE  /\ Stored(b, t) \in Buffers /\ Len(Stored(b, t)) = Size
         /\ \A i \in 1..Len(t) : Stored(b, t)[i] = t[i]
         /\ Stored(b, t)[Len(t) + 1] = "nul"
<1>1. t \in Seq(Items) /\ Len(t) + 1 <= Size /\ Size \in Nat
  BY BufferType DEF Fits
<1>2. PICK p \in Seq(Items) : p = Append(t, "nul")
  BY <1>1, WithNul
<1>3. /\ Len(p) = Len(t) + 1 /\ \A i \in 1..Len(t) : p[i] = t[i]
      /\ p[Len(t) + 1] = "nul" /\ Len(t) \in Nat
  BY <1>1, <1>2, WithNul
<1>4. /\ Stored(b, t) \in Buffers
      /\ \A i \in 1..Size : Stored(b, t)[i] = IF i <= Len(p) THEN p[i] ELSE b[i]
  BY <1>2, OverlaidFacts DEF Stored
<1>5. \A i \in 1..Len(t) : i \in 1..Size /\ i <= Len(p)
  BY <1>1, <1>3
<1>6. Len(t) + 1 \in 1..Size /\ Len(t) + 1 <= Len(p)
  BY <1>1, <1>3
<1> QED BY <1>3, <1>4, <1>5, <1>6, BufferType

LEMMA PartFacts ==
  ASSUME NEW s \in Seq(Items), NEW x, Part(x, s)
  PROVE  /\ x \in Seq(Items) /\ Len(x) \in Nat /\ Len(x) <= Len(s)
         /\ \A i \in 1..Len(x) : x[i] = s[i]
         /\ x = SubSeq(s, 1, Len(x))
<1>1. PICK l \in 0..Len(s) : x = SubSeq(s, 1, l)
  BY DEF Part
<1>2. 1 \in 1..(Len(s) + 1) /\ l \in (1 - 1)..Len(s) /\ l - 1 + 1 = l
  BY LenProperties
<1>3. x \in Seq(Items) /\ Len(x) = l /\ \A i \in 1..l : x[i] = s[1 + i - 1]
  BY <1>1, <1>2, SliceType
<1>4. \A i \in 1..l : 1 + i - 1 = i
  OBVIOUS
<1> QED BY <1>1, <1>3, <1>4

LEMMA PartOfPart ==
  ASSUME NEW s \in Seq(Items), NEW x, NEW y, Part(x, s), Part(y, x)
  PROVE  Part(y, s)
<1>1. PICK l \in 0..Len(s) : x = SubSeq(s, 1, l)
  BY DEF Part
<1>2. 1 \in 1..(Len(s) + 1) /\ l \in (1 - 1)..Len(s) /\ l - 1 + 1 = l
  BY LenProperties
<1>3. Len(x) = l
  BY <1>1, <1>2, SliceType
<1>4. PICK m \in 0..l : y = SubSeq(x, 1, m)
  BY <1>3 DEF Part
<1>5. 1 \in 1..(l - 1 + 2) /\ m \in (1 - 1)..(l - 1 + 1)
  BY <1>4
<1>6. y = SubSeq(s, 1 + 1 - 1, 1 + m - 1)
  BY <1>1, <1>2, <1>4, <1>5, SliceOfSlice
<1>7. 1 + 1 - 1 = 1 /\ 1 + m - 1 = m
  BY <1>4
<1>8. m \in 0..Len(s)
  BY <1>4, LenProperties
<1> QED BY <1>6, <1>7, <1>8 DEF Part

LEMMA PartSelf ==
  ASSUME NEW s \in Seq(Items) PROVE Part(s, s) /\ Part(<<>>, s)
<1>1. Len(s) \in 0..Len(s) /\ 0 \in 0..Len(s)
  BY LenProperties
<1>2. SubSeq(s, 1, Len(s)) = s
  BY SubSeqFull
<1>3. SubSeq(s, 1, 0) = <<>>
  BY SubSeqEmpty
<1>4. Part(s, s)
  <2>1. PICK l \in 0..Len(s) : l = Len(s)
    BY <1>1
  <2>2. s = SubSeq(s, 1, l)
    BY <1>2, <2>1
  <2> QED BY <2>2, Zenon DEF Part
<1> QED BY <1>1, <1>3, <1>4 DEF Part

\* The first n of what is unread are a beginning of it.
LEMMA PartRead ==
  ASSUME NEW s, NEW n \in 1..Len(s) PROVE Part(SubSeq(s, 1, n), s)
<1>1. n \in 0..Len(s)
  OBVIOUS
<1> QED BY <1>1 DEF Part

LEMMA SameStrings ==
  /\ \A b, p : E!Overlaid(b, p) = Overlaid(b, p) /\ M!Overlaid(b, p) = Overlaid(b, p)
  /\ \A b, t : E!Stored(b, t) = Stored(b, t) /\ M!Stored(b, t) = Stored(b, t)
  /\ \A b : E!String(b) = String(b) /\ M!String(b) = String(b)
<1>1. \A b, p : E!Overlaid(b, p) = Overlaid(b, p) /\ M!Overlaid(b, p) = Overlaid(b, p)
  BY DEF Overlaid, E!Overlaid, M!Overlaid
<1>2. \A b, t : E!Stored(b, t) = Stored(b, t) /\ M!Stored(b, t) = Stored(b, t)
  BY <1>1 DEF Stored, E!Stored, M!Stored
<1>3. \A X : E!Min(X) = Min(X) /\ M!Min(X) = Min(X)
  BY DEF Min, E!Min, M!Min
<1>4. \A b : E!String(b) = String(b) /\ M!String(b) = String(b)
  BY <1>3 DEF String, E!String, M!String, SelectInSeq, E!SelectInSeq, M!SelectInSeq
<1> QED BY <1>1, <1>2, <1>4

-----------------------------------------------------------------------------
(* The echo.                                                               *)

\* The buffer holds the first k characters of c's message, and a NUL; fewer
\* than all of them only after a short read of the server's.
Holds(b, c, k) == /\ k \in 0..Len(Text[c]) /\ b[k + 1] = "nul"
                  /\ \A i \in 1..k : b[i] = Text[c][i]
Excused(c, k) == k < Len(Text[c]) => "short read" \in causes[c]
Full(c)    == Stored(E!Garbage, Text[c])
Echoed(c, k) == Append(SubSeq(Text[c], 1, k), "nul")

LEMMA FullFacts ==
  ASSUME NEW c \in Clients
  PROVE  /\ Full(c) \in Buffers /\ Len(Full(c)) = Size /\ Full(c) \in Seq(Items)
         /\ \A i \in 1..Len(Text[c]) : Full(c)[i] = Text[c][i]
         /\ Full(c)[Len(Text[c]) + 1] = "nul"
         /\ E!Garbage \in Buffers /\ E!Zeroes \in Buffers /\ \A i \in 1..Size : E!Zeroes[i] = "nul"
         /\ Text[c] \in Seq(Items) /\ Len(Text[c]) \in Nat /\ Len(Text[c]) + 1 \in 1..Size
         /\ \A i \in 1..Len(Text[c]) : Text[c][i] # "nul"
         /\ Holds(Full(c), c, Len(Text[c]))
<1>1. E!Garbage \in Buffers /\ E!Zeroes \in Buffers /\ \A i \in 1..Size : E!Zeroes[i] = "nul"
  BY MarksAreItems DEF E!Garbage, E!Zeroes, Buffers
<1>2. Fits(Text[c]) /\ Size \in Nat
  BY TextFits
<1>3. /\ Full(c) \in Buffers /\ Len(Full(c)) = Size
      /\ \A i \in 1..Len(Text[c]) : Full(c)[i] = Text[c][i]
      /\ Full(c)[Len(Text[c]) + 1] = "nul"
  BY <1>1, <1>2, StoredFacts DEF Full
<1>4. Text[c] \in Seq(Items) /\ Len(Text[c]) \in Nat /\ DOMAIN Text[c] = 1..Len(Text[c])
  BY <1>2, LenProperties DEF Fits
<1>5. Len(Text[c]) + 1 \in 1..Size
  BY <1>2, <1>4 DEF Fits
<1>6. \A i \in 1..Len(Text[c]) : Text[c][i] # "nul"
  BY <1>2, <1>4 DEF Fits, Range
<1>7. Len(Text[c]) \in 0..Len(Text[c])
  BY <1>4
<1> QED BY <1>1, <1>3, <1>4, <1>5, <1>6, <1>7, BufferType DEF Holds

LEMMA EchoedType ==
  ASSUME NEW c \in Clients, NEW k \in 0..Len(Text[c])
  PROVE  Echoed(c, k) \in Seq(Items) /\ SubSeq(Text[c], 1, k) \in Seq(Items)
<1>1. SubSeq(Text[c], 1, k) \in Seq(Items)
  BY FullFacts, PartType
<1> QED BY <1>1, WithNul DEF Echoed

\* What the server's buffer holds after its read, of which piece is the result.
LEMMA ReadHolds ==
  ASSUME NEW c \in Clients, NEW piece, Part(piece, Full(c))
  PROVE  /\ Overlaid(E!Zeroes, piece) \in Buffers /\ piece \in Seq(Items)
         /\ \E k \in 0..Len(Text[c]) :
              /\ Holds(Overlaid(E!Zeroes, piece), c, k)
              /\ "nul" \in Range(piece) => k = Len(Text[c])
<1>0. PICK m \in Nat : m = Len(Text[c])
  BY FullFacts
<1>1. /\ piece \in Seq(Items) /\ Len(piece) \in Nat /\ Len(piece) <= Size
      /\ \A i \in 1..Len(piece) : piece[i] = Full(c)[i]
  BY FullFacts, PartFacts
<1>2. PICK l \in Nat : l = Len(piece)
  BY <1>1
<1>3. /\ \A i \in 1..m : Full(c)[i] = Text[c][i] /\ Text[c][i] # "nul"
      /\ Full(c)[m + 1] = "nul" /\ m + 1 \in 1..Size /\ Size \in Nat
      /\ \A i \in 1..Size : E!Zeroes[i] = "nul"
  BY <1>0, FullFacts, TextFits
<1>4. PICK b \in Buffers : b = Overlaid(E!Zeroes, piece)
  BY <1>1, FullFacts, OverlaidFacts
<1>5. \A i \in 1..Size : b[i] = IF i <= l THEN piece[i] ELSE "nul"
  BY <1>1, <1>2, <1>3, <1>4, FullFacts, OverlaidFacts
<1>6. CASE l >= m + 1
  <2>1. b[m + 1] = "nul"
    BY <1>1, <1>2, <1>3, <1>5, <1>6
  <2>2. \A i \in 1..m : b[i] = Text[c][i]
    BY <1>1, <1>2, <1>3, <1>5, <1>6
  <2>3. Holds(b, c, m) /\ m \in 0..Len(Text[c])
    BY <1>0, <2>1, <2>2 DEF Holds
  <2> QED BY <1>0, <1>1, <1>4, <2>3
<1>7. CASE ~(l >= m + 1)
  <2>1. b[l + 1] = "nul"
    BY <1>3, <1>5, <1>7
  <2>2. \A i \in 1..l : b[i] = Text[c][i] /\ piece[i] # "nul"
    BY <1>1, <1>2, <1>3, <1>5, <1>7
  <2>3. "nul" \notin Range(piece)
    <3>1. DOMAIN piece = 1..l
      BY <1>1, <1>2, LenProperties
    <3> QED BY <2>2, <3>1 DEF Range
  <2>4. Holds(b, c, l) /\ l \in 0..Len(Text[c])
    BY <1>0, <1>7, <2>1, <2>2 DEF Holds
  <2> QED BY <1>1, <1>4, <2>3, <2>4
<1> QED BY <1>6, <1>7

\* And the client's, whose buffer still holds its whole message under the piece.
LEMMA EchoHolds ==
  ASSUME NEW c \in Clients, NEW k \in 0..Len(Text[c]), NEW piece, Part(piece, Echoed(c, k))
  PROVE  /\ Overlaid(Full(c), piece) \in Buffers /\ piece \in Seq(Items)
         /\ \/ Holds(Overlaid(Full(c), piece), c, k)
            \/ Holds(Overlaid(Full(c), piece), c, Len(Text[c]))
<1>0. PICK m \in Nat : m = Len(Text[c])
  BY FullFacts
<1>1. PICK t \in Seq(Items) : t = SubSeq(Text[c], 1, k)
  BY FullFacts, PartType
<1>2. Len(t) = k /\ \A i \in 1..k : t[i] = Text[c][i]
  <2>1. 1 \in 1..(Len(Text[c]) + 1) /\ k \in (1 - 1)..Len(Text[c]) /\ k - 1 + 1 = k
    BY <1>0
  <2>2. \A i \in 1..k : 1 + i - 1 = i
    OBVIOUS
  <2>3. Len(t) = k /\ \A i \in 1..k : t[i] = Text[c][1 + i - 1]
    BY <1>1, <2>1, FullFacts, SliceType
  <2> QED BY <2>2, <2>3
<1>3. PICK e \in Seq(Items) : e = Append(t, "nul")
  BY WithNul
<1>4. Len(e) = k + 1 /\ (\A i \in 1..k : e[i] = Text[c][i]) /\ e[k + 1] = "nul"
  BY <1>2, <1>3, WithNul
<1>5. /\ piece \in Seq(Items) /\ Len(piece) \in Nat /\ Len(piece) <= k + 1
      /\ \A i \in 1..Len(piece) : piece[i] = e[i]
  <2>1. Part(piece, e)
    BY <1>1, <1>3 DEF Echoed
  <2> QED BY <1>4, <2>1, PartFacts
<1>6. PICK l \in Nat : l = Len(piece)
  BY <1>5
<1>7. /\ \A i \in 1..m : Full(c)[i] = Text[c][i]
      /\ Full(c)[m + 1] = "nul" /\ m + 1 \in 1..Size /\ Size \in Nat
  BY <1>0, FullFacts, TextFits
<1>8. PICK b \in Buffers : b = Overlaid(Full(c), piece)
  BY <1>5, FullFacts, OverlaidFacts
<1>9. \A i \in 1..Size : b[i] = IF i <= l THEN piece[i] ELSE Full(c)[i]
  BY <1>5, <1>6, <1>8, FullFacts, OverlaidFacts
<1>10. k <= m /\ k \in Nat
  BY <1>0
<1>11. CASE l = k + 1
  <2>1. \A i \in 1..(k + 1) : i \in 1..Size /\ b[i] = e[i]
    <3>1. \A i \in 1..(k + 1) : i \in 1..Size /\ i <= l /\ i \in 1..Len(piece)
      BY <1>6, <1>7, <1>10, <1>11
    <3> QED BY <1>5, <1>9, <3>1
  <2>2. b[k + 1] = "nul" /\ \A i \in 1..k : b[i] = Text[c][i]
    BY <1>4, <1>10, <2>1
  <2> QED BY <1>5, <1>8, <2>2 DEF Holds
<1>12. CASE l <= k
  <2>1. b[m + 1] = "nul" /\ \A i \in 1..m : b[i] = Text[c][i]
    BY <1>4, <1>5, <1>6, <1>7, <1>9, <1>10, <1>12
  <2>2. Holds(b, c, m)
    BY <1>0, <2>1 DEF Holds
  <2> QED BY <1>0, <1>5, <1>8, <2>2
<1> QED BY <1>5, <1>6, <1>10, <1>11, <1>12

\* What the client holds and has printed.
EchoData(c) ==
  /\ cpc[c] \in {"start", "write", "read"} => cdata[c].buffer = Full(c)
  /\ cpc[c] = "print" => \E k \in 0..Len(Text[c]) : Holds(cdata[c].buffer, c, k) /\ Excused(c, k)
  /\ cpc[c] # "done" => cdata[c].printed = <<>>
  /\ cpc[c] = "done" => \E k \in 0..Len(Text[c]) :
        cdata[c].printed = SubSeq(Text[c], 1, k) /\ Excused(c, k)
\* What it has written, and what has been written to it.
EchoWire(c) ==
  /\ cpc[c] \in {"start", "write"} => conn[c].client.out = <<>>
  /\ Part(conn[c].client.out, Full(c)) \/ (spc \in {"write", "close"} /\ InUse(c))
  /\ ~InUse(c) \/ spc \in {"read", "write"} =>
        conn[c].server.out = <<>> \/ conn[c].server.state = "closed"
  /\ cpc[c] \in {"start", "write", "read"} => \E k \in 0..Len(Text[c]) :
        Part(conn[c].server.out, Echoed(c, k)) /\ Excused(c, k)
\* What the server holds for it.
EchoRead(c) ==
  spc = "write" /\ InUse(c) => \E k \in 0..Len(Text[c]) :
     Holds(sdata, c, k) /\ (OpenEnds(c) => Excused(c, k))
EchoInv ==
  /\ sdata \in Buffers /\ cdata \in [Clients -> [buffer : Buffers, printed : Seq(Items)]]
  /\ spc = "read" => sdata = E!Zeroes
  /\ \A c \in Clients : EchoData(c) /\ EchoWire(c) /\ EchoRead(c)

LEMMA ExcusedKeeps ==
  ASSUME NEW c, NEW k, Excused(c, k), causes[c] \subseteq causes'[c] PROVE Excused(c, k)'
BY DEF Excused

LEMMA WholeExcused ==
  ASSUME NEW c \in Clients, NEW k, k = Len(Text[c]) PROVE Excused(c, k) /\ Excused(c, k)'
<1>1. Len(Text[c]) \in Nat
  BY FullFacts
<1>2. ~(k < Len(Text[c]))
  BY <1>1
<1> QED BY <1>2 DEF Excused

LEMMA EchoDataKeeps ==
  ASSUME NEW c \in Clients, EchoData(c), cpc'[c] = cpc[c], cdata'[c] = cdata[c],
         causes[c] \subseteq causes'[c]
  PROVE  EchoData(c)'
<1>1. \A k : Excused(c, k) => Excused(c, k)'
  BY ExcusedKeeps
<1> QED BY <1>1 DEF EchoData

LEMMA EchoKeeps ==
  ASSUME NEW c \in Clients, EchoData(c), EchoWire(c), EchoRead(c),
         conn'[c] = conn[c], cpc'[c] = cpc[c], cdata'[c] = cdata[c],
         causes[c] \subseteq causes'[c],
         ~InUse(c) \/ (spc' = spc /\ sdata' = sdata)
  PROVE  EchoData(c)' /\ EchoWire(c)' /\ EchoRead(c)'
<1>1. \A k : Excused(c, k) => Excused(c, k)'
  BY ExcusedKeeps
<1>2. EchoData(c)'
  BY EchoDataKeeps
<1>3. InUse(c)' = InUse(c) /\ OpenEnds(c)' = OpenEnds(c)
  BY DEF InUse, OpenEnds
<1>4. EchoWire(c)'
  <2>1. CASE InUse(c)
    BY <1>1, <1>3, <2>1 DEF EchoWire
  <2>2. CASE ~InUse(c)
    BY <1>1, <1>3, <2>2 DEF EchoWire
  <2> QED BY <2>1, <2>2
<1>5. EchoRead(c)'
  BY <1>1, <1>3 DEF EchoRead
<1> QED BY <1>2, <1>4, <1>5

LEMMA EchoServerCloses ==
  ASSUME Net, NEW c \in Clients, EchoData(c), EchoWire(c), EchoRead(c), ServerCloses(c),
         cpc'[c] = cpc[c], cdata'[c] = cdata[c], causes[c] \subseteq causes'[c],
         spc' \in {"accept", "ended"}
  PROVE  EchoData(c)' /\ EchoWire(c)' /\ EchoRead(c)'
<1>1. CASE conn[c].server.state \in {"none", "closed"}
  <2>1. conn'[c] = conn[c] /\ ~InUse(c)
    BY <1>1 DEF ServerCloses, InUse
  <2> QED BY <2>1, EchoKeeps
<1>2. CASE conn[c].server.state \notin {"none", "closed"}
  <2>1. /\ conn'[c].server.state = "closed" /\ Part(conn'[c].server.out, conn[c].server.out)
        /\ conn'[c].client.out = <<>>
    BY <1>2 DEF ServerCloses
  <2>2. EchoData(c)' /\ EchoRead(c)'
    BY EchoDataKeeps DEF EchoRead
  <2>3. ASSUME cpc[c] \in {"start", "write", "read"}
        PROVE  \E k \in 0..Len(Text[c]) : Part(conn'[c].server.out, Echoed(c, k)) /\ Excused(c, k)'
    <3>1. PICK k \in 0..Len(Text[c]) : Part(conn[c].server.out, Echoed(c, k)) /\ Excused(c, k)
      BY <2>3 DEF EchoWire
    <3>2. PICK x, y : x = conn[c].server.out /\ y = conn'[c].server.out
      OBVIOUS
    <3>3. Part(y, Echoed(c, k))
      BY <2>1, <3>1, <3>2, EchoedType, PartOfPart
    <3>4. Excused(c, k)'
      BY <3>1, ExcusedKeeps
    <3> QED BY <3>2, <3>3, <3>4
  <2>4. Part(<<>>, Full(c))
    BY FullFacts, PartSelf
  <2>5. EchoWire(c)'
    BY <2>1, <2>3, <2>4 DEF EchoWire
  <2> QED BY <2>2, <2>5
<1> QED BY <1>1, <1>2

LEMMA EchoCloseAll ==
  ASSUME Net, EchoInv, CloseAll({}), UNCHANGED <<sdata, cpc, cdata>>, spc' = "ended"
  PROVE  EchoInv'
<1>1. \A c \in Clients : ServerCloses(c)
  BY CloseAllEffect
<1>2. \A c \in Clients : causes[c] \subseteq causes'[c]
  BY DEF CloseAll, Blame
<1>3. \A c \in Clients : EchoData(c)' /\ EchoWire(c)' /\ EchoRead(c)'
  BY <1>1, <1>2, EchoServerCloses DEF EchoInv
<1> QED BY <1>3 DEF EchoInv

LEMMA EchoServerMoves ==
  ASSUME Net, EchoInv, E!ServerStart \/ E!ServerFails
  PROVE  Net' /\ EchoInv'
<1>1. CASE E!ServerStart
  <2>1. /\ Server("start", "accept") /\ spc = "start" /\ spc' = "accept" /\ listening' = TRUE
        /\ UNCHANGED <<conn, sdata, causes, cpc, cdata>>
    BY <1>1, SameE DEF E!ServerStart, Server
  <2>2. Net'
    BY <2>1, NetServerStart
  <2>3. \A c \in Clients : ~InUse(c)
    BY <2>1 DEF Net, Single, Idle
  <2>4. \A c \in Clients : EchoData(c)' /\ EchoWire(c)' /\ EchoRead(c)'
    BY <2>1, <2>3, EchoKeeps DEF EchoInv
  <2> QED BY <2>1, <2>2, <2>4 DEF EchoInv
<1>2. CASE E!ServerFails
  <2>1. spc' = "ended" /\ CloseAll({}) /\ UNCHANGED <<sdata, cpc, cdata>>
    BY <1>2, SameE DEF E!ServerFails, Server
  <2> QED BY <2>1, EchoCloseAll, NetCloseAll
<1> QED BY <1>1, <1>2

\* The clients the server does not serve.
LEMMA EchoOthers ==
  ASSUME Net, EchoInv, NEW c \in Clients, Others(c), InUse(c), UNCHANGED <<cpc, cdata>>,
         \A d \in Clients : causes[d] \subseteq causes'[d]
  PROVE  \A d \in Clients \ {c} : EchoData(d)' /\ EchoWire(d)' /\ EchoRead(d)'
<1>1. \A d \in Clients \ {c} : ~InUse(d)
  BY DEF Net, Single
<1> QED BY <1>1, EchoKeeps DEF EchoInv, Others

LEMMA EchoAccept ==
  ASSUME Net, EchoInv, NEW c \in Clients, E!Accept(c)
  PROVE  Net' /\ EchoInv'
<1>1. /\ Queued(c) /\ Server("accept", "read") /\ spc = "accept" /\ spc' = "read"
      /\ conn' = Accepted(c) /\ sdata' = E!Zeroes
      /\ UNCHANGED <<listening, causes, cpc, cdata>>
  BY SameE DEF E!Accept, Server
<1>2. Net'
  BY <1>1, NetAccept DEF Busy
<1>3. /\ Others(c) /\ conn'[c].client = conn[c].client
      /\ conn'[c].server.state = "open" /\ conn'[c].server.out = conn[c].server.out
  BY <1>1, AcceptEffect DEF Net
<1>4. \A d \in Clients : ~InUse(d)
  BY <1>1 DEF Net, Single, Idle
<1>5. \A d \in Clients \ {c} : EchoData(d)' /\ EchoWire(d)' /\ EchoRead(d)'
  BY <1>1, <1>3, <1>4, EchoKeeps DEF EchoInv, Others
<1>6. conn[c].server.out = <<>>
  BY <1>1 DEF Net, Sockets
<1>7. EchoData(c)' /\ EchoRead(c)'
  BY <1>1, EchoDataKeeps DEF EchoInv, EchoRead
<1>8. EchoWire(c)'
  <2>1. EchoWire(c) /\ \A k : Excused(c, k) => Excused(c, k)'
    BY <1>1, ExcusedKeeps DEF EchoInv
  <2> QED BY <1>1, <1>3, <1>4, <1>6, <2>1 DEF EchoWire
<1>9. sdata' \in Buffers
  BY <1>1, FullFacts
<1> QED BY <1>1, <1>2, <1>5, <1>7, <1>8, <1>9 DEF EchoInv

\* The server's one read: of the client's message, or too short.
LEMMA EchoReadOnce ==
  ASSUME Net, EchoInv, NEW c \in Clients, E!ReadOnce(c)
  PROVE  Net' /\ EchoInv'
<1>1. /\ Server("read", "write") /\ spc = "read" /\ spc' = "write" /\ InUse(c)
      /\ UNCHANGED <<listening, cpc, cdata>> /\ sdata = E!Zeroes /\ c \in Served
  BY SameE DEF E!ReadOnce, Server, Served, InUse, EchoInv
<1>2. \/ \E piece \in Received(c, "server", Size) :
           /\ sdata' = Overlaid(sdata, piece) /\ conn' = Read(c, "server", piece)
           /\ causes' = causes \/ \E why : Blame({c}, why)
           /\ "nul" \in Range(piece) \/ \A k : Excused(c, k)'
      \/ (AtEnd(c, "server") \/ Failed(c, "server")) /\ UNCHANGED <<sdata, conn, causes>>
  <2>1. \/ \E piece \in Received(c, "server", Size) :
             /\ sdata' = Overlaid(sdata, piece) /\ conn' = Read(c, "server", piece)
             /\ IF "nul" \in Range(piece) THEN UNCHANGED causes ELSE Blame({c}, "short read")
        \/ (AtEnd(c, "server") \/ Failed(c, "server")) /\ UNCHANGED <<sdata, conn, causes>>
    <3>1. \A p : E!Range(p) = Range(p)
      BY DEF Range, E!Range
    <3> QED BY <3>1, SameE, SameStrings DEF E!ReadOnce
  <2>2. Blame({c}, "short read") => \A k : Excused(c, k)'
    BY DEF Blame, Excused
  <2> QED BY <2>1, <2>2
<1>3. \A d \in Clients : causes[d] \subseteq causes'[d]
  BY <1>2 DEF Blame
<1>4. EchoWire(c) /\ EchoData(c) /\ EchoRead(c)
  BY DEF EchoInv
<1>5. EchoData(c)' /\ \A k : Excused(c, k) => Excused(c, k)'
  BY <1>1, <1>3, <1>4, EchoDataKeeps, ExcusedKeeps
<1>6. CASE UNCHANGED <<sdata, conn, causes>> /\ (AtEnd(c, "server") \/ Failed(c, "server"))
  <2>1. Net'
    BY <1>1, <1>6, NetServerMoves DEF Busy
  <2>2. ~OpenEnds(c)'
    BY <1>6 DEF AtEnd, Failed, OpenEnds, Peer
  <2>3. Holds(sdata, c, 0) /\ 0 \in 0..Len(Text[c])
    BY <1>1, FullFacts DEF Holds
  <2>4. EchoRead(c)'
    BY <1>6, <2>2, <2>3 DEF EchoRead, Holds
  <2>5. EchoWire(c)'
    BY <1>1, <1>4, <1>5, <1>6 DEF EchoWire, InUse
  <2>6. \A d \in Clients \ {c} : EchoData(d)' /\ EchoWire(d)' /\ EchoRead(d)'
    BY <1>1, <1>3, <1>6, EchoOthers DEF Others
  <2> QED BY <1>1, <1>5, <1>6, <2>1, <2>4, <2>5, <2>6 DEF EchoInv
<1>7. CASE \E piece \in Received(c, "server", Size) :
           /\ sdata' = Overlaid(sdata, piece) /\ conn' = Read(c, "server", piece)
           /\ causes' = causes \/ \E why : Blame({c}, why)
           /\ "nul" \in Range(piece) \/ \A k : Excused(c, k)'
  <2>1. PICK piece \in Received(c, "server", Size) :
           /\ sdata' = Overlaid(sdata, piece) /\ conn' = Read(c, "server", piece)
           /\ "nul" \in Range(piece) \/ \A k : Excused(c, k)'
    BY <1>7
  <2>2. Net'
    BY <1>1, <2>1, TextFits, NetServerMoves DEF Busy
  <2>3. /\ Others(c) /\ conn'[c].server = conn[c].server
        /\ conn'[c].client.state = conn[c].client.state
        /\ Unread(c, "server") = conn[c].client.out
        /\ \E n \in 1..Len(Unread(c, "server")) : piece = SubSeq(Unread(c, "server"), 1, n)
    BY <2>1, TextFits, ReadEffect DEF Net, Sides, Peer, Unread
  <2>4. Part(piece, Full(c))
    <3>1. PICK out : out = conn[c].client.out
      OBVIOUS
    <3>2. Part(out, Full(c))
      BY <1>1, <1>4, <3>1 DEF EchoWire
    <3>3. Part(piece, out)
      BY <2>3, <3>1, PartRead
    <3> QED BY <3>2, <3>3, FullFacts, PartOfPart
  <2>5. PICK k \in 0..Len(Text[c]) :
          /\ Holds(Overlaid(E!Zeroes, piece), c, k)
          /\ "nul" \in Range(piece) => k = Len(Text[c])
    BY <2>4, ReadHolds
  <2>6. Overlaid(E!Zeroes, piece) \in Buffers
    BY <2>4, ReadHolds
  <2>7. Excused(c, k)'
    BY <2>1, <2>5, FullFacts, WholeExcused
  <2>8. Holds(sdata', c, k) /\ sdata' \in Buffers
    BY <1>1, <2>1, <2>5, <2>6
  <2>9. EchoRead(c)'
    BY <2>7, <2>8 DEF EchoRead, Holds
  <2>10. EchoWire(c)'
    BY <1>1, <1>4, <1>5, <2>3 DEF EchoWire, InUse
  <2>11. \A d \in Clients \ {c} : EchoData(d)' /\ EchoWire(d)' /\ EchoRead(d)'
    BY <1>1, <1>3, <2>3, EchoOthers
  <2> QED BY <1>1, <1>5, <2>2, <2>8, <2>9, <2>10, <2>11 DEF EchoInv
<1> QED BY <1>2, <1>6, <1>7

\* Nothing is a beginning of what may be on its way.
LEMMA EchoNothing ==
  ASSUME NEW c \in Clients
  PROVE  \E k \in 0..Len(Text[c]) : Part(<<>>, Echoed(c, k)) /\ Excused(c, k) /\ Excused(c, k)'
<1>1. PICK k \in 0..Len(Text[c]) : k = Len(Text[c])
  BY FullFacts
<1>2. Part(<<>>, Echoed(c, k))
  BY EchoedType, PartSelf
<1>3. Excused(c, k) /\ Excused(c, k)'
  BY <1>1, WholeExcused
<1> QED BY <1>2, <1>3

\* The server writes the string its buffer holds.
LEMMA EchoWriteBack ==
  ASSUME Net, EchoInv, NEW c \in Clients, E!WriteBack(c)
  PROVE  Net' /\ EchoInv'
<1>1. /\ c \in Served /\ Server("write", "close") /\ spc = "write" /\ spc' = "close"
      /\ CanWrite(c, "server") /\ conn' = Written(c, "server", Append(String(sdata), "nul"))
      /\ UNCHANGED <<listening, sdata, causes, cpc, cdata>>
  BY SameE, SameStrings DEF E!WriteBack, Server
<1>2. InUse(c) /\ EchoData(c) /\ EchoWire(c) /\ EchoRead(c) /\ Sockets(c) /\ conn \in Conns
  BY <1>1 DEF Served, InUse, EchoInv, Net
<1>3. PICK k \in 0..Len(Text[c]) : Holds(sdata, c, k) /\ (OpenEnds(c) => Excused(c, k))
  BY <1>1, <1>2 DEF EchoRead
<1>4. PICK b \in Buffers : b = sdata
  BY DEF EchoInv
<1>5. String(b) = SubSeq(Text[c], 1, k)
  <2>1. Fits(Text[c]) /\ Holds(b, c, k)
    BY <1>3, <1>4, TextFits
  <2>2. b[k + 1] = "nul" /\ \A i \in 1..k : b[i] = Text[c][i]
    BY <2>1 DEF Holds
  <2> QED BY <2>1, <2>2, StringIs
<1>6. PICK data \in Seq(Items) : data = Echoed(c, k)
  BY EchoedType
<1>7. conn' = Written(c, "server", data)
  BY <1>1, <1>4, <1>5, <1>6 DEF Echoed
<1>8. Net'
  BY <1>1, <1>7, NetServerMoves DEF Busy
<1>9. /\ Others(c) /\ conn'[c].client = conn[c].client
      /\ \/ /\ conn'[c].server.state = conn[c].server.state
            /\ conn'[c].server.out = conn[c].server.out \o data
         \/ /\ conn[c].client.state \notin {"open", "queued"}
            /\ conn'[c].server.state = "reset" /\ conn'[c].server.out = conn[c].server.out
  <2>1. "server" \in Sides /\ Peer("server") = "client"
    BY DEF Sides, Peer
  <2> QED BY <1>2, <1>7, <2>1, WriteEffect
<1>10. conn[c].server.state = "open" /\ conn[c].server.out = <<>>
  BY <1>1, <1>2 DEF CanWrite, EchoWire
<1>11. InUse(c)' /\ EchoRead(c)'
  BY <1>1, <1>9, <1>10 DEF InUse, EchoRead
<1>12. EchoData(c)' /\ \A j : Excused(c, j) => Excused(c, j)'
  BY <1>1, <1>2, EchoDataKeeps, ExcusedKeeps
<1>13. ASSUME cpc[c] \in {"start", "write", "read"}
       PROVE  Part(conn'[c].server.out, Echoed(c, k)) /\ Excused(c, k)
  <2>1. conn[c].client.state = "open"
    BY <1>2, <1>10, <1>13 DEF Sockets, Active, Ended
  <2>2. conn'[c].server.out = data
    <3>1. conn'[c].server.out = <<>> \o data
      BY <1>9, <1>10, <2>1
    <3>2. <<>> \o data = data
      BY ConcatEmptySeq
    <3> QED BY <3>1, <3>2
  <2>3. Part(data, data)
    BY PartSelf
  <2>4. Excused(c, k)
    BY <1>3, <1>10, <2>1 DEF OpenEnds
  <2> QED BY <1>6, <2>2, <2>3, <2>4
<1>14. EchoWire(c)'
  BY <1>1, <1>2, <1>9, <1>11, <1>12, <1>13 DEF EchoWire
<1>15. \A d \in Clients \ {c} : EchoData(d)' /\ EchoWire(d)' /\ EchoRead(d)'
  BY <1>1, <1>2, <1>9, EchoOthers
<1> QED BY <1>1, <1>8, <1>11, <1>12, <1>14, <1>15 DEF EchoInv

LEMMA EchoWriteFails ==
  ASSUME Net, EchoInv, NEW c \in Clients, E!WriteFails(c)
  PROVE  Net' /\ EchoInv'
<1>1. /\ c \in Served /\ UNCHANGED <<sdata, cpc, cdata>>
      /\ \/ /\ Server("write", "close") /\ spc' = "close"
            /\ UNCHANGED <<listening, conn, causes>>
         \/ spc' = "ended" /\ CloseAll({})
  BY SameE DEF E!WriteFails, Server
<1>2. CASE /\ Server("write", "close") /\ spc' = "close" /\ UNCHANGED <<listening, conn, causes>>
  <2>1. Net'
    BY <1>2, NetServerMoves DEF Busy
  <2>2. /\ InUse(c) /\ InUse(c)' /\ Others(c) /\ EchoData(c) /\ EchoWire(c)
    BY <1>1, <1>2 DEF Served, InUse, Others, EchoInv
  <2>3. EchoData(c)' /\ \A j : Excused(c, j) => Excused(c, j)'
    BY <1>1, <1>2, <2>2, EchoDataKeeps, ExcusedKeeps
  <2>4. EchoWire(c)' /\ EchoRead(c)'
    BY <1>1, <1>2, <2>2, <2>3 DEF EchoWire, EchoRead
  <2>5. \A d \in Clients \ {c} : EchoData(d)' /\ EchoWire(d)' /\ EchoRead(d)'
    BY <1>1, <1>2, <2>2, EchoOthers
  <2> QED BY <1>1, <1>2, <2>1, <2>3, <2>4, <2>5 DEF EchoInv
<1>3. CASE spc' = "ended" /\ CloseAll({})
  BY <1>1, <1>3, EchoCloseAll, NetCloseAll
<1> QED BY <1>1, <1>2, <1>3

LEMMA EchoCloseServer ==
  ASSUME Net, EchoInv, NEW c \in Clients, E!CloseServer(c)
  PROVE  Net' /\ EchoInv'
<1>1. /\ c \in Served /\ Server("close", "accept") /\ spc' = "accept" /\ Close(c, "server")
      /\ UNCHANGED <<listening, sdata, causes, cpc, cdata>>
  BY SameE DEF E!CloseServer, Server
<1>2. Net'
  BY <1>1, NetServerCloses DEF Busy
<1>3. Others(c) /\ ServerCloses(c) /\ InUse(c)
  BY <1>1, CloseServer DEF Net, Served, InUse
<1>4. EchoData(c)' /\ EchoWire(c)' /\ EchoRead(c)'
  BY <1>1, <1>3, EchoServerCloses DEF EchoInv
<1>5. \A d \in Clients \ {c} : EchoData(d)' /\ EchoWire(d)' /\ EchoRead(d)'
  BY <1>1, <1>3, EchoOthers
<1> QED BY <1>1, <1>2, <1>4, <1>5 DEF EchoInv

\* A step of one client, or of the network on its connection.
LEMMA EchoOne ==
  ASSUME EchoInv, NEW c \in Clients, UNCHANGED <<spc, sdata>>, Others(c),
         cdata' \in [Clients -> [buffer : Buffers, printed : Seq(Items)]],
         \A d \in Clients \ {c} : cpc'[d] = cpc[d] /\ cdata'[d] = cdata[d],
         \A d \in Clients : causes[d] \subseteq causes'[d],
         EchoData(c)', EchoWire(c)', EchoRead(c)'
  PROVE  EchoInv'
<1>1. \A d \in Clients \ {c} : EchoData(d)' /\ EchoWire(d)' /\ EchoRead(d)'
  BY EchoKeeps DEF EchoInv, Others
<1> QED BY <1>1 DEF EchoInv

LEMMA EchoStarts ==
  ASSUME Net, EchoInv, NEW c \in Clients, E!Connect(c) \/ E!CannotStart(c)
  PROVE  Net' /\ EchoInv'
<1>1. EchoData(c) /\ EchoWire(c) /\ EchoRead(c)
  BY DEF EchoInv
<1>2. CASE E!Connect(c)
  <2>1. /\ listening /\ Client(c, "start", "write") /\ conn' = Connected(c)
        /\ UNCHANGED <<spc, sdata, cdata, causes>> /\ cpc[c] = "start"
        /\ cpc' = [cpc EXCEPT ![c] = "write"]
    BY <1>2, SameE DEF E!Connect, Client, server
  <2>2. Net'
    BY <2>1, NetConnect DEF Moving, Controls
  <2>3. cpc'[c] = "write" /\ \A d \in Clients \ {c} : cpc'[d] = cpc[d]
    BY <2>1 DEF Net
  <2>4. /\ Others(c) /\ conn'[c].client.out = <<>>
        /\ conn'[c].server.state = "queued" /\ conn'[c].server.out = <<>>
    BY <2>1, ConnectEffect DEF Net
  <2>5. Part(<<>>, Full(c))
    BY FullFacts, PartSelf
  <2>6. \E k \in 0..Len(Text[c]) : Part(<<>>, Echoed(c, k)) /\ Excused(c, k)'
    BY EchoNothing
  <2>7. EchoData(c)' /\ EchoWire(c)' /\ EchoRead(c)'
    BY <1>1, <2>1, <2>3, <2>4, <2>5, <2>6 DEF EchoData, EchoWire, EchoRead, InUse
  <2> QED BY <2>1, <2>2, <2>3, <2>4, <2>7, EchoOne DEF EchoInv
<1>3. CASE E!CannotStart(c)
  <2>1. /\ Client(c, "start", "failed") /\ UNCHANGED <<conn, spc, sdata, cdata, causes>>
        /\ cpc[c] = "start" /\ cpc' = [cpc EXCEPT ![c] = "failed"]
    BY <1>3, SameE DEF E!CannotStart, Client, server
  <2>2. Net'
    BY <2>1, NetCannotStart
  <2>3. cpc'[c] = "failed" /\ \A d \in Clients \ {c} : cpc'[d] = cpc[d]
    BY <2>1 DEF Net
  <2>4. EchoData(c)' /\ EchoWire(c)'
    BY <1>1, <2>1, <2>3 DEF EchoData, EchoWire, InUse
  <2>5. EchoRead(c)' /\ Others(c)
    <3>1. \A k : Excused(c, k) => Excused(c, k)'
      BY <2>1, ExcusedKeeps
    <3> QED BY <1>1, <2>1, <3>1 DEF EchoRead, InUse, OpenEnds, Others
  <2> QED BY <2>1, <2>2, <2>3, <2>4, <2>5, EchoOne DEF EchoInv
<1> QED BY <1>2, <1>3

\* What the client has written, and what is left of it when it closes.
LEMMA EchoClientCloses ==
  ASSUME Net, NEW c \in Clients, EchoWire(c), EchoRead(c),
         conn[c].client.state \in {"open", "reset"}, Close(c, "client"),
         UNCHANGED <<spc, sdata, causes>>, cpc'[c] \in {"done", "failed"}
  PROVE  Others(c) /\ EchoWire(c)' /\ EchoRead(c)'
<1>1. /\ Others(c) /\ conn'[c].client.state = "closed"
      /\ Part(conn'[c].client.out, conn[c].client.out) /\ conn'[c].server.out = <<>>
      /\ \/ conn'[c].server.state = conn[c].server.state
         \/ conn[c].server.state = "open" /\ conn'[c].server.state = "reset"
  BY CloseClient DEF Net
<1>2. InUse(c)' = InUse(c) /\ ~OpenEnds(c)'
  BY <1>1 DEF InUse, OpenEnds
<1>3. Part(conn[c].client.out, Full(c)) => Part(conn'[c].client.out, Full(c))
  <2>1. PICK x, y : x = conn[c].client.out /\ y = conn'[c].client.out
    OBVIOUS
  <2> QED BY <1>1, <2>1, FullFacts, PartOfPart
<1>4. EchoWire(c)'
  BY <1>1, <1>2, <1>3 DEF EchoWire
<1>5. EchoRead(c)'
  BY <1>2 DEF EchoRead, Holds
<1> QED BY <1>1, <1>4, <1>5

\* The client writes its whole buffer, or dies of it.
LEMMA EchoWrites ==
  ASSUME Net, EchoInv, NEW c \in Clients, E!Write(c)
  PROVE  Net' /\ EchoInv'
<1>1. /\ Client(c, "write", "read") /\ UNCHANGED <<spc, sdata, cdata, causes>>
      /\ cpc[c] = "write" /\ cpc' = [cpc EXCEPT ![c] = "read"]
      /\ IF CanWrite(c, "client") THEN conn' = Written(c, "client", cdata[c].buffer)
         ELSE UNCHANGED conn
  BY SameE DEF E!Write, Client, server
<1>2. EchoData(c) /\ EchoWire(c) /\ EchoRead(c) /\ conn \in Conns
  BY DEF EchoInv, Net
<1>3. cpc'[c] = "read" /\ \A d \in Clients \ {c} : cpc'[d] = cpc[d]
  BY <1>1 DEF Net
<1>4. PICK data \in Seq(Items) : data = Full(c)
  BY FullFacts
<1>5. cdata[c].buffer = data /\ conn[c].client.out = <<>>
  BY <1>1, <1>2, <1>4 DEF EchoData, EchoWire
<1>6. /\ Net' /\ Others(c) /\ conn'[c].server = conn[c].server
      /\ conn'[c].client.out \in {<<>>, data}
      /\ OpenEnds(c)' => OpenEnds(c)
  <2>1. CASE CanWrite(c, "client")
    <3>1. conn' = Written(c, "client", data)
      BY <1>1, <1>5, <2>1
    <3>2. Net'
      BY <1>1, <2>1, <3>1, NetClientMoves DEF Moving, Controls
    <3>3. "client" \in Sides /\ Peer("client") = "server"
      BY DEF Sides, Peer
    <3>4. /\ Others(c) /\ conn'[c].server = conn[c].server
          /\ \/ conn'[c].client.out = conn[c].client.out \o data
             \/ conn'[c].client.out = conn[c].client.out
      BY <1>2, <3>1, <3>3, WriteEffect
    <3>5. <<>> \o data = data
      BY ConcatEmptySeq
    <3>6. OpenEnds(c)' => OpenEnds(c)
      BY <2>1, <3>4 DEF OpenEnds, CanWrite
    <3> QED BY <1>5, <3>2, <3>4, <3>5, <3>6
  <2>2. CASE ~CanWrite(c, "client")
    <3>1. conn' = conn
      BY <1>1, <2>2
    <3>2. Net'
      BY <1>1, <3>1, NetClientMoves DEF Moving, Controls
    <3> QED BY <1>5, <3>1, <3>2 DEF Others, OpenEnds
  <2> QED BY <2>1, <2>2
<1>7. Part(conn'[c].client.out, Full(c))
  BY <1>4, <1>6, PartSelf
<1>8. \A k : Excused(c, k) => Excused(c, k)'
  BY <1>1, ExcusedKeeps
<1>9. EchoData(c)'
  BY <1>1, <1>2, <1>3 DEF EchoData
<1>10. EchoWire(c)'
  BY <1>1, <1>2, <1>3, <1>6, <1>7, <1>8 DEF EchoWire, InUse
<1>11. EchoRead(c)'
  BY <1>1, <1>2, <1>6, <1>8 DEF EchoRead, InUse, Holds
<1> QED BY <1>1, <1>3, <1>6, <1>9, <1>10, <1>11, EchoOne DEF EchoInv

\* It ends without having printed.
LEMMA EchoFails ==
  ASSUME Net, EchoInv, NEW c \in Clients, E!Killed(c) \/ E!PrintFaults(c)
  PROVE  Net' /\ EchoInv'
<1>1. /\ Client(c, "write", "failed") \/ Client(c, "print", "failed")
      /\ Close(c, "client") /\ UNCHANGED <<spc, sdata, cdata, causes>>
      /\ cpc[c] \in {"write", "print"} /\ cpc' = [cpc EXCEPT ![c] = "failed"]
  BY SameE DEF E!Killed, E!PrintFaults, Client, server
<1>2. Net'
  BY <1>1, NetClientCloses DEF Moving, Controls
<1>3. cpc'[c] = "failed" /\ \A d \in Clients \ {c} : cpc'[d] = cpc[d]
  BY <1>1 DEF Net
<1>4. conn[c].client.state \in {"open", "reset"} /\ EchoWire(c) /\ EchoRead(c) /\ EchoData(c)
  BY <1>1 DEF Net, Sockets, Active, Ended, EchoInv
<1>5. Others(c) /\ EchoWire(c)' /\ EchoRead(c)'
  BY <1>1, <1>3, <1>4, EchoClientCloses
<1>6. EchoData(c)'
  BY <1>1, <1>3, <1>4 DEF EchoData
<1> QED BY <1>1, <1>2, <1>3, <1>5, <1>6, EchoOne DEF EchoInv

\* It reads once into the buffer that holds its message.
LEMMA EchoReadEcho ==
  ASSUME Net, EchoInv, NEW c \in Clients, E!ReadEcho(c)
  PROVE  Net' /\ EchoInv'
<1>1. /\ Client(c, "read", "print") /\ UNCHANGED <<spc, sdata, causes>>
      /\ cpc[c] = "read" /\ cpc' = [cpc EXCEPT ![c] = "print"]
      /\ \/ \E piece \in Received(c, "client", Size) :
              /\ cdata' = [cdata EXCEPT ![c].buffer = Overlaid(@, piece)]
              /\ conn' = Read(c, "client", piece)
         \/ UNCHANGED <<conn, cdata>>
  BY SameE, SameStrings DEF E!ReadEcho, Client, server
<1>2. EchoData(c) /\ EchoWire(c) /\ EchoRead(c) /\ conn \in Conns
  BY DEF EchoInv, Net
<1>3. cpc'[c] = "print" /\ \A d \in Clients \ {c} : cpc'[d] = cpc[d]
  BY <1>1 DEF Net
<1>4. \A k : Excused(c, k) => Excused(c, k)'
  BY <1>1, ExcusedKeeps
<1>5. cdata[c].buffer = Full(c) /\ cdata[c].printed = <<>>
  BY <1>1, <1>2 DEF EchoData
<1>6. CASE UNCHANGED <<conn, cdata>>
  <2>1. Net'
    BY <1>1, <1>6, NetClientMoves DEF Moving, Controls
  <2>2. PICK k \in 0..Len(Text[c]) : k = Len(Text[c]) /\ Holds(Full(c), c, k)
    BY FullFacts
  <2>3. Excused(c, k)'
    BY <2>2, WholeExcused
  <2>4. EchoData(c)'
    <3>1. Holds(cdata'[c].buffer, c, k)
      BY <1>5, <1>6, <2>2
    <3> QED BY <1>3, <1>5, <1>6, <2>3, <3>1 DEF EchoData, Holds
  <2>5. EchoWire(c)' /\ EchoRead(c)' /\ Others(c)
    BY <1>1, <1>2, <1>3, <1>4, <1>6 DEF EchoWire, EchoRead, InUse, OpenEnds, Others
  <2> QED BY <1>1, <1>3, <1>6, <2>1, <2>4, <2>5, EchoOne DEF EchoInv
<1>7. CASE \E piece \in Received(c, "client", Size) :
             /\ cdata' = [cdata EXCEPT ![c].buffer = Overlaid(@, piece)]
             /\ conn' = Read(c, "client", piece)
  <2>1. PICK piece \in Received(c, "client", Size) :
             /\ cdata' = [cdata EXCEPT ![c].buffer = Overlaid(@, piece)]
             /\ conn' = Read(c, "client", piece)
    BY <1>7
  <2>2. Net'
    BY <1>1, <2>1, TextFits, NetClientMoves DEF Moving, Controls
  <2>3. /\ Others(c) /\ conn'[c].client = conn[c].client
        /\ conn'[c].server.state = conn[c].server.state
        /\ Unread(c, "client") = conn[c].server.out
        /\ \E n \in 1..Len(Unread(c, "client")) : piece = SubSeq(Unread(c, "client"), 1, n)
    BY <1>2, <2>1, TextFits, ReadEffect DEF Sides, Peer, Unread
  <2>4. PICK k \in 0..Len(Text[c]) : Part(conn[c].server.out, Echoed(c, k)) /\ Excused(c, k)
    BY <1>1, <1>2 DEF EchoWire
  <2>5. Part(piece, Echoed(c, k))
    <3>1. PICK out : out = conn[c].server.out
      OBVIOUS
    <3>2. Part(out, Echoed(c, k)) /\ Part(piece, out)
      BY <2>3, <2>4, <3>1, PartRead
    <3> QED BY <3>2, EchoedType, PartOfPart
  <2>6. PICK b \in Buffers : b = Overlaid(Full(c), piece)
    BY <2>5, EchoHolds
  <2>7. PICK j \in 0..Len(Text[c]) : Holds(b, c, j) /\ (j = k \/ j = Len(Text[c]))
    <3>1. Holds(b, c, k) \/ Holds(b, c, Len(Text[c]))
      BY <2>5, <2>6, EchoHolds
    <3>2. Len(Text[c]) \in 0..Len(Text[c])
      BY FullFacts
    <3> QED BY <3>1, <3>2
  <2>8. Excused(c, j)'
    BY <1>4, <2>4, <2>7, WholeExcused
  <2>9. cdata' = [cdata EXCEPT ![c].buffer = b]
    BY <1>5, <2>1, <2>6 DEF EchoInv
  <2>10. /\ cdata' \in [Clients -> [buffer : Buffers, printed : Seq(Items)]]
         /\ cdata'[c].buffer = b /\ cdata'[c].printed = <<>>
         /\ \A d \in Clients \ {c} : cdata'[d] = cdata[d]
    BY <1>5, <2>9 DEF EchoInv
  <2>11. EchoData(c)'
    BY <1>3, <2>7, <2>8, <2>10 DEF EchoData, Holds
  <2>12. conn[c].server.out # <<>>
    BY <2>3
  <2>13. EchoWire(c)' /\ EchoRead(c)'
    BY <1>1, <1>2, <1>3, <1>4, <2>3, <2>12 DEF EchoWire, EchoRead, InUse, OpenEnds, Holds
  <2> QED BY <1>1, <1>3, <2>2, <2>3, <2>10, <2>11, <2>13, EchoOne
<1> QED BY <1>1, <1>6, <1>7

\* It prints the string its buffer holds.
LEMMA EchoPrints ==
  ASSUME Net, EchoInv, NEW c \in Clients, E!PrintEcho(c)
  PROVE  Net' /\ EchoInv'
<1>1. /\ Client(c, "print", "done") /\ Close(c, "client") /\ UNCHANGED <<spc, sdata, causes>>
      /\ cdata' = [cdata EXCEPT ![c].printed = String(cdata[c].buffer)]
      /\ cpc[c] = "print" /\ cpc' = [cpc EXCEPT ![c] = "done"]
  BY SameE, SameStrings DEF E!PrintEcho, Client, server
<1>2. Net'
  BY <1>1, NetClientCloses DEF Moving, Controls
<1>3. cpc'[c] = "done" /\ \A d \in Clients \ {c} : cpc'[d] = cpc[d]
  BY <1>1 DEF Net
<1>4. conn[c].client.state \in {"open", "reset"} /\ EchoWire(c) /\ EchoRead(c) /\ EchoData(c)
  BY <1>1 DEF Net, Sockets, Active, Ended, EchoInv
<1>5. Others(c) /\ EchoWire(c)' /\ EchoRead(c)'
  BY <1>1, <1>3, <1>4, EchoClientCloses
<1>6. PICK k \in 0..Len(Text[c]) : Holds(cdata[c].buffer, c, k) /\ Excused(c, k)
  BY <1>1, <1>4 DEF EchoData
<1>7. PICK b \in Buffers : b = cdata[c].buffer
  BY DEF EchoInv
<1>8. PICK p \in Seq(Items) : p = SubSeq(Text[c], 1, k)
  BY EchoedType
<1>9. String(b) = p
  <2>1. Fits(Text[c]) /\ Holds(b, c, k)
    BY <1>6, <1>7, TextFits
  <2>2. b[k + 1] = "nul" /\ \A i \in 1..k : b[i] = Text[c][i]
    BY <2>1 DEF Holds
  <2> QED BY <1>8, <2>1, <2>2, StringIs
<1>10. cdata' = [cdata EXCEPT ![c].printed = p]
  BY <1>1, <1>7, <1>9
<1>11. /\ cdata' \in [Clients -> [buffer : Buffers, printed : Seq(Items)]]
       /\ cdata'[c].printed = p /\ \A d \in Clients \ {c} : cdata'[d] = cdata[d]
  BY <1>10 DEF EchoInv
<1>12. Excused(c, k)'
  BY <1>1, <1>6, ExcusedKeeps
<1>13. EchoData(c)'
  BY <1>3, <1>8, <1>11, <1>12 DEF EchoData
<1> QED BY <1>1, <1>2, <1>3, <1>5, <1>11, <1>13, EchoOne

LEMMA EchoFault ==
  ASSUME Net, EchoInv, NEW c \in Clients, NetworkFails(c)
  PROVE  Net' /\ EchoInv'
<1>1. /\ UNCHANGED <<spc, sdata, cpc, cdata>> /\ Net'
      /\ \A d \in Clients : causes[d] \subseteq causes'[d]
  BY NetFault DEF NetworkFails, server, Blame
<1>2. /\ Others(c) /\ conn[c].client.state = "open" /\ conn[c].server.state = "open"
      /\ conn'[c].client.state = "reset" /\ conn'[c].server.state = "reset"
      /\ Part(conn'[c].client.out, conn[c].client.out)
      /\ Part(conn'[c].server.out, conn[c].server.out)
  BY NetworkEffect DEF Net
<1>3. EchoData(c) /\ EchoWire(c) /\ EchoRead(c)
  BY DEF EchoInv
<1>4. EchoData(c)' /\ \A k : Excused(c, k) => Excused(c, k)'
  BY <1>1, <1>3, EchoDataKeeps, ExcusedKeeps
<1>5. EchoRead(c)' /\ InUse(c) /\ InUse(c)'
  BY <1>1, <1>2, <1>3 DEF EchoRead, InUse, OpenEnds, Holds
<1>6. PICK x, x2, y, y2 : /\ x = conn[c].client.out /\ x2 = conn'[c].client.out
                          /\ y = conn[c].server.out /\ y2 = conn'[c].server.out
  OBVIOUS
<1>7. /\ Part(x, Full(c)) => Part(x2, Full(c))
      /\ x = <<>> => x2 = <<>>
      /\ y = <<>> => y2 = <<>>
      /\ \A k \in 0..Len(Text[c]) : Part(y, Echoed(c, k)) => Part(y2, Echoed(c, k))
  BY <1>2, <1>6, FullFacts, EchoedType, PartOfPart, PartOfNothing
<1>8. EchoWire(c)'
  BY <1>1, <1>2, <1>3, <1>4, <1>5, <1>6, <1>7 DEF EchoWire
<1> QED BY <1>1, <1>2, <1>4, <1>5, <1>8, EchoOne DEF EchoInv

LEMMA EchoInit ==
  ASSUME E!Init PROVE Net /\ EchoInv
<1>1. /\ listening = FALSE /\ spc = "start" /\ sdata = E!Garbage
      /\ conn = [c \in Clients |-> [client |-> None, server |-> None]]
      /\ cpc = [c \in Clients |-> "start"]
      /\ cdata = [c \in Clients |-> [buffer |-> Full(c), printed |-> <<>>]]
      /\ causes = [c \in Clients |-> {}]
  BY SameStrings DEF E!Init, E!PairInit, E!None, None, Full
<1>2. Net
  BY <1>1, NetInit
<1>3. sdata \in Buffers /\ cdata \in [Clients -> [buffer : Buffers, printed : Seq(Items)]]
  <2>1. \A c \in Clients : Full(c) \in Buffers /\ E!Garbage \in Buffers
    BY FullFacts
  <2>2. E!Garbage \in Buffers
    BY MarksAreItems DEF E!Garbage, Buffers
  <2> QED BY <1>1, <2>1, <2>2, EmptySeq
<1>4. ASSUME NEW c \in Clients PROVE EchoData(c) /\ EchoWire(c) /\ EchoRead(c)
  <2>1. /\ conn[c].client.out = <<>> /\ conn[c].server.out = <<>>
        /\ cdata[c].buffer = Full(c) /\ cdata[c].printed = <<>> /\ cpc[c] = "start"
    BY <1>1 DEF None
  <2>2. Part(<<>>, Full(c)) /\ \E k \in 0..Len(Text[c]) : Part(<<>>, Echoed(c, k)) /\ Excused(c, k)
    BY FullFacts, PartSelf, EchoNothing
  <2> QED BY <1>1, <2>1, <2>2 DEF EchoData, EchoWire, EchoRead
<1> QED BY <1>1, <1>2, <1>3, <1>4 DEF EchoInv

LEMMA EchoNext ==
  ASSUME Net, EchoInv, E!ServerStep \/ \E c \in Clients : E!ClientStep(c) \/ NetworkFails(c)
  PROVE  Net' /\ EchoInv'
<1>1. CASE E!ServerStep
  BY <1>1, EchoServerMoves, EchoAccept, EchoReadOnce, EchoWriteBack, EchoWriteFails,
     EchoCloseServer DEF E!ServerStep
<1>2. ASSUME NEW c \in Clients, E!ClientStep(c) PROVE Net' /\ EchoInv'
  BY <1>2, EchoStarts, EchoWrites, EchoFails, EchoReadEcho, EchoPrints DEF E!ClientStep
<1>3. ASSUME NEW c \in Clients, NetworkFails(c) PROVE Net' /\ EchoInv'
  BY <1>3, EchoFault
<1> QED BY <1>1, <1>2, <1>3

-----------------------------------------------------------------------------
(* The message of Preparation.                                             *)

Wire      == Append(MESSAGE, "nul")
Begins(b) == /\ \A i \in 1..Len(MESSAGE) : b[i] = MESSAGE[i]
             /\ b[Len(MESSAGE) + 1] = "nul"
\* All that goes either way is a beginning of the message.
MessageClient(c) ==
  /\ Part(cdata[c], Wire)
  /\ cpc[c] \in {"start", "read", "write"} => conn[c].client.out = <<>>
  /\ Part(conn[c].client.out, Wire) \/ (spc = "compare" /\ InUse(c))
  /\ cpc[c] \in {"start", "read"} => Part(conn[c].server.out, Wire)
  /\ InUse(c) /\ spc = "write" => conn[c].server.out = <<>>
MessageInv ==
  /\ sdata \in [buffer : Buffers, verdicts : SUBSET {"match"}]
  /\ cdata \in [Clients -> Seq(Items)]
  /\ spc \in {"write", "read", "compare"} => Begins(sdata.buffer)
  /\ \A c \in Clients : MessageClient(c)

LEMMA WireFacts ==
  /\ Fits(MESSAGE) /\ MESSAGE \in Seq(Items) /\ Len(MESSAGE) \in Nat /\ Size \in Nat
  /\ Len(MESSAGE) + 1 <= Size
  /\ Wire \in Seq(Items) /\ Len(Wire) = Len(MESSAGE) + 1
  /\ \A i \in 1..Len(MESSAGE) : Wire[i] = MESSAGE[i]
  /\ Wire[Len(MESSAGE) + 1] = "nul"
  /\ Part(<<>>, Wire) /\ Part(Wire, Wire)
<1>1. Fits(MESSAGE) /\ Size \in Nat
  BY TextFits
<1>2. MESSAGE \in Seq(Items) /\ Len(MESSAGE) + 1 <= Size
  BY <1>1 DEF Fits
<1>3. /\ Wire \in Seq(Items) /\ Len(Wire) = Len(MESSAGE) + 1
      /\ \A i \in 1..Len(MESSAGE) : Wire[i] = MESSAGE[i]
      /\ Wire[Len(MESSAGE) + 1] = "nul" /\ Len(MESSAGE) \in Nat
  BY <1>2, WithNul DEF Wire
<1>4. Part(<<>>, Wire) /\ Part(Wire, Wire)
  BY <1>3, PartSelf
<1> QED BY <1>1, <1>2, <1>3, <1>4

LEMMA BeginsString ==
  ASSUME NEW b \in Buffers, Begins(b)
  PROVE  String(b) = MESSAGE /\ Append(String(b), "nul") = Wire
<1>1. PICK k \in 0..Len(MESSAGE) : k = Len(MESSAGE)
  BY WireFacts
<1>2. b[k + 1] = "nul" /\ \A i \in 1..k : b[i] = MESSAGE[i]
  BY <1>1 DEF Begins
<1>3. String(b) = SubSeq(MESSAGE, 1, k)
  BY <1>2, WireFacts, StringIs
<1>4. SubSeq(MESSAGE, 1, Len(MESSAGE)) = MESSAGE
  BY WireFacts, SubSeqFull
<1> QED BY <1>1, <1>3, <1>4 DEF Wire

\* What comes back overwrites the message with a part of itself.
LEMMA BeginsOverlaid ==
  ASSUME NEW b \in Buffers, Begins(b), NEW piece, Part(piece, Wire)
  PROVE  Overlaid(b, piece) \in Buffers /\ Begins(Overlaid(b, piece))
<1>0. PICK m \in Nat : m = Len(MESSAGE)
  BY WireFacts
<1>1. /\ piece \in Seq(Items) /\ Len(piece) \in Nat /\ Len(piece) <= m + 1
      /\ \A i \in 1..Len(piece) : piece[i] = Wire[i]
  BY <1>0, WireFacts, PartFacts
<1>2. PICK l \in Nat : l = Len(piece)
  BY <1>1
<1>3. PICK o \in Buffers : o = Overlaid(b, piece)
  BY <1>1, OverlaidFacts
<1>4. \A i \in 1..Size : o[i] = IF i <= l THEN piece[i] ELSE b[i]
  BY <1>1, <1>2, <1>3, OverlaidFacts
<1>5. \A i \in 1..(m + 1) : i \in 1..Size /\ b[i] = Wire[i]
  <2>1. m + 1 <= Size /\ Size \in Nat /\ Wire[m + 1] = "nul" /\ b[m + 1] = "nul"
        /\ \A i \in 1..m : b[i] = MESSAGE[i] /\ Wire[i] = MESSAGE[i]
    BY <1>0, WireFacts DEF Begins
  <2>2. \A i \in 1..(m + 1) : i \in 1..Size /\ (i \in 1..m \/ i = m + 1)
    BY <2>1
  <2> QED BY <2>1, <2>2
<1>6. \A i \in 1..(m + 1) : o[i] = Wire[i]
  <2>1. \A i \in 1..(m + 1) : i <= l => i \in 1..Len(piece)
    BY <1>2
  <2> QED BY <1>1, <1>4, <1>5, <2>1
<1>7. Begins(o)
  <2>1. (\A i \in 1..m : i \in 1..(m + 1)) /\ m + 1 \in 1..(m + 1)
    OBVIOUS
  <2>2. Wire[m + 1] = "nul" /\ \A i \in 1..m : Wire[i] = MESSAGE[i]
    BY <1>0, WireFacts
  <2> QED BY <1>0, <1>6, <2>1, <2>2 DEF Begins
<1> QED BY <1>3, <1>7

LEMMA MessageKeeps ==
  ASSUME NEW c \in Clients, MessageClient(c), conn'[c] = conn[c], cpc'[c] = cpc[c],
         cdata'[c] = cdata[c], ~InUse(c) \/ spc' = spc
  PROVE  MessageClient(c)'
BY DEF MessageClient, InUse

LEMMA MessageServerCloses ==
  ASSUME NEW c \in Clients, MessageClient(c), ServerCloses(c),
         cpc'[c] = cpc[c], cdata'[c] = cdata[c], spc' \in {"accept", "ended"}
  PROVE  MessageClient(c)'
<1>1. CASE conn[c].server.state \in {"none", "closed"}
  <2>1. conn'[c] = conn[c] /\ ~InUse(c)
    BY <1>1 DEF ServerCloses, InUse
  <2> QED BY <2>1, MessageKeeps
<1>2. CASE conn[c].server.state \notin {"none", "closed"}
  <2>1. /\ conn'[c].server.state = "closed" /\ Part(conn'[c].server.out, conn[c].server.out)
        /\ conn'[c].client.out = <<>>
    BY <1>2 DEF ServerCloses
  <2>2. PICK x, y : x = conn[c].server.out /\ y = conn'[c].server.out
    OBVIOUS
  <2>3. Part(x, Wire) => Part(y, Wire)
    BY <2>1, <2>2, WireFacts, PartOfPart
  <2> QED BY <2>1, <2>2, <2>3, WireFacts DEF MessageClient
<1> QED BY <1>1, <1>2

LEMMA MessageServerMoves ==
  ASSUME Net, MessageInv, M!ServerStart \/ M!ServerFails
  PROVE  Net' /\ MessageInv'
<1>1. CASE M!ServerStart
  <2>1. /\ Server("start", "accept") /\ spc = "start" /\ spc' = "accept" /\ listening' = TRUE
        /\ UNCHANGED <<conn, sdata, causes, cpc, cdata>>
    BY <1>1, SameM DEF M!ServerStart, Server
  <2>2. Net'
    BY <2>1, NetServerStart
  <2>3. \A c \in Clients : ~InUse(c)
    BY <2>1 DEF Net, Single, Idle
  <2>4. \A c \in Clients : MessageClient(c)'
    BY <2>1, <2>3, MessageKeeps DEF MessageInv
  <2> QED BY <2>1, <2>2, <2>4 DEF MessageInv
<1>2. CASE M!ServerFails
  <2>1. spc' = "ended" /\ CloseAll({}) /\ UNCHANGED <<sdata, cpc, cdata>>
    BY <1>2, SameM DEF M!ServerFails, Server
  <2>2. \A c \in Clients : MessageClient(c)'
    BY <2>1, CloseAllEffect, MessageServerCloses DEF MessageInv
  <2> QED BY <2>1, <2>2, NetCloseAll DEF MessageInv
<1> QED BY <1>1, <1>2

LEMMA MessageOthers ==
  ASSUME Net, MessageInv, NEW c \in Clients, Others(c), InUse(c), UNCHANGED <<cpc, cdata>>
  PROVE  \A d \in Clients \ {c} : MessageClient(d)'
<1>1. \A d \in Clients \ {c} : ~InUse(d)
  BY DEF Net, Single
<1> QED BY <1>1, MessageKeeps DEF MessageInv, Others

LEMMA MessageAccept ==
  ASSUME Net, MessageInv, NEW c \in Clients, M!Accept(c)
  PROVE  Net' /\ MessageInv'
<1>1. /\ Queued(c) /\ Server("accept", "write") /\ spc = "accept" /\ spc' = "write"
      /\ conn' = Accepted(c) /\ sdata' = [sdata EXCEPT !.buffer = Stored(@, MESSAGE)]
      /\ UNCHANGED <<listening, causes, cpc, cdata>>
  BY SameM, SameStrings DEF M!Accept, Server
<1>2. Net'
  BY <1>1, NetAccept DEF Busy
<1>3. /\ Others(c) /\ conn'[c].client = conn[c].client
      /\ conn'[c].server.state = "open" /\ conn'[c].server.out = conn[c].server.out
  BY <1>1, AcceptEffect DEF Net
<1>4. \A d \in Clients : ~InUse(d)
  BY <1>1 DEF Net, Single, Idle
<1>5. \A d \in Clients \ {c} : MessageClient(d)'
  BY <1>1, <1>3, <1>4, MessageKeeps DEF MessageInv, Others
<1>6. conn[c].server.out = <<>> /\ MessageClient(c)
  BY <1>1 DEF Net, Sockets, MessageInv
<1>7. MessageClient(c)'
  BY <1>1, <1>3, <1>4, <1>6 DEF MessageClient
<1>8. PICK b \in Buffers : b = sdata.buffer
  BY DEF MessageInv
<1>9. PICK o \in Buffers : o = Stored(b, MESSAGE)
  BY WireFacts, StoredFacts
<1>10. Begins(o)
  BY <1>9, WireFacts, StoredFacts DEF Begins
<1>11. sdata' = [sdata EXCEPT !.buffer = o]
  BY <1>1, <1>8, <1>9 DEF MessageInv
<1>12. sdata' \in [buffer : Buffers, verdicts : SUBSET {"match"}] /\ sdata'.buffer = o
  BY <1>11 DEF MessageInv
<1> QED BY <1>1, <1>2, <1>5, <1>7, <1>10, <1>12 DEF MessageInv, Begins

LEMMA MessageWrites ==
  ASSUME Net, MessageInv, NEW c \in Clients, M!WriteMessage(c)
  PROVE  Net' /\ MessageInv'
<1>1. /\ c \in Served /\ Server("write", "read") /\ spc = "write" /\ spc' = "read"
      /\ CanWrite(c, "server")
      /\ conn' = Written(c, "server", Append(String(sdata.buffer), "nul"))
      /\ UNCHANGED <<listening, sdata, causes, cpc, cdata>>
  BY SameM, SameStrings DEF M!WriteMessage, Server
<1>2. InUse(c) /\ MessageClient(c) /\ conn \in Conns
  BY <1>1 DEF Served, InUse, MessageInv, Net
<1>3. PICK b \in Buffers : b = sdata.buffer
  BY DEF MessageInv
<1>4. Begins(b)
  BY <1>1, <1>3 DEF MessageInv
<1>5. PICK data \in Seq(Items) : data = Wire
  BY WireFacts
<1>6. conn' = Written(c, "server", data)
  BY <1>1, <1>3, <1>4, <1>5, BeginsString
<1>7. Net'
  BY <1>1, <1>6, NetServerMoves DEF Busy
<1>8. /\ Others(c) /\ conn'[c].client = conn[c].client
      /\ conn'[c].server.out \in {conn[c].server.out \o data, conn[c].server.out}
  <2>1. "server" \in Sides /\ Peer("server") = "client"
    BY DEF Sides, Peer
  <2> QED BY <1>2, <1>6, <2>1, WriteEffect
<1>9. conn[c].server.out = <<>> /\ <<>> \o data = data
  BY <1>1, <1>2, ConcatEmptySeq DEF MessageClient
<1>10. Part(conn'[c].server.out, Wire)
  BY <1>5, <1>8, <1>9, WireFacts
<1>11. MessageClient(c)'
  BY <1>1, <1>2, <1>8, <1>10 DEF MessageClient
<1>12. \A d \in Clients \ {c} : MessageClient(d)'
  BY <1>1, <1>2, <1>8, MessageOthers
<1> QED BY <1>1, <1>7, <1>11, <1>12 DEF MessageInv

LEMMA MessageWriteFails ==
  ASSUME Net, MessageInv, NEW c \in Clients, M!WriteFails(c)
  PROVE  Net' /\ MessageInv'
<1>1. /\ c \in Served /\ UNCHANGED <<sdata, cpc, cdata>>
      /\ \/ /\ Server("write", "read") /\ spc = "write" /\ spc' = "read"
            /\ UNCHANGED <<listening, conn, causes>>
         \/ spc' = "ended" /\ CloseAll({})
  BY SameM DEF M!WriteFails, Server
<1>2. CASE /\ Server("write", "read") /\ spc = "write" /\ spc' = "read"
           /\ UNCHANGED <<listening, conn, causes>>
  <2>1. Net'
    BY <1>2, NetServerMoves DEF Busy
  <2>2. InUse(c) /\ Others(c) /\ MessageClient(c)
    BY <1>1, <1>2 DEF Served, InUse, Others, MessageInv
  <2>3. MessageClient(c)'
    BY <1>1, <1>2, <2>2 DEF MessageClient
  <2>4. \A d \in Clients \ {c} : MessageClient(d)'
    BY <1>1, <1>2, <2>2, MessageOthers
  <2> QED BY <1>1, <1>2, <2>1, <2>3, <2>4 DEF MessageInv
<1>3. CASE spc' = "ended" /\ CloseAll({})
  <2>1. \A d \in Clients : MessageClient(d)'
    BY <1>1, <1>3, CloseAllEffect, MessageServerCloses DEF MessageInv
  <2> QED BY <1>1, <1>3, <2>1, NetCloseAll DEF MessageInv
<1> QED BY <1>1, <1>2, <1>3

\* The server's one read: over the message it has sent.
LEMMA MessageReadBack ==
  ASSUME Net, MessageInv, NEW c \in Clients, M!ReadBack(c)
  PROVE  Net' /\ MessageInv'
<1>1. /\ c \in Served /\ Server("read", "compare") /\ spc = "read" /\ spc' = "compare"
      /\ UNCHANGED <<listening, causes, cpc, cdata>>
      /\ \/ \E piece \in Received(c, "server", Size) :
              /\ sdata' = [sdata EXCEPT !.buffer = Overlaid(@, piece)]
              /\ conn' = Read(c, "server", piece)
         \/ UNCHANGED <<sdata, conn>>
  BY SameM, SameStrings DEF M!ReadBack, Server
<1>2. InUse(c) /\ MessageClient(c) /\ conn \in Conns
  BY <1>1 DEF Served, InUse, MessageInv, Net
<1>3. CASE UNCHANGED <<sdata, conn>>
  <2>1. Net'
    BY <1>1, <1>3, NetServerMoves DEF Busy
  <2>2. MessageClient(c)' /\ Others(c)
    BY <1>1, <1>2, <1>3 DEF MessageClient, InUse, Others
  <2>3. \A d \in Clients \ {c} : MessageClient(d)'
    BY <1>1, <1>2, <2>2, MessageOthers
  <2> QED BY <1>1, <1>3, <2>1, <2>2, <2>3 DEF MessageInv
<1>4. CASE \E piece \in Received(c, "server", Size) :
             /\ sdata' = [sdata EXCEPT !.buffer = Overlaid(@, piece)]
             /\ conn' = Read(c, "server", piece)
  <2>1. PICK piece \in Received(c, "server", Size) :
             /\ sdata' = [sdata EXCEPT !.buffer = Overlaid(@, piece)]
             /\ conn' = Read(c, "server", piece)
    BY <1>4
  <2>2. Net'
    BY <1>1, <2>1, WireFacts, NetServerMoves DEF Busy
  <2>3. /\ Others(c) /\ conn'[c].server = conn[c].server
        /\ Unread(c, "server") = conn[c].client.out
        /\ \E n \in 1..Len(Unread(c, "server")) : piece = SubSeq(Unread(c, "server"), 1, n)
    BY <1>2, <2>1, WireFacts, ReadEffect DEF Sides, Peer, Unread
  <2>4. Part(piece, Wire)
    <3>1. PICK out : out = conn[c].client.out
      OBVIOUS
    <3>2. Part(out, Wire) /\ Part(piece, out)
      BY <1>1, <1>2, <2>3, <3>1, PartRead DEF MessageClient
    <3> QED BY <3>2, WireFacts, PartOfPart
  <2>5. PICK b \in Buffers : b = sdata.buffer
    BY DEF MessageInv
  <2>6. PICK o \in Buffers : o = Overlaid(b, piece) /\ Begins(o)
    <3>1. Begins(b)
      BY <1>1, <2>5 DEF MessageInv
    <3> QED BY <2>4, <3>1, BeginsOverlaid
  <2>7. sdata' = [sdata EXCEPT !.buffer = o]
    BY <2>1, <2>5, <2>6 DEF MessageInv
  <2>8. sdata' \in [buffer : Buffers, verdicts : SUBSET {"match"}] /\ sdata'.buffer = o
    BY <2>7 DEF MessageInv
  <2>9. conn[c].client.out # <<>>
    BY <2>3
  <2>10. MessageClient(c)'
    BY <1>1, <1>2, <2>3, <2>9 DEF MessageClient, InUse
  <2>11. \A d \in Clients \ {c} : MessageClient(d)'
    BY <1>1, <1>2, <2>3, MessageOthers
  <2> QED BY <1>1, <2>2, <2>6, <2>8, <2>10, <2>11 DEF MessageInv, Begins
<1> QED BY <1>1, <1>3, <1>4

LEMMA MessageCompares ==
  ASSUME Net, MessageInv, NEW c \in Clients, M!Compare(c)
  PROVE  Net' /\ MessageInv'
<1>1. /\ c \in Served /\ Server("compare", "accept") /\ spc = "compare" /\ spc' = "accept"
      /\ Close(c, "server") /\ UNCHANGED <<listening, causes, cpc, cdata>>
      /\ sdata' = [sdata EXCEPT !.verdicts =
                     @ \union {IF String(sdata.buffer) = MESSAGE THEN "match" ELSE "changed"}]
  BY SameM, SameStrings DEF M!Compare, Server
<1>2. Net'
  BY <1>1, NetServerCloses DEF Busy
<1>3. Others(c) /\ ServerCloses(c) /\ InUse(c)
  BY <1>1, CloseServer DEF Net, Served, InUse
<1>4. PICK b \in Buffers : b = sdata.buffer
  BY DEF MessageInv
<1>5. String(b) = MESSAGE
  BY <1>1, <1>4, BeginsString DEF MessageInv
<1>6. sdata' = [sdata EXCEPT !.verdicts = @ \union {"match"}]
  BY <1>1, <1>4, <1>5
<1>7. sdata' \in [buffer : Buffers, verdicts : SUBSET {"match"}]
  BY <1>6 DEF MessageInv
<1>8. MessageClient(c)'
  BY <1>1, <1>3, MessageServerCloses DEF MessageInv
<1>9. \A d \in Clients \ {c} : MessageClient(d)'
  BY <1>1, <1>3, MessageOthers
<1> QED BY <1>1, <1>2, <1>7, <1>8, <1>9 DEF MessageInv

\* A step of one client, or of the network on its connection.
LEMMA MessageOne ==
  ASSUME MessageInv, NEW c \in Clients, UNCHANGED <<spc, sdata>>, Others(c),
         cdata' \in [Clients -> Seq(Items)],
         \A d \in Clients \ {c} : cpc'[d] = cpc[d] /\ cdata'[d] = cdata[d],
         MessageClient(c)'
  PROVE  MessageInv'
<1>1. \A d \in Clients \ {c} : MessageClient(d)'
  BY MessageKeeps DEF MessageInv, Others
<1> QED BY <1>1 DEF MessageInv

LEMMA MessageStarts ==
  ASSUME Net, MessageInv, NEW c \in Clients, M!Connect(c) \/ M!CannotStart(c)
  PROVE  Net' /\ MessageInv'
<1>1. MessageClient(c)
  BY DEF MessageInv
<1>2. CASE M!Connect(c)
  <2>1. /\ listening /\ Client(c, "start", "read") /\ conn' = Connected(c)
        /\ UNCHANGED <<spc, sdata, cdata, causes>> /\ cpc[c] = "start"
        /\ cpc' = [cpc EXCEPT ![c] = "read"]
    BY <1>2, SameM DEF M!Connect, Client, server
  <2>2. Net'
    BY <2>1, NetConnect DEF Moving, Controls
  <2>3. cpc'[c] = "read" /\ \A d \in Clients \ {c} : cpc'[d] = cpc[d]
    BY <2>1 DEF Net
  <2>4. /\ Others(c) /\ conn'[c].client.out = <<>>
        /\ conn'[c].server.state = "queued" /\ conn'[c].server.out = <<>>
    BY <2>1, ConnectEffect DEF Net
  <2>5. MessageClient(c)'
    BY <1>1, <2>1, <2>3, <2>4, WireFacts DEF MessageClient, InUse
  <2> QED BY <2>1, <2>2, <2>3, <2>4, <2>5, MessageOne DEF MessageInv
<1>3. CASE M!CannotStart(c)
  <2>1. /\ Client(c, "start", "failed") /\ UNCHANGED <<conn, spc, sdata, cdata, causes>>
        /\ cpc[c] = "start" /\ cpc' = [cpc EXCEPT ![c] = "failed"]
    BY <1>3, SameM DEF M!CannotStart, Client, server
  <2>2. Net'
    BY <2>1, NetCannotStart
  <2>3. cpc'[c] = "failed" /\ \A d \in Clients \ {c} : cpc'[d] = cpc[d]
    BY <2>1 DEF Net
  <2>4. MessageClient(c)' /\ Others(c)
    BY <1>1, <2>1, <2>3 DEF MessageClient, InUse, Others
  <2> QED BY <2>1, <2>2, <2>3, <2>4, MessageOne DEF MessageInv
<1> QED BY <1>2, <1>3

LEMMA MessageReads ==
  ASSUME Net, MessageInv, NEW c \in Clients, M!ReadMessage(c)
  PROVE  Net' /\ MessageInv'
<1>1. /\ Client(c, "read", "write") /\ UNCHANGED <<spc, sdata, causes>>
      /\ cpc[c] = "read" /\ cpc' = [cpc EXCEPT ![c] = "write"]
      /\ \/ \E piece \in Received(c, "client", Size) :
              cdata' = [cdata EXCEPT ![c] = piece] /\ conn' = Read(c, "client", piece)
         \/ UNCHANGED <<conn, cdata>>
  BY SameM DEF M!ReadMessage, Client, server
<1>2. MessageClient(c) /\ conn \in Conns
  BY DEF MessageInv, Net
<1>3. cpc'[c] = "write" /\ \A d \in Clients \ {c} : cpc'[d] = cpc[d]
  BY <1>1 DEF Net
<1>4. CASE UNCHANGED <<conn, cdata>>
  <2>1. Net'
    BY <1>1, <1>4, NetClientMoves DEF Moving, Controls
  <2>2. MessageClient(c)' /\ Others(c)
    BY <1>1, <1>2, <1>3, <1>4 DEF MessageClient, InUse, Others
  <2> QED BY <1>1, <1>3, <1>4, <2>1, <2>2, MessageOne DEF MessageInv
<1>5. CASE \E piece \in Received(c, "client", Size) :
             cdata' = [cdata EXCEPT ![c] = piece] /\ conn' = Read(c, "client", piece)
  <2>1. PICK piece \in Received(c, "client", Size) :
             cdata' = [cdata EXCEPT ![c] = piece] /\ conn' = Read(c, "client", piece)
    BY <1>5
  <2>2. Net'
    BY <1>1, <2>1, WireFacts, NetClientMoves DEF Moving, Controls
  <2>3. /\ Others(c) /\ conn'[c].client = conn[c].client
        /\ conn'[c].server.state = conn[c].server.state
        /\ Unread(c, "client") = conn[c].server.out
        /\ \E n \in 1..Len(Unread(c, "client")) : piece = SubSeq(Unread(c, "client"), 1, n)
    BY <1>2, <2>1, WireFacts, ReadEffect DEF Sides, Peer, Unread
  <2>4. Part(piece, Wire) /\ piece \in Seq(Items)
    <3>1. PICK out : out = conn[c].server.out
      OBVIOUS
    <3>2. Part(out, Wire) /\ Part(piece, out)
      BY <1>1, <1>2, <2>3, <3>1, PartRead DEF MessageClient
    <3> QED BY <3>2, WireFacts, PartOfPart, PartFacts
  <2>5. /\ cdata' \in [Clients -> Seq(Items)] /\ cdata'[c] = piece
        /\ \A d \in Clients \ {c} : cdata'[d] = cdata[d]
    BY <2>1, <2>4 DEF MessageInv
  <2>6. conn[c].server.out # <<>>
    BY <2>3
  <2>7. MessageClient(c)'
    BY <1>1, <1>2, <1>3, <2>3, <2>4, <2>5, <2>6 DEF MessageClient, InUse
  <2> QED BY <1>1, <1>3, <2>2, <2>3, <2>5, <2>7, MessageOne
<1> QED BY <1>1, <1>4, <1>5

\* The client writes back what it has read, or cannot.
LEMMA MessageWritesBack ==
  ASSUME Net, MessageInv, NEW c \in Clients, M!WriteSame(c)
  PROVE  Net' /\ MessageInv'
<1>1. /\ Client(c, "write", "close") /\ CanWrite(c, "client")
      /\ UNCHANGED <<spc, sdata, cdata, causes>>
      /\ cpc[c] = "write" /\ cpc' = [cpc EXCEPT ![c] = "close"]
      /\ conn' = Written(c, "client", cdata[c])
  BY SameM DEF M!WriteSame, Client, server
<1>2. MessageClient(c) /\ conn \in Conns
  BY DEF MessageInv, Net
<1>3. cpc'[c] = "close" /\ \A d \in Clients \ {c} : cpc'[d] = cpc[d]
  BY <1>1 DEF Net
<1>4. PICK data \in Seq(Items) : data = cdata[c]
  BY DEF MessageInv
<1>5. conn' = Written(c, "client", data)
  BY <1>1, <1>4
<1>6. Net'
  BY <1>1, <1>5, NetClientMoves DEF Moving, Controls
<1>7. /\ Others(c) /\ conn'[c].server = conn[c].server
      /\ conn'[c].client.out \in {conn[c].client.out \o data, conn[c].client.out}
  <2>1. "client" \in Sides /\ Peer("client") = "server"
    BY DEF Sides, Peer
  <2> QED BY <1>2, <1>5, <2>1, WriteEffect
<1>8. conn[c].client.out = <<>> /\ <<>> \o data = data
  BY <1>1, <1>2, ConcatEmptySeq DEF MessageClient
<1>9. Part(conn'[c].client.out, Wire)
  BY <1>2, <1>4, <1>7, <1>8, WireFacts DEF MessageClient
<1>10. MessageClient(c)'
  BY <1>1, <1>2, <1>3, <1>7, <1>9 DEF MessageClient, InUse
<1> QED BY <1>1, <1>3, <1>6, <1>7, <1>10, MessageOne DEF MessageInv

LEMMA MessageEnds ==
  ASSUME Net, MessageInv, NEW c \in Clients, M!WriteBroken(c) \/ M!CloseClient(c)
  PROVE  Net' /\ MessageInv'
<1>1. /\ UNCHANGED <<spc, sdata, cdata, causes>>
      /\ \/ Client(c, "write", "close") /\ cpc' = [cpc EXCEPT ![c] = "close"] /\ conn' = conn
         \/ /\ \E from \in Moving, to \in {"done", "failed"} :
                 Client(c, from, to) /\ cpc[c] = from /\ cpc' = [cpc EXCEPT ![c] = to]
            /\ Close(c, "client")
  <2>1. CASE M!CloseClient(c)
    BY <2>1, SameM DEF M!CloseClient, Client, server, Moving, Controls
  <2>2. CASE M!WriteBroken(c)
    <3>1. CASE Client(c, "write", "close")
      <4>1. cpc'[c] = "close"
        BY <3>1 DEF Client, Net
      <4> QED BY <2>2, <3>1, <4>1, SameM DEF M!WriteBroken, Client, server
    <3>2. CASE Client(c, "write", "failed")
      <4>1. cpc'[c] = "failed"
        BY <3>2 DEF Client, Net
      <4> QED BY <2>2, <3>2, <4>1, SameM DEF M!WriteBroken, Client, server, Moving, Controls
    <3> QED BY <2>2, <3>1, <3>2, SameM DEF M!WriteBroken
  <2> QED BY <2>1, <2>2
<1>2. MessageClient(c)
  BY DEF MessageInv
<1>3. CASE Client(c, "write", "close") /\ cpc' = [cpc EXCEPT ![c] = "close"] /\ conn' = conn
  <2>1. Net'
    BY <1>3, NetClientMoves DEF Moving, Controls
  <2>2. cpc'[c] = "close" /\ \A d \in Clients \ {c} : cpc'[d] = cpc[d]
    BY <1>3 DEF Net
  <2>3. MessageClient(c)' /\ Others(c)
    BY <1>1, <1>2, <1>3, <2>2 DEF MessageClient, InUse, Others
  <2> QED BY <1>1, <2>1, <2>2, <2>3, MessageOne DEF MessageInv
<1>4. CASE /\ \E from \in Moving, to \in {"done", "failed"} :
                Client(c, from, to) /\ cpc[c] = from /\ cpc' = [cpc EXCEPT ![c] = to]
           /\ Close(c, "client")
  <2>1. PICK from \in Moving, to \in {"done", "failed"} :
          Client(c, from, to) /\ cpc[c] = from /\ cpc' = [cpc EXCEPT ![c] = to]
    BY <1>4
  <2>2. Net'
    BY <1>4, <2>1, NetClientCloses
  <2>3. cpc'[c] = to /\ \A d \in Clients \ {c} : cpc'[d] = cpc[d]
    BY <2>1 DEF Net
  <2>4. conn[c].client.state \in {"open", "reset"} /\ Sockets(c)
    BY <2>1 DEF Net, Sockets, Active, Ended, Moving
  <2>5. /\ Others(c) /\ conn'[c].client.state = "closed"
        /\ Part(conn'[c].client.out, conn[c].client.out) /\ conn'[c].server.out = <<>>
        /\ \/ conn'[c].server.state = conn[c].server.state
           \/ conn[c].server.state = "open" /\ conn'[c].server.state = "reset"
    BY <1>4, <2>4, CloseClient DEF Net
  <2>6. PICK x, y : x = conn[c].client.out /\ y = conn'[c].client.out
    OBVIOUS
  <2>7. Part(x, Wire) => Part(y, Wire)
    BY <2>5, <2>6, WireFacts, PartOfPart
  <2>8. MessageClient(c)'
    BY <1>1, <1>2, <2>3, <2>5, <2>6, <2>7 DEF MessageClient, InUse
  <2> QED BY <1>1, <2>2, <2>3, <2>5, <2>8, MessageOne DEF MessageInv
<1> QED BY <1>1, <1>3, <1>4

LEMMA MessageFault ==
  ASSUME Net, MessageInv, NEW c \in Clients, NetworkFails(c)
  PROVE  Net' /\ MessageInv'
<1>1. UNCHANGED <<spc, sdata, cpc, cdata>> /\ Net'
  BY NetFault DEF NetworkFails, server
<1>2. /\ Others(c) /\ conn[c].server.state = "open" /\ conn'[c].server.state = "reset"
      /\ Part(conn'[c].client.out, conn[c].client.out)
      /\ Part(conn'[c].server.out, conn[c].server.out)
  BY NetworkEffect DEF Net
<1>3. PICK x, x2, y, y2 : /\ x = conn[c].client.out /\ x2 = conn'[c].client.out
                          /\ y = conn[c].server.out /\ y2 = conn'[c].server.out
  OBVIOUS
<1>4. /\ Part(x, Wire) => Part(x2, Wire)
      /\ Part(y, Wire) => Part(y2, Wire)
      /\ x = <<>> => x2 = <<>>
      /\ y = <<>> => y2 = <<>>
  BY <1>2, <1>3, WireFacts, PartOfPart, PartOfNothing
<1>5. MessageClient(c) /\ InUse(c) /\ InUse(c)'
  BY <1>2 DEF MessageInv, InUse
<1>6. MessageClient(c)'
  BY <1>1, <1>3, <1>4, <1>5 DEF MessageClient
<1> QED BY <1>1, <1>2, <1>6, MessageOne DEF MessageInv

LEMMA MessageInit ==
  ASSUME M!Init PROVE Net /\ MessageInv
<1>1. /\ listening = FALSE /\ spc = "start"
      /\ sdata = [buffer |-> [i \in 1..Size |-> "garbage"], verdicts |-> {}]
      /\ conn = [c \in Clients |-> [client |-> None, server |-> None]]
      /\ cpc = [c \in Clients |-> "start"] /\ cdata = [c \in Clients |-> <<>>]
  BY DEF M!Init, M!PairInit, M!None, None
<1>2. Net
  BY <1>1, NetInit
<1>3. sdata \in [buffer : Buffers, verdicts : SUBSET {"match"}]
  BY <1>1, MarksAreItems DEF Buffers
<1>4. \A c \in Clients : MessageClient(c)
  BY <1>1, WireFacts DEF MessageClient, None
<1>5. cdata \in [Clients -> Seq(Items)]
  BY <1>1, EmptySeq
<1> QED BY <1>1, <1>2, <1>3, <1>4, <1>5 DEF MessageInv

LEMMA MessageNext ==
  ASSUME Net, MessageInv, M!ServerStep \/ \E c \in Clients : M!ClientStep(c) \/ NetworkFails(c)
  PROVE  Net' /\ MessageInv'
<1>1. CASE M!ServerStep
  BY <1>1, MessageServerMoves, MessageAccept, MessageWrites, MessageWriteFails,
     MessageReadBack, MessageCompares DEF M!ServerStep
<1>2. ASSUME NEW c \in Clients, M!ClientStep(c) PROVE Net' /\ MessageInv'
  BY <1>2, MessageStarts, MessageReads, MessageWritesBack, MessageEnds DEF M!ClientStep
<1>3. ASSUME NEW c \in Clients, NetworkFails(c) PROVE Net' /\ MessageInv'
  BY <1>3, MessageFault
<1> QED BY <1>1, <1>2, <1>3

-----------------------------------------------------------------------------
(* All four pairs.                                                         *)

IInv == /\ pair \in {"transfer", "sized", "echo", "message"} /\ Net
        /\ pair = "transfer" => TransferInv
        /\ pair = "sized"    => SizedInv
        /\ pair = "echo"     => EchoInv
        /\ pair = "message"  => MessageInv

LEMMA InitIInv == Init => IInv
BY TransferInit, SizedInit, EchoInit, MessageInit DEF Init, IInv

LEMMA StutterIInv ==
  ASSUME IInv, UNCHANGED <<vars, pair>> PROVE IInv'
<1>1. /\ UNCHANGED <<conn, listening, spc, sdata, cpc, cdata, causes, pair>>
      /\ \A c \in Clients : causes[c] = {} \/ causes'[c] # {}
      /\ \A c \in Clients : causes[c] \subseteq causes'[c]
  BY DEF vars, server
<1>2. Net'
  BY <1>1 DEF IInv, Net, Listens, Single, Idle, InUse, Sockets, Queued, Active, Ended
<1>3. TransferInv => TransferInv'
  <2>1. TransferInv => \A c \in Clients : TransferClient(c)'
    BY <1>1, TransferKeeps DEF TransferInv, Left
  <2> QED BY <1>1, <2>1 DEF TransferInv, Left, Untouched, InUse
<1>4. SizedInv => SizedInv'
  <2>1. SizedInv => \A c \in Clients : SizedClient(c)'
    BY <1>1, SizedKeeps DEF SizedInv, Left
  <2> QED BY <1>1, <2>1 DEF SizedInv, Left, Untouched, InUse
<1>5. EchoInv => EchoInv'
  BY <1>1, EchoKeeps DEF EchoInv
<1>6. MessageInv => MessageInv'
  BY <1>1, MessageKeeps DEF MessageInv
<1> QED BY <1>1, <1>2, <1>3, <1>4, <1>5, <1>6 DEF IInv

LEMMA NextIInv ==
  ASSUME IInv, [Next]_<<vars, pair>> PROVE IInv'
<1>1. CASE UNCHANGED <<vars, pair>>
  BY <1>1, StutterIInv
<1>2. CASE Next
  <2>1. /\ Net /\ pair' = pair
        /\ \/ ServerStep
           \/ \E c \in Clients : ClientStep(c) \/ NetworkFails(c)
    BY <1>2 DEF IInv, Next, ServerStep, ClientStep, Fault
  <2>2. CASE pair = "transfer"
    <3>1. T!ServerStep \/ \E c \in Clients : T!ClientStep(c) \/ NetworkFails(c)
      BY <2>1, <2>2 DEF ServerStep, ClientStep
    <3> QED BY <2>1, <2>2, <3>1, TransferNext DEF IInv
  <2>3. CASE pair = "sized"
    <3>1. S!ServerStep \/ \E c \in Clients : S!ClientStep(c) \/ NetworkFails(c)
      BY <2>1, <2>3 DEF ServerStep, ClientStep
    <3> QED BY <2>1, <2>3, <3>1, SizedNext DEF IInv
  <2>4. CASE pair = "echo"
    <3>1. E!ServerStep \/ \E c \in Clients : E!ClientStep(c) \/ NetworkFails(c)
      BY <2>1, <2>4 DEF ServerStep, ClientStep
    <3> QED BY <2>1, <2>4, <3>1, EchoNext DEF IInv
  <2>5. CASE pair = "message"
    <3>1. M!ServerStep \/ \E c \in Clients : M!ClientStep(c) \/ NetworkFails(c)
      BY <2>1, <2>5 DEF ServerStep, ClientStep
    <3> QED BY <2>1, <2>5, <3>1, MessageNext DEF IInv
  <2> QED BY <2>2, <2>3, <2>4, <2>5 DEF IInv
<1> QED BY <1>1, <1>2

LEMMA Invariance == Spec => []IInv
BY InitIInv, NextIInv, PTL DEF Spec

LEMMA NetTyped ==
  ASSUME IInv PROVE TypeOK
<1>1. Net /\ conn \in Conns
  BY DEF IInv, Net
<1>2. ASSUME NEW c \in Clients
      PROVE  /\ conn[c].client.state \in {"none", "open", "reset", "closed"}
             /\ conn[c].server.state \in {"none", "queued", "open", "reset", "closed"}
             /\ (conn[c].client = None) <=> (conn[c].server = None)
             /\ Queued(c) => conn[c].server.out = <<>>
             /\ Ended(c) => conn[c].client.state \in {"none", "closed"}
  <2>1. PICK a \in End, b \in End : a = conn[c].client /\ b = conn[c].server
    BY <1>1 DEF Conns
  <2>2. Sockets(c)
    BY <1>1 DEF Net
  <2>3. \A x \in End : x.state \in States /\ (x = None <=> x.state = "none" /\ x.out = <<>>)
    BY EmptySeq DEF End, None
  <2>4. (a = None) <=> (b = None)
    BY <2>1, <2>2, <2>3 DEF Sockets
  <2> QED BY <2>1, <2>2, <2>3, <2>4 DEF Sockets, States
<1>3. spc \in {"loop", "ended"} => Waiting = {}
  BY <1>1 DEF Net, Listens, Waiting
<1> QED BY <1>1, <1>2, <1>3 DEF TypeOK, IInv, Net, Listens

\* A beginning of the file is a slice of what the other pair's server sends.
LEMMA SliceOfWhole ==
  ASSUME NEW d \in 1..(Len(File) + 1)
  PROVE  \E i, j \in 1..(Len(File) + 4) : SubSeq(File, 1, d - 1) = SubSeq(Whole, i, j - 1)
<1>1. PICK m \in Nat : m = Len(File)
  BY FileType
<1>2. /\ Whole \in Seq(Items) /\ Len(Whole) = m + 3
      /\ SubSeq(Whole, 4, m + 3) = File
  BY <1>1, WholeFacts
<1>3. /\ 4 \in 1..(m + 3 + 1) /\ m + 3 \in (4 - 1)..(m + 3)
      /\ 1 \in 1..(m + 3 - 4 + 2) /\ d - 1 \in (1 - 1)..(m + 3 - 4 + 1)
      /\ 4 + 1 - 1 = 4 /\ 4 + (d - 1) - 1 = d + 3 - 1
      /\ 4 \in 1..(m + 4) /\ d + 3 \in 1..(m + 4)
  BY <1>1
<1>4. SubSeq(SubSeq(Whole, 4, m + 3), 1, d - 1) = SubSeq(Whole, 4 + 1 - 1, 4 + (d - 1) - 1)
  BY <1>2, <1>3, SliceOfSlice
<1>5. PICK j \in 1..(m + 4) : j = d + 3
  BY <1>3
<1>6. SubSeq(File, 1, d - 1) = SubSeq(Whole, 4, j - 1)
  BY <1>2, <1>3, <1>4, <1>5
<1> QED BY <1>1, <1>3, <1>6

\* A connection carries the file in order, nothing twice: what the server
\* has left to send, what is on its way and what the client has appended are
\* slices that follow one another, whatever the network cuts off.
THEOREM PiecesFollow == Spec => []PiecesInv
<1>1. ASSUME IInv PROVE OnePieceOnce
  <2>1. ASSUME pair = "transfer", NEW c \in Clients
        PROVE  \E i, j \in 1..(Len(File) + 4) : FileOf(c) = SubSeq(Whole, i, j - 1)
    <3>1. TransferInv /\ FileOf(c) = cdata[c]
      BY <1>1, <2>1 DEF IInv, FileOf
    <3>2. PICK d \in 1..(Len(File) + 1) : cdata[c] = SubSeq(File, 1, d - 1)
      BY <3>1 DEF TransferInv, TransferClient
    <3>3. \E i, j \in 1..(Len(File) + 4) : SubSeq(File, 1, d - 1) = SubSeq(Whole, i, j - 1)
      BY SliceOfWhole
    <3> QED BY <3>1, <3>2, <3>3
  <2>2. ASSUME pair = "sized", NEW c \in Clients
        PROVE  \E i, j \in 1..(Len(File) + 4) : FileOf(c) = SubSeq(Whole, i, j - 1)
    <3>1. SizedInv /\ FileOf(c) = cdata[c].file
      BY <1>1, <2>2 DEF IInv, FileOf
    <3>2. Len(Whole) + 1 = Len(File) + 4
      BY WholeFacts, FileType
    <3>3. \E i, j \in 1..(Len(Whole) + 1) : cdata[c].file = SubSeq(Whole, i, j - 1)
      BY <3>1 DEF SizedInv, SizedClient, Piece
    <3> QED BY <3>1, <3>2, <3>3
  <2> QED BY <2>1, <2>2 DEF OnePieceOnce, Transfers, Whole
<1>2. IInv => PiecesInv
  BY <1>1, NetTyped DEF PiecesInv
<1> QED BY <1>2, Invariance, PTL

\* A client that ends as if all were well without the whole file was cut off by
\* the network, by the server, or misread a split header.
THEOREM CutsHaveCause == Spec => []TruncationHasCause
<1>1. IInv => TruncationHasCause
  BY DEF IInv, TruncationHasCause, Transfers, FileOf, TransferInv, TransferClient, SizedInv,
         SizedClient
<1> QED BY <1>1, Invariance, PTL

\* An echo client prints a beginning of its own message, all of it but for a
\* short read of the server's; the message server never finds a difference.
THEOREM MessagesComeBack == Spec => []MessagesReturn
<1>1. ASSUME IInv, pair = "echo", NEW c \in Clients
      PROVE  /\ IsPrefix(cdata[c].printed, Text[c])
             /\ cpc[c] = "done" /\ cdata[c].printed # Text[c] => "short read" \in causes[c]
  <2>1. EchoData(c) /\ Text[c] \in Seq(Items) /\ Len(Text[c]) \in Nat
    BY <1>1, FullFacts DEF IInv, EchoInv
  <2>2. PICK x : x = cdata[c].printed
    OBVIOUS
  <2>3. Part(x, Text[c]) => IsPrefix(x, Text[c])
    <3>1. ASSUME Part(x, Text[c]) PROVE IsPrefix(x, Text[c])
      <4>1. /\ x \in Seq(Items) /\ Len(x) <= Len(Text[c]) /\ x = SubSeq(Text[c], 1, Len(x))
        BY <2>1, <3>1, PartFacts
      <4>2. SubSeq(x, 1, Len(x)) = x
        BY <4>1, SubSeqFull
      <4> QED BY <4>1, <4>2 DEF IsPrefix
    <3> QED BY <3>1
  <2>4. Part(<<>>, Text[c])
    BY <2>1, PartSelf
  <2>5. CASE cpc[c] # "done"
    <3>1. x = <<>>
      BY <2>1, <2>2, <2>5 DEF EchoData
    <3> QED BY <2>2, <2>3, <2>4, <2>5, <3>1
  <2>6. CASE cpc[c] = "done"
    <3>1. PICK k \in 0..Len(Text[c]) : x = SubSeq(Text[c], 1, k) /\ Excused(c, k)
      BY <2>1, <2>2, <2>6 DEF EchoData
    <3>2. IsPrefix(x, Text[c])
      BY <2>3, <3>1 DEF Part
    <3>3. SubSeq(Text[c], 1, Len(Text[c])) = Text[c]
      BY <2>1, SubSeqFull
    <3>4. x # Text[c] => k < Len(Text[c])
      BY <2>1, <3>1, <3>3
    <3>5. k < Len(Text[c]) => "short read" \in causes[c]
      BY <3>1 DEF Excused
    <3> QED BY <2>2, <3>2, <3>4, <3>5
  <2> QED BY <2>5, <2>6
<1>2. IInv /\ pair = "message" => sdata.verdicts \subseteq {"match"}
  BY DEF IInv, MessageInv
<1>3. IInv => MessagesReturn
  BY <1>1, <1>2 DEF MessagesReturn, OwnMessage, ShortEchoHasCause, AlwaysMatch
<1> QED BY <1>3, Invariance, PTL
=============================================================================
