---------------------------- MODULE Download_proofs ----------------------------
(***************************************************************************)
(* Proofs about Getfile and Download, for any clients, paths, files and    *)
(* programs: what a success means, which file a client is sent, what alone *)
(* ends a process, which local files stay, and what bytes are in them.     *)
(* The invariant GInv follows the bytes only when one recv ended at the    *)
(* end of the header (clean); WriteInv, which rests on it, in every case.  *)
(***************************************************************************)
EXTENDS Download, FiniteSetTheorems, SequenceTheorems, WellFoundedInduction, TLAPS

Bytes(p) == {Files[p][i] : i \in DOMAIN Files[p]}
Tokens == {OkHeader[i] : i \in 1..7} \cup {NotFound[i] : i \in 1..2}
          \cup UNION {Bytes(p) : p \in DOMAIN Files}

\* The functions of the clients.
Typed ==
    /\ path \in [Clients -> Paths]
    /\ headercheck \in [Clients -> BOOLEAN] /\ clean \in [Clients -> BOOLEAN]
    /\ split \in [Clients -> BOOLEAN]
    /\ wire \in [Clients -> Seq(Tokens)]
    /\ got \in [Clients -> Nat] /\ filelen \in [Clients -> Nat]
    /\ status \in [Clients -> {"OK", "FILE_NOT_FOUND"}] /\ ret \in [Clients -> {0, -1}]
    /\ served \in [Clients -> DOMAIN Files \cup {NULL}]
    /\ file = [c \in Clients |-> file[c]]

\* A response is nothing yet, the refusal, or the header and n bytes of the file.
Response(c, n) ==
    /\ served[c] \in DOMAIN Files /\ n \in 0..Len(Content(c)) /\ Len(wire[c]) = 7 + n
    /\ \A i \in 1..7 : wire[c][i] = OkHeader[i]
    /\ \A i \in 1..n : wire[c][7 + i] = Content(c)[i]
WireInv ==
    \A c \in Clients : \/ wire[c] = <<>> /\ served[c] = NULL
                       \/ wire[c] = NotFound /\ served[c] = NULL
                       \/ Response(c, Len(wire[c]) - 7)

\* A connection is accepted once, and answered while it is the server's conn.
ServerInv ==
    /\ \A i, k \in 1..Len(backlog) : backlog[i] = backlog[k] => i = k
    /\ \A i \in 1..Len(backlog) : backlog[i] \notin opened /\ cpc[backlog[i]] # "start"
    /\ \A c \in opened : cpc[c] # "start"
    /\ \A c \in Clients \ opened : wire[c] = <<>> /\ ~split[c]
    /\ IsFiniteSet(opened)
    /\ spc # "dead" => closed \subseteq opened /\ \A c \in closed : wire[c] # <<>>
    /\ spc = "dead" => closed = Clients
    /\ spc \in {"recv", "handle", "send"} => conn \in opened \ closed
    /\ spc \in {"recv", "handle"} => wire[conn] = <<>>
    /\ spc = "recv" => ~split[conn]
    /\ spc = "handle" => parsed \in Paths /\ (~split[conn] => parsed = path[conn])
    /\ spc = "send" => parsed = served[conn] /\ Response(conn, sent)

\* What a client knows of the response it has received.
Known(c) ==
    /\ headercheck[c] => /\ status[c] = "OK" /\ got[c] >= 4 /\ filelen[c] = Len(Content(c))
    /\ ~headercheck[c] => file[c] = <<>> /\ ~clean[c]
    /\ clean[c] => /\ got[c] >= 7 /\ file[c] \in Seq(Tokens) /\ Len(file[c]) = got[c] - 7
                   /\ \A i \in 1..(got[c] - 7) : file[c][i] = Content(c)[i]
    /\ Succeeded(c) => headercheck[c] /\ Len(file[c]) = filelen[c]
    /\ cpc[c] = "returned" /\ ret[c] = -1 => c \in closed
ClientInv == \A c \in Clients : Known(c)

GInv == Typed /\ TypeOK /\ WireInv /\ ServerInv /\ RightFile /\ ClientInv /\ DeathsHaveCause

\* The directory: a file has the name of the request that created it, and the
\* file of a request whose path no other program asks for is its own.
KeepInv ==
    /\ plan \in Plans /\ dpc \in [Clients -> {"wait", "open", "closed", "done", "exit"}]
    /\ disk \in [Names -> Clients \cup {NULL}]
    /\ \A n \in Names : disk[n] # NULL => LocalName(disk[n]) = n
    /\ \A c \in Clients :
         /\ dpc[c] \in {"closed", "done"} => cpc[c] = "returned"
         /\ Alone(c) =>
              /\ dpc[c] = "open" => disk[LocalName(c)] = c
              /\ dpc[c] = "closed" => (disk[LocalName(c)] = c <=> ret[c] = 0)
              /\ dpc[c] = "done" => (disk[LocalName(c)] = c <=> ret[c] = 0 /\ status[c] = "OK")

-----------------------------------------------------------------------------
(* Responses.                                                              *)

LEMMA Headers ==
    /\ OkHeader \in Seq(Tokens) /\ Len(OkHeader) = 7 /\ OkHeader[2] = "OK"
    /\ NotFound \in Seq(Tokens) /\ Len(NotFound) = 2 /\ NotFound[2] = "FILE_NOT_FOUND"
    /\ OkHeader # <<>> /\ NotFound # <<>> /\ OkHeader # NotFound
    /\ <<>> \in Seq(Tokens)
<1>1. Len(OkHeader) = 7 /\ Len(NotFound) = 2
  BY DEF OkHeader, NotFound
<1>2. OkHeader[2] = "OK" /\ NotFound[2] = "FILE_NOT_FOUND"
  BY DEF OkHeader, NotFound
<1>3. OkHeader = [i \in 1..7 |-> OkHeader[i]] /\ NotFound = [i \in 1..2 |-> NotFound[i]]
  BY DEF OkHeader, NotFound
<1>4. \A i \in 1..7 : OkHeader[i] \in Tokens
  BY DEF Tokens
<1>5. \A i \in 1..2 : NotFound[i] \in Tokens
  BY DEF Tokens
<1>6. [i \in 1..7 |-> OkHeader[i]] \in Seq(Tokens)
  BY <1>4
<1>7. [i \in 1..2 |-> NotFound[i]] \in Seq(Tokens)
  BY <1>5
<1>8. <<>> \in Seq(Tokens)
  OBVIOUS
<1> QED BY <1>1, <1>2, <1>3, <1>6, <1>7, <1>8

LEMMA FileBytes ==
    ASSUME NEW p \in DOMAIN Files
    PROVE  /\ p \in Paths /\ p \notin BadPaths
           /\ Files[p] \in Seq(Tokens) /\ Len(Files[p]) \in Nat
           /\ \A i \in 1..Len(Files[p]) : Files[p][i] \in Tokens
<1>1. Files[p] \in Seq(Bytes(p))
  BY FilesAssumption DEF Bytes
<1>2. Bytes(p) \subseteq Tokens
  BY DEF Tokens
<1> QED BY <1>1, <1>2, PathAssumption

-----------------------------------------------------------------------------
(* The initial state.                                                      *)

LEMMA InitGInv == Init => GInv
<1> SUFFICES ASSUME Init PROVE GInv
  OBVIOUS
<1>1. Typed
  BY PathAssumption, Headers DEF Init, Typed
<1>2. TypeOK
  BY PathAssumption, OpenAssumption DEF Init, TypeOK
<1>3. WireInv /\ RightFile
  BY DEF Init, WireInv, RightFile
<1>4. ServerInv
  BY FS_EmptySet DEF Init, ServerInv
<1>5. ClientInv
  BY DEF Init, ClientInv, Known, Succeeded
<1>6. DeathsHaveCause
  BY DEF Init, DeathsHaveCause, ServerDeathHasCause, FaultHasCause
<1> QED BY <1>1, <1>2, <1>3, <1>4, <1>5, <1>6 DEF GInv

-----------------------------------------------------------------------------
(* Steps of the server.                                                    *)

\* What a client has received of its connection does not change, nor does what
\* the server served it, once anything was written.
LEMMA ClientFrame ==
    ASSUME GInv, NoClient, closed \subseteq closed',
           \A c \in Clients : wire[c] # <<>> => served'[c] = served[c]
    PROVE  ClientInv'
<1> SUFFICES ASSUME NEW c \in Clients
             PROVE  /\ headercheck[c] => /\ status[c] = "OK" /\ got[c] >= 4
                                         /\ filelen[c] = Len(Content(c)')
                    /\ ~headercheck[c] => file[c] = <<>> /\ ~clean[c]
                    /\ clean[c] => /\ got[c] >= 7 /\ file[c] \in Seq(Tokens)
                                   /\ Len(file[c]) = got[c] - 7
                                   /\ \A i \in 1..(got[c] - 7) : file[c][i] = Content(c)'[i]
                    /\ Succeeded(c) => headercheck[c] /\ Len(file[c]) = filelen[c]
                    /\ cpc[c] = "returned" /\ ret[c] = -1 => c \in closed'
  BY DEF ClientInv, Known, NoClient, client, Succeeded
<1>1. headercheck[c] => Content(c)' = Content(c)
  <2>1. headercheck[c] => wire[c] # <<>>
    <3>1. headercheck[c] => got[c] >= 4 /\ got[c] <= Len(wire[c]) /\ got[c] \in Int
      BY DEF GInv, ClientInv, Known, TypeOK
    <3> QED BY <3>1
  <2> QED BY <2>1 DEF Content
<1>2. clean[c] => headercheck[c]
  BY DEF GInv, ClientInv, Known
<1> QED BY <1>1, <1>2 DEF GInv, ClientInv, Known

\* Steps that write nothing and tell no client anything.
LEMMA WireFrame ==
    ASSUME GInv, UNCHANGED <<wire, served, path>>, \A c \in Clients : split[c] => split'[c],
           split' \in [Clients -> BOOLEAN]
    PROVE  WireInv' /\ RightFile'
<1>1. WireInv'
  BY DEF GInv, WireInv, Response, Content
<1>2. RightFile'
  BY DEF GInv, RightFile
<1> QED BY <1>1, <1>2

LEMMA Dying ==
    ASSUME GInv, NoClient, UNCHANGED <<backlog, wire, opened, conn, parsed, sent, served>>,
           spc' = "dead", closed' = Clients, ServerDeathHasCause',
           split' \in [Clients -> BOOLEAN], \A c \in Clients : split[c] => split'[c],
           \A c \in Clients \ opened : ~split'[c]
    PROVE  GInv'
<1>1. Typed'
  BY DEF GInv, Typed, NoClient, client
<1>2. TypeOK'
  BY DEF GInv, TypeOK, NoClient, client
<1>3. WireInv' /\ RightFile'
  BY WireFrame DEF NoClient, client
<1>4. ServerInv'
  BY DEF GInv, ServerInv, NoClient, client
<1>5. ClientInv'
  BY ClientFrame DEF GInv, TypeOK
<1>6. FaultHasCause'
  BY DEF FaultHasCause
<1> QED BY <1>1, <1>2, <1>3, <1>4, <1>5, <1>6 DEF GInv, DeathsHaveCause

LEMMA AcceptFailsStep == ASSUME GInv, AcceptFails PROVE GInv'
<1>1. /\ spc' = "dead" /\ closed' = Clients /\ Cardinality(opened \ closed) >= limit /\ NoClient
      /\ UNCHANGED <<backlog, wire, opened, conn, parsed, sent, served, split>>
  BY DEF AcceptFails
<1>2. Cardinality(opened) >= limit
  <2>1. IsFiniteSet(opened) /\ opened \ closed \subseteq opened /\ limit \in Nat
    BY OpenAssumption DEF GInv, ServerInv, TypeOK
  <2>2. Cardinality(opened \ closed) <= Cardinality(opened) /\ Cardinality(opened) \in Nat
        /\ Cardinality(opened \ closed) \in Nat
    BY <2>1, FS_Subset, FS_CardinalityType
  <2> QED BY <1>1, <2>1, <2>2
<1>3. ServerDeathHasCause'
  BY <1>1, <1>2 DEF ServerDeathHasCause, NoClient
<1> QED BY <1>1, <1>3, Dying DEF GInv, Typed, ServerInv

LEMMA AcceptStep == ASSUME GInv, Accept PROVE GInv'
<1>1. /\ spc = "accept" /\ backlog # <<>> /\ conn' = Head(backlog) /\ backlog' = Tail(backlog)
      /\ opened' = opened \cup {conn'} /\ spc' = "recv" /\ NoClient
      /\ UNCHANGED <<wire, closed, parsed, sent, served, split>>
  BY DEF Accept
<1>2. /\ conn' = backlog[1] /\ conn' \in Clients /\ backlog' \in Seq(Clients)
      /\ Len(backlog') = Len(backlog) - 1 /\ Len(backlog) \in Nat \ {0}
      /\ \A i \in 1..Len(backlog') : backlog'[i] = backlog[i + 1]
  BY <1>1, HeadTailProperties DEF GInv, TypeOK
<1>3. conn' \notin opened /\ cpc[conn'] # "start"
  BY <1>2 DEF GInv, ServerInv
<1>4. Typed'
  BY <1>1 DEF GInv, Typed, NoClient, client
<1>5. TypeOK'
  BY <1>1, <1>2 DEF GInv, TypeOK, NoClient, client
<1>6. WireInv' /\ RightFile'
  BY <1>1, WireFrame DEF NoClient, client, GInv, Typed
<1>7. ServerInv'
  <2>1. \A i, k \in 1..Len(backlog') : backlog'[i] = backlog'[k] => i = k
    <3> SUFFICES ASSUME NEW i \in 1..Len(backlog'), NEW k \in 1..Len(backlog'),
                        backlog'[i] = backlog'[k]
                 PROVE  i = k
      OBVIOUS
    <3>1. i + 1 \in 1..Len(backlog) /\ k + 1 \in 1..Len(backlog)
      BY <1>2
    <3>2. backlog[i + 1] = backlog[k + 1]
      BY <1>2
    <3>3. i + 1 = k + 1
      BY <3>1, <3>2 DEF GInv, ServerInv
    <3> QED BY <3>3
  <2>2. \A i \in 1..Len(backlog') : backlog'[i] \notin opened' /\ cpc[backlog'[i]] # "start"
    <3> SUFFICES ASSUME NEW i \in 1..Len(backlog')
                 PROVE  backlog'[i] \notin opened' /\ cpc[backlog'[i]] # "start"
      OBVIOUS
    <3>1. i + 1 \in 1..Len(backlog) /\ i + 1 # 1 /\ 1 \in 1..Len(backlog)
      BY <1>2
    <3>2. backlog[i + 1] # backlog[1]
      BY <3>1 DEF GInv, ServerInv
    <3> QED BY <1>1, <1>2, <3>1, <3>2 DEF GInv, ServerInv
  <2>3. IsFiniteSet(opened')
    BY <1>1, FS_AddElement DEF GInv, ServerInv
  <2>4. closed \subseteq opened /\ conn' \notin closed /\ wire[conn'] = <<>> /\ ~split[conn']
    BY <1>1, <1>2, <1>3 DEF GInv, ServerInv
  <2> QED BY <1>1, <1>2, <1>3, <2>1, <2>2, <2>3, <2>4 DEF GInv, ServerInv, NoClient, client
<1>8. ClientInv'
  BY <1>1, ClientFrame
<1>9. DeathsHaveCause'
  BY <1>1 DEF GInv, DeathsHaveCause, ServerDeathHasCause, FaultHasCause, NoClient, client
<1> QED BY <1>4, <1>5, <1>6, <1>7, <1>8, <1>9 DEF GInv

LEMMA RecvStep == ASSUME GInv, Recv PROVE GInv'
<1>1. /\ spc = "recv" /\ conn \in opened /\ conn \in Clients /\ conn \notin closed
      /\ UNCHANGED <<backlog, wire, opened, conn, sent, served>> /\ NoClient
      /\ wire[conn] = <<>>
  BY DEF Recv, GInv, ServerInv, TypeOK
<1>2. CASE parsed' = path[conn] /\ spc' = "handle" /\ UNCHANGED <<split, closed>>
  <2>1. path[conn] \in Paths
    BY <1>1 DEF GInv, Typed
  <2>2. Typed'
    BY <1>1, <1>2 DEF GInv, Typed, NoClient, client
  <2>3. TypeOK'
    BY <1>1, <1>2, <2>1 DEF GInv, TypeOK, NoClient, client
  <2>4. WireInv' /\ RightFile'
    BY <1>1, <1>2, WireFrame DEF NoClient, client, GInv, Typed
  <2>5. ServerInv'
    BY <1>1, <1>2, <2>1 DEF GInv, ServerInv, NoClient, client
  <2>6. ClientInv'
    BY <1>1, <1>2, ClientFrame
  <2>7. DeathsHaveCause'
    BY <1>1, <1>2 DEF GInv, DeathsHaveCause, ServerDeathHasCause, FaultHasCause, NoClient, client
  <2> QED BY <2>2, <2>3, <2>4, <2>5, <2>6, <2>7 DEF GInv
<1>3. ASSUME split' = [split EXCEPT ![conn] = TRUE]
      PROVE  /\ split' \in [Clients -> BOOLEAN] /\ split'[conn]
             /\ \A c \in Clients : split[c] => split'[c]
             /\ \A c \in Clients : c # conn => split'[c] = split[c]
  BY <1>1, <1>3 DEF GInv, Typed
<1>4. CASE /\ split' = [split EXCEPT ![conn] = TRUE]
           /\ parsed # NULL /\ spc' = "handle" /\ UNCHANGED <<parsed, closed>>
  <2>1. parsed \in Paths
    BY <1>4 DEF GInv, TypeOK
  <2>2. Typed'
    BY <1>1, <1>3, <1>4 DEF GInv, Typed, NoClient, client
  <2>3. TypeOK'
    BY <1>1, <1>4 DEF GInv, TypeOK, NoClient, client
  <2>4. WireInv' /\ RightFile'
    BY <1>1, <1>3, <1>4, WireFrame DEF NoClient, client
  <2>5. ServerInv'
    BY <1>1, <1>3, <1>4, <2>1 DEF GInv, ServerInv, NoClient, client
  <2>6. ClientInv'
    BY <1>1, <1>4, ClientFrame
  <2>7. DeathsHaveCause'
    BY <1>1, <1>4 DEF GInv, DeathsHaveCause, ServerDeathHasCause, FaultHasCause, NoClient, client
  <2> QED BY <2>2, <2>3, <2>4, <2>5, <2>6, <2>7 DEF GInv
<1>5. CASE /\ split' = [split EXCEPT ![conn] = TRUE] /\ spc' = "dead" /\ closed' = Clients
           /\ UNCHANGED parsed
  <2>1. ServerDeathHasCause'
    BY <1>1, <1>3, <1>5 DEF ServerDeathHasCause
  <2> QED BY <1>1, <1>3, <1>5, <2>1, Dying DEF GInv, ServerInv
<1> QED BY <1>2, <1>4, <1>5 DEF Recv

\* The answers that refuse: the connection is closed, or left open.
LEMMA RefuseStep == ASSUME GInv, Refuse \/ HandlerMissing PROVE GInv'
<1>1. /\ spc = "handle" /\ spc' = "accept" /\ parsed \notin DOMAIN Files
      /\ wire' = [wire EXCEPT ![conn] = NotFound]
      /\ closed' = closed \/ closed' = closed \cup {conn}
      /\ UNCHANGED <<backlog, opened, conn, parsed, sent, served, split>> /\ NoClient
      /\ conn \in opened /\ conn \in Clients /\ wire[conn] = <<>>
      /\ ~split[conn] => parsed = path[conn]
  BY PathAssumption DEF Refuse, HandlerMissing, GInv, ServerInv, TypeOK
<1>2. /\ wire' \in [Clients -> Seq(Tokens)] /\ wire'[conn] = NotFound
      /\ \A c \in Clients : c # conn => wire'[c] = wire[c]
  BY <1>1, Headers DEF GInv, Typed
<1>3. \A c \in Clients : Len(wire[c]) <= Len(wire'[c]) /\ Len(wire'[c]) \in Nat
  <2> SUFFICES ASSUME NEW c \in Clients
               PROVE  Len(wire[c]) <= Len(wire'[c]) /\ Len(wire'[c]) \in Nat
    OBVIOUS
  <2>1. wire[c] \in Seq(Tokens) /\ Len(wire[c]) \in Nat
    BY DEF GInv, Typed
  <2>2. CASE c = conn
    BY <1>1, <1>2, <2>2, Headers, EmptySeq
  <2>3. CASE c # conn
    BY <1>2, <2>1, <2>3
  <2> QED BY <2>2, <2>3
<1>4. Typed'
  BY <1>1, <1>2 DEF GInv, Typed, NoClient, client
<1>5. TypeOK'
  <2>1. \A c \in Clients : got[c] \in 0..Len(wire'[c])
    <3> SUFFICES ASSUME NEW c \in Clients PROVE got[c] \in 0..Len(wire'[c])
      OBVIOUS
    <3>1. got[c] \in 0..Len(wire[c]) /\ Len(wire[c]) \in Nat
      BY DEF GInv, Typed, TypeOK
    <3> QED BY <1>3, <3>1
  <2> QED BY <1>1, <2>1 DEF GInv, TypeOK, NoClient, client
<1>6. WireInv' /\ RightFile'
  <2>1. served[conn] = NULL
    BY <1>1, Headers DEF GInv, WireInv, Response
  <2>2. WireInv'
    BY <1>1, <1>2, <2>1 DEF GInv, WireInv, Response, Content
  <2>3. RightFile'
    BY <1>1, <1>2 DEF GInv, RightFile, NoClient, client
  <2> QED BY <2>2, <2>3
<1>7. ServerInv'
  BY <1>1, <1>2, Headers DEF GInv, ServerInv, NoClient, client
<1>8. ClientInv'
  BY <1>1, ClientFrame
<1>9. DeathsHaveCause'
  BY <1>1 DEF GInv, DeathsHaveCause, ServerDeathHasCause, FaultHasCause, NoClient, client
<1> QED BY <1>4, <1>5, <1>6, <1>7, <1>8, <1>9 DEF GInv

\* The header of the file that was found.
LEMMA FoundStep == ASSUME GInv, HandlerFound PROVE GInv'
<1>1. /\ spc = "handle" /\ spc' = "send" /\ parsed \in DOMAIN Files
      /\ wire' = [wire EXCEPT ![conn] = OkHeader]
      /\ served' = [served EXCEPT ![conn] = parsed] /\ sent' = 0
      /\ UNCHANGED <<backlog, closed, opened, conn, parsed, split>> /\ NoClient
      /\ conn \in opened /\ conn \in Clients /\ wire[conn] = <<>> /\ conn \notin closed
      /\ ~split[conn] => parsed = path[conn]
  BY DEF HandlerFound, GInv, ServerInv, TypeOK
<1>2. /\ wire' \in [Clients -> Seq(Tokens)] /\ wire'[conn] = OkHeader
      /\ served' \in [Clients -> DOMAIN Files \cup {NULL}] /\ served'[conn] = parsed
      /\ \A c \in Clients : c # conn => wire'[c] = wire[c] /\ served'[c] = served[c]
  BY <1>1, Headers DEF GInv, Typed
<1>3. \A c \in Clients : got[c] \in 0..Len(wire'[c])
  <2> SUFFICES ASSUME NEW c \in Clients PROVE got[c] \in 0..Len(wire'[c])
    OBVIOUS
  <2>1. got[c] \in 0..Len(wire[c]) /\ Len(wire[c]) \in Nat
    BY DEF GInv, Typed, TypeOK
  <2>2. CASE c = conn
    BY <1>1, <1>2, <2>1, <2>2, Headers, EmptySeq
  <2>3. CASE c # conn
    BY <1>2, <2>1, <2>3
  <2> QED BY <2>2, <2>3
<1>4. Typed'
  BY <1>1, <1>2 DEF GInv, Typed, NoClient, client
<1>5. TypeOK'
  BY <1>1, <1>2, <1>3 DEF GInv, TypeOK, NoClient, client
<1>6. Response(conn, 0)'
  BY <1>1, <1>2, Headers, FileBytes DEF Response, Content
<1>7. WireInv' /\ RightFile'
  <2>1. WireInv'
    <3> SUFFICES ASSUME NEW c \in Clients
                 PROVE  \/ wire'[c] = <<>> /\ served'[c] = NULL
                        \/ wire'[c] = NotFound /\ served'[c] = NULL
                        \/ Response(c, Len(wire[c]) - 7)'
      BY DEF WireInv
    <3>1. CASE c = conn
      <4>1. Len(wire'[c]) - 7 = 0
        BY <1>2, <3>1, Headers
      <4>2. Response(c, 0)'
        BY <1>1, <1>6, <3>1 DEF Response, Content
      <4> QED BY <4>1, <4>2 DEF Response, Content
    <3>2. CASE c # conn
      <4>1. wire'[c] = wire[c] /\ served'[c] = served[c]
        BY <1>2, <3>2
      <4>2. Response(c, Len(wire[c]) - 7) => Response(c, Len(wire[c]) - 7)'
        BY <4>1 DEF Response, Content
      <4> QED BY <4>1, <4>2 DEF GInv, WireInv
    <3> QED BY <3>1, <3>2
  <2>2. RightFile'
    BY <1>1, <1>2 DEF GInv, RightFile, NoClient, client
  <2> QED BY <2>1, <2>2
<1>8. ServerInv'
  BY <1>1, <1>2, <1>6, Headers DEF GInv, ServerInv, NoClient, client
<1>9. ClientInv'
  BY <1>1, <1>2, ClientFrame
<1>10. DeathsHaveCause'
  BY <1>1 DEF GInv, DeathsHaveCause, ServerDeathHasCause, FaultHasCause, NoClient, client
<1> QED BY <1>4, <1>5, <1>7, <1>8, <1>9, <1>10 DEF GInv

\* One more byte of the file.
LEMMA SendStep == ASSUME GInv, Send PROVE GInv'
<1>0. PICK k, b : k = conn /\ b = Files[parsed][sent + 1]
  OBVIOUS
<1>1. /\ spc = "send" /\ sent < Len(Files[parsed]) /\ sent' = sent + 1
      /\ wire' = [wire EXCEPT ![k] = Append(wire[k], b)]
      /\ UNCHANGED <<backlog, closed, opened, spc, conn, parsed, served, split>> /\ NoClient
      /\ k \in opened /\ k \in Clients /\ k \notin closed
      /\ parsed = served[k] /\ Response(k, sent)
  BY <1>0 DEF Send, GInv, ServerInv, TypeOK
<1>2. /\ parsed \in DOMAIN Files /\ sent \in Nat /\ sent + 1 \in 1..Len(Files[parsed])
      /\ b \in Tokens /\ Len(Files[parsed]) \in Nat /\ Content(k) = Files[parsed]
  BY <1>0, <1>1, FileBytes DEF Response, Content
<1>3. /\ wire[k] \in Seq(Tokens) /\ Append(wire[k], b) \in Seq(Tokens)
      /\ Len(Append(wire[k], b)) = Len(wire[k]) + 1
      /\ \A i \in 1..Len(wire[k]) : Append(wire[k], b)[i] = wire[k][i]
      /\ Append(wire[k], b)[Len(wire[k]) + 1] = b
  BY <1>1, <1>2, AppendProperties DEF GInv, Typed
<1>4. /\ wire' \in [Clients -> Seq(Tokens)] /\ wire'[k] = Append(wire[k], b)
      /\ \A c \in Clients : c # k => wire'[c] = wire[c]
  BY <1>1, <1>3 DEF GInv, Typed
<1>5. Response(k, sent)' /\ Len(wire'[k]) = 8 + sent
  <2>1. Len(wire[k]) = 7 + sent
    BY <1>1 DEF Response
  <2>2. \A i \in 1..7 : wire'[k][i] = OkHeader[i]
    BY <1>1, <1>2, <1>3, <1>4, <2>1 DEF Response
  <2>3. \A i \in 1..(sent + 1) : wire'[k][7 + i] = Content(k)[i]
    <3> SUFFICES ASSUME NEW i \in 1..(sent + 1) PROVE wire'[k][7 + i] = Content(k)[i]
      OBVIOUS
    <3>1. CASE i \in 1..sent
      BY <1>1, <1>2, <1>3, <1>4, <2>1, <3>1 DEF Response
    <3>2. CASE i = sent + 1
      BY <1>0, <1>2, <1>3, <1>4, <2>1, <3>2
    <3> QED BY <1>2, <3>1, <3>2
  <2>4. Len(wire'[k]) = 7 + (sent + 1)
    BY <1>2, <1>3, <1>4, <2>1
  <2>5. served'[k] \in DOMAIN Files /\ Content(k)' = Content(k)
    BY <1>1, <1>2 DEF Content
  <2>6. sent' = sent + 1 /\ sent + 1 \in 0..Len(Content(k)) /\ Len(wire'[k]) = 8 + sent
    BY <1>1, <1>2, <2>4
  <2> QED BY <2>2, <2>3, <2>4, <2>5, <2>6 DEF Response
<1>6. \A c \in Clients : got[c] \in 0..Len(wire'[c])
  <2> SUFFICES ASSUME NEW c \in Clients PROVE got[c] \in 0..Len(wire'[c])
    OBVIOUS
  <2>1. got[c] \in 0..Len(wire[c]) /\ Len(wire[c]) \in Nat
    BY DEF GInv, Typed, TypeOK
  <2>2. Len(wire'[c]) = Len(wire[c]) \/ Len(wire'[c]) = Len(wire[c]) + 1
    BY <1>3, <1>4
  <2> QED BY <2>1, <2>2
<1>7. Typed'
  BY <1>1, <1>4 DEF GInv, Typed, NoClient, client
<1>8. TypeOK'
  BY <1>1, <1>2, <1>6 DEF GInv, TypeOK, NoClient, client
<1>9. WireInv'
  <2> SUFFICES ASSUME NEW c \in Clients
               PROVE  \/ wire'[c] = <<>> /\ served'[c] = NULL
                      \/ wire'[c] = NotFound /\ served'[c] = NULL
                      \/ Response(c, Len(wire[c]) - 7)'
    BY DEF WireInv
  <2>1. CASE c = k
    <3>1. Len(wire'[c]) - 7 = sent'
      BY <1>1, <1>2, <1>5, <2>1
    <3> QED BY <1>5, <2>1, <3>1 DEF Response, Content
  <2>2. CASE c # k
    <3>1. wire'[c] = wire[c] /\ served'[c] = served[c]
      BY <1>1, <1>4, <2>2
    <3>2. Response(c, Len(wire[c]) - 7) => Response(c, Len(wire[c]) - 7)'
      BY <3>1 DEF Response, Content
    <3> QED BY <3>1, <3>2 DEF GInv, WireInv
  <2> QED BY <2>1, <2>2
<1>10. wire[k] # <<>> /\ wire[k] # NotFound /\ wire'[k] # <<>>
  <2>1. Len(wire[k]) = 7 + sent /\ sent \in Nat
    BY <1>1, <1>2 DEF Response
  <2>2. Len(<<>>) = 0 /\ Len(NotFound) = 2
    BY Headers
  <2>3. Len(wire[k]) # 0 /\ Len(wire[k]) # 2 /\ Len(wire'[k]) # 0
    BY <1>5, <2>1
  <2>4. wire[k] # <<>>
    BY <2>2, <2>3
  <2>5. wire[k] # NotFound
    BY <2>2, <2>3
  <2>6. wire'[k] # <<>>
    BY <2>2, <2>3
  <2> QED BY <2>4, <2>5, <2>6
<1>11. RightFile'
  <2> SUFFICES ASSUME NEW c \in Clients, ~split[c], wire'[c] # <<>>
               PROVE  IF path[c] \in DOMAIN Files THEN served[c] = path[c] ELSE wire'[c] = NotFound
    BY <1>1 DEF RightFile, NoClient, client
  <2>1. CASE c = k
    BY <1>1, <1>10, <2>1 DEF GInv, RightFile
  <2>2. CASE c # k
    BY <1>4, <2>2 DEF GInv, RightFile
  <2> QED BY <2>1, <2>2
<1>12. ServerInv'
  <2>1. \A c \in Clients : wire[c] # <<>> => wire'[c] # <<>>
    BY <1>4, <1>10
  <2>2. conn' = k /\ parsed' = served'[k]
    BY <1>0, <1>1
  <2>3. Response(conn, sent)'
    BY <1>5, <2>2 DEF Response, Content
  <2>4. \A c \in Clients \ opened : wire'[c] = <<>>
    BY <1>1, <1>4 DEF GInv, ServerInv
  <2>5. \A c \in closed : c \in Clients
    BY DEF GInv, TypeOK
  <2> QED BY <1>0, <1>1, <2>1, <2>2, <2>3, <2>4, <2>5 DEF GInv, ServerInv, NoClient, client
<1>13. ClientInv'
  BY <1>1, ClientFrame
<1>14. DeathsHaveCause'
  BY <1>1 DEF GInv, DeathsHaveCause, ServerDeathHasCause, FaultHasCause, NoClient, client
<1> QED BY <1>7, <1>8, <1>9, <1>11, <1>12, <1>13, <1>14 DEF GInv

\* A client that is gone with GF_OK while the server still sends has misread
\* the header: after a clean start it waits for every byte.
LEMMA SendKilledStep == ASSUME GInv, SendKilled PROVE GInv'
<1>0. PICK k : k = conn
  OBVIOUS
<1>1. /\ spc = "send" /\ sent < Len(Files[parsed]) /\ cpc[k] = "returned" /\ status[k] = "OK"
      /\ spc' = "dead" /\ closed' = Clients
      /\ UNCHANGED <<backlog, wire, opened, conn, parsed, sent, served, split>> /\ NoClient
      /\ k \in Clients /\ k \notin closed /\ parsed = served[k] /\ Response(k, sent)
  BY <1>0 DEF SendKilled, GInv, ServerInv, TypeOK
<1>2. Succeeded(k)
  BY <1>1 DEF Succeeded, GInv, Typed, ClientInv, Known
<1>3. headercheck[k] /\ Len(file[k]) = filelen[k] /\ filelen[k] = Len(Content(k))
  BY <1>1, <1>2 DEF GInv, ClientInv, Known
<1>4. ~clean[k]
  <2> SUFFICES ASSUME clean[k] PROVE FALSE
    OBVIOUS
  <2>1. Len(file[k]) = got[k] - 7 /\ got[k] \in 0..Len(wire[k]) /\ Len(wire[k]) = 7 + sent
    BY <1>1 DEF GInv, ClientInv, Known, TypeOK, Response
  <2>2. sent \in Nat /\ sent < Len(Content(k)) /\ Len(Content(k)) \in Nat
    BY <1>1, FileBytes DEF Response, Content
  <2> QED BY <1>3, <2>1, <2>2
<1>5. ServerDeathHasCause'
  BY <1>1, <1>3, <1>4 DEF ServerDeathHasCause, Misread, NoClient, client
<1> QED BY <1>1, <1>5, Dying DEF GInv, Typed, ServerInv

LEMMA SendEndsStep == ASSUME GInv, SendFails \/ SendDone PROVE GInv'
<1>0. PICK k : k = conn
  OBVIOUS
<1>1. /\ spc = "send" /\ spc' = "accept" /\ (closed' = closed \/ closed' = closed \cup {k})
      /\ UNCHANGED <<backlog, wire, opened, conn, parsed, sent, served, split>> /\ NoClient
      /\ k \in opened /\ k \in Clients /\ Response(k, sent)
  BY <1>0 DEF SendFails, SendDone, net, GInv, ServerInv, TypeOK
<1>2. wire[k] # <<>>
  <2>1. Len(wire[k]) = 7 + sent /\ sent \in Nat
    BY <1>1, FileBytes DEF Response, Content
  <2> QED BY <2>1, EmptySeq
<1>3. Typed'
  BY <1>1 DEF GInv, Typed, NoClient, client
<1>4. TypeOK'
  BY <1>1 DEF GInv, TypeOK, NoClient, client
<1>5. WireInv' /\ RightFile'
  BY <1>1, WireFrame DEF NoClient, client, GInv, Typed
<1>6. ServerInv'
  BY <1>1, <1>2 DEF GInv, ServerInv, NoClient, client
<1>7. ClientInv'
  BY <1>1, ClientFrame
<1>8. DeathsHaveCause'
  BY <1>1 DEF GInv, DeathsHaveCause, ServerDeathHasCause, FaultHasCause, NoClient, client
<1> QED BY <1>3, <1>4, <1>5, <1>6, <1>7, <1>8 DEF GInv

-----------------------------------------------------------------------------
(* Steps of a client.                                                      *)

\* Nothing of another client changes.
Only(k) ==
    \A d \in Clients \ {k} :
        /\ cpc'[d] = cpc[d] /\ got'[d] = got[d] /\ headercheck'[d] = headercheck[d]
        /\ filelen'[d] = filelen[d] /\ status'[d] = status[d] /\ ret'[d] = ret[d]
        /\ file'[d] = file[d] /\ clean'[d] = clean[d]

LEMMA ClientSteps ==
    ASSUME GInv, NEW k \in Clients, cpc[k] = "recv", NoServer, UNCHANGED <<path, backlog>>,
           Only(k), Typed', cpc' \in [Clients -> {"start", "recv", "returned", "fault", "exited"}],
           got'[k] \in 0..Len(wire[k]), Known(k)', cpc'[k] # "start",
           cpc'[k] = "fault" => spc = "dead"
    PROVE  GInv'
<1>1. UNCHANGED <<spc, conn, parsed, sent, wire, closed, opened, limit, served, split>>
  BY DEF NoServer, server
<1>2. TypeOK'
  <2>1. \A c \in Clients : got'[c] \in 0..Len(wire[c])
    BY DEF Only, GInv, TypeOK
  <2>2. \A c \in Clients : status'[c] \in {"OK", "FILE_NOT_FOUND"} /\ ret'[c] \in {0, -1}
                           /\ filelen'[c] \in Nat
    BY DEF Typed
  <2> QED BY <1>1, <2>1, <2>2 DEF GInv, TypeOK
<1>3. WireInv' /\ RightFile'
  BY <1>1, WireFrame DEF GInv, Typed
<1>4. ServerInv'
  <2>1. \A c \in Clients : cpc'[c] = "start" => cpc[c] = "start"
    BY DEF Only
  <2>2. \A i \in 1..Len(backlog) : backlog[i] \in Clients
    BY DEF GInv, TypeOK
  <2>3. \A c \in opened : c \in Clients
    BY DEF GInv, TypeOK
  <2>4. Response(conn, sent)' <=> Response(conn, sent)
    BY <1>1 DEF Response, Content
  <2> QED BY <1>1, <2>1, <2>2, <2>3, <2>4 DEF GInv, ServerInv
<1>5. ClientInv'
  <2>1. \A c \in Clients \ {k} : Known(c)'
    BY <1>1 DEF Only, GInv, ClientInv, Known, Succeeded, Content
  <2> QED BY <2>1 DEF ClientInv
<1>6. DeathsHaveCause'
  <2>1. FaultHasCause'
    BY <1>1 DEF Only, GInv, DeathsHaveCause, FaultHasCause
  <2>2. ServerDeathHasCause'
    BY <1>1 DEF Only, GInv, DeathsHaveCause, ServerDeathHasCause, Misread
  <2> QED BY <2>1, <2>2 DEF DeathsHaveCause
<1> QED BY <1>2, <1>3, <1>4, <1>5, <1>6 DEF GInv

LEMMA ConnectStep == ASSUME GInv, NEW k \in Clients, Connect(k) PROVE GInv'
<1>1. /\ cpc[k] = "start" /\ NoServer
      /\ UNCHANGED <<path, got, headercheck, filelen, status, ret, file, clean>>
      /\ \/ /\ spc = "dead" /\ cpc' = [cpc EXCEPT ![k] = "exited"] /\ UNCHANGED backlog
         \/ cpc' = [cpc EXCEPT ![k] = "recv"] /\ backlog' = Append(backlog, k)
      /\ UNCHANGED <<spc, conn, parsed, sent, wire, closed, opened, limit, served, split>>
      /\ cpc \in [Clients -> {"start", "recv", "returned", "fault", "exited"}]
      /\ backlog \in Seq(Clients)
  BY DEF Connect, NoServer, server, GInv, TypeOK
<1>2. /\ cpc' \in [Clients -> {"start", "recv", "returned", "fault", "exited"}]
      /\ cpc'[k] \in {"exited", "recv"} /\ \A c \in Clients \ {k} : cpc'[c] = cpc[c]
  BY <1>1
<1>3. backlog' \in Seq(Clients)
  BY <1>1, AppendProperties
<1>4. Typed'
  BY <1>1 DEF GInv, Typed
<1>5. TypeOK'
  BY <1>1, <1>2, <1>3 DEF GInv, TypeOK
<1>6. WireInv' /\ RightFile'
  BY <1>1, WireFrame DEF GInv, Typed
<1>7. ServerInv'
  <2>1. /\ \A i, l \in 1..Len(backlog') : backlog'[i] = backlog'[l] => i = l
        /\ \A i \in 1..Len(backlog') : backlog'[i] \notin opened /\ cpc'[backlog'[i]] # "start"
    <3>1. /\ \A i, l \in 1..Len(backlog) : backlog[i] = backlog[l] => i = l
          /\ \A i \in 1..Len(backlog) : backlog[i] \notin opened /\ cpc[backlog[i]] # "start"
                                        /\ backlog[i] \in Clients /\ backlog[i] # k
          /\ k \notin opened /\ Len(backlog) \in Nat
      BY <1>1 DEF GInv, ServerInv
    <3>2. CASE backlog' = backlog
      BY <1>2, <3>1, <3>2
    <3>3. CASE backlog' = Append(backlog, k)
      <4>1. /\ Len(backlog') = Len(backlog) + 1 /\ backlog'[Len(backlog) + 1] = k
            /\ \A i \in 1..Len(backlog) : backlog'[i] = backlog[i]
        BY <1>1, <3>3, AppendProperties
      <4>2. cpc'[k] # "start" /\ \A i \in 1..Len(backlog) : cpc'[backlog[i]] # "start"
        BY <1>2, <3>1
      <4>3. \A i \in 1..Len(backlog') : i \in 1..Len(backlog) \/ i = Len(backlog) + 1
        BY <3>1, <4>1
      <4> HIDE <3>3
      <4> QED BY <3>1, <4>1, <4>2, <4>3
    <3> QED BY <1>1, <3>2, <3>3
  <2>2. Response(conn, sent)' <=> Response(conn, sent)
    BY <1>1 DEF Response, Content
  <2>3. \A c \in opened : cpc'[c] # "start"
    BY <1>1, <1>2 DEF GInv, ServerInv, TypeOK
  <2> QED BY <1>1, <2>1, <2>2, <2>3 DEF GInv, ServerInv
<1>8. ClientInv'
  BY <1>1, <1>2 DEF GInv, ClientInv, Known, Succeeded, Content
<1>9. DeathsHaveCause'
  BY <1>1, <1>2 DEF GInv, DeathsHaveCause, ServerDeathHasCause, FaultHasCause, Misread
<1> QED BY <1>4, <1>5, <1>6, <1>7, <1>8, <1>9 DEF GInv

\* What the client's connection carries once two tokens have come.
LEMMA Answer ==
    ASSUME GInv, NEW k \in Clients, wire[k] # <<>>
    PROVE  /\ Len(wire[k]) >= 2 /\ wire[k][2] \in {"OK", "FILE_NOT_FOUND"}
           /\ (wire[k][2] = "OK" \/ Len(wire[k]) > 2) =>
                served[k] \in DOMAIN Files /\ Len(Content(k)) \in Nat
                /\ Response(k, Len(wire[k]) - 7)
<1>1. CASE wire[k] = NotFound
  BY <1>1, Headers
<1>2. CASE Response(k, Len(wire[k]) - 7)
  <2>1. served[k] \in DOMAIN Files /\ Len(Content(k)) \in Nat
    BY <1>2, FileBytes DEF Response, Content
  <2>2. Len(wire[k]) >= 7 /\ wire[k][2] = OkHeader[2]
    BY <1>2, <2>1 DEF Response
  <2> QED BY <1>2, <2>1, <2>2, Headers
<1> QED BY <1>1, <1>2 DEF GInv, WireInv

LEMMA EmptyLine == FirstLine(<<>>) = <<>>
<1>1. Min({1}) = 1
  BY DEF Min
<1> DEFINE s == <<>>
           first == Min({i \in 1..Len(s) : s[i] # "\n"} \cup {Len(s) + 1})
           end   == Min({i \in first..Len(s) : s[i] \in {"\n", "NUL"}} \cup {Len(s) + 1})
<1>2. Len(s) = 0
  OBVIOUS
<1>3. first = 1
  <2>1. {i \in 1..Len(s) : s[i] # "\n"} \cup {Len(s) + 1} = {1}
    BY <1>2
  <2> QED BY <1>1, <2>1
<1> HIDE DEF first
<1>4. end = 1
  <2>1. {i \in first..Len(s) : s[i] \in {"\n", "NUL"}} \cup {Len(s) + 1} = {1}
    BY <1>2, <1>3
  <2> QED BY <1>1, <2>1
<1> HIDE DEF end
<1>5. SubSeq(s, first, end - 1) = <<>>
  BY <1>3, <1>4, SubSeqEmpty
<1> QED BY <1>5 DEF FirstLine, first, end

LEMMA RecvHeaderStep == ASSUME GInv, NEW k \in Clients, RecvHeader(k) PROVE GInv'
<1>a. PICK n \in Available(k) : /\ got' = [got EXCEPT ![k] = got[k] + n]
                                 /\ Parse(k, SubSeq(wire[k], 1, got[k] + n))
  BY DEF RecvHeader
<1>b. PICK full : full = SubSeq(wire[k], 1, got[k] + n) /\ Parse(k, full)
  BY <1>a
<1>c. PICK line : line = FirstLine(SubSeq(full, Len(OkHeader) + 1, Len(full)))
  OBVIOUS
<1> DEFINE Begins   == /\ Len(full) < 2 /\ Continue
                       /\ UNCHANGED <<headercheck, filelen, status, file, clean>>
           Missing  == /\ Len(full) >= 2 /\ full[2] = "FILE_NOT_FOUND"
                       /\ status' = [status EXCEPT ![k] = "FILE_NOT_FOUND"]
                       /\ Return(k, 0) /\ UNCHANGED <<headercheck, filelen, file, clean>>
           Found    == /\ Len(full) \in {2, 3} /\ full[2] = "OK"
                       /\ status' = [status EXCEPT ![k] = "OK"]
                       /\ Continue /\ UNCHANGED <<headercheck, filelen, file, clean>>
           Complete == /\ Len(full) >= 4 /\ full[2] = "OK"
                       /\ status' = [status EXCEPT ![k] = "OK"]
                       /\ headercheck' = [headercheck EXCEPT ![k] = TRUE]
                       /\ filelen' = [filelen EXCEPT ![k] = Len(Content(k))]
                       /\ file' = [file EXCEPT ![k] = line]
                       /\ clean' = [clean EXCEPT ![k] = (Len(full) = Len(OkHeader))]
                       /\ \/ Len(line) = Len(Content(k)) /\ Return(k, 0)
                          \/ Continue
<1>d. Begins \/ Missing \/ Found \/ Complete
  BY <1>b, <1>c, Zenon DEF Parse, Content
<1>0. got' = [got EXCEPT ![k] = got[k] + n] /\ (Begins \/ Missing \/ Found \/ Complete)
  BY <1>a, <1>d
<1> HIDE DEF Begins, Missing, Found, Complete
<1>1. /\ cpc[k] = "recv" /\ ~headercheck[k] /\ UNCHANGED <<path, backlog>> /\ NoServer
      /\ file[k] = <<>> /\ ~clean[k]
      /\ cpc \in [Clients -> {"start", "recv", "returned", "fault", "exited"}]
  BY DEF RecvHeader, GInv, ClientInv, Known, TypeOK
<1>2. /\ got[k] + n \in Nat /\ got[k] + n \in 1..Len(wire[k]) /\ Len(wire[k]) \in Nat
      /\ got'[k] = got[k] + n /\ got' \in [Clients -> Nat]
      /\ wire[k] \in Seq(Tokens) /\ wire[k] # <<>>
  <2>1. /\ got[k] \in Nat /\ got \in [Clients -> Nat] /\ wire[k] \in Seq(Tokens)
        /\ Len(wire[k]) \in Nat /\ n \in 1..(Len(wire[k]) - got[k])
    BY DEF Available, GInv, Typed
  <2>2. wire[k] # <<>>
    BY <2>1
  <2> QED BY <1>0, <2>1, <2>2
<1>3. Len(full) = got[k] + n /\ \A i \in 1..(got[k] + n) : full[i] = wire[k][i]
  <2>1. \A i \in 1..(got[k] + n) : wire[k][i] \in Tokens
    BY <1>2
  <2>2. got[k] + n \in Int /\ 1 \in Int
    BY <1>2
  <2> HIDE DEF Available
  <2> QED BY <1>b, <1>2, <2>1, <2>2, SubSeqProperties
<1>4. got'[k] \in 0..Len(wire[k])
  BY <1>2
<1>5. /\ Continue => UNCHANGED <<cpc, ret>>
      /\ Return(k, 0) => /\ cpc' = [cpc EXCEPT ![k] = "returned"] /\ ret' = [ret EXCEPT ![k] = 0]
  BY DEF Continue, Return
<1>6. ASSUME full[2] = "OK", Len(full) >= 2
      PROVE  served[k] \in DOMAIN Files /\ Len(Content(k)) \in Nat
  BY <1>2, <1>3, <1>6, Answer
<1>7. Typed' /\ cpc' \in [Clients -> {"start", "recv", "returned", "fault", "exited"}]
      /\ cpc'[k] \notin {"start", "fault"} /\ Only(k)
  <2>1. /\ UNCHANGED <<path, wire, split, served>>
        /\ path \in [Clients -> Paths]
        /\ headercheck \in [Clients -> BOOLEAN] /\ clean \in [Clients -> BOOLEAN]
        /\ split \in [Clients -> BOOLEAN]
        /\ wire \in [Clients -> Seq(Tokens)]
        /\ got \in [Clients -> Nat] /\ filelen \in [Clients -> Nat]
        /\ status \in [Clients -> {"OK", "FILE_NOT_FOUND"}] /\ ret \in [Clients -> {0, -1}]
        /\ served \in [Clients -> DOMAIN Files \cup {NULL}]
        /\ file = [c \in Clients |-> file[c]]
    BY <1>1 DEF GInv, Typed, NoServer
  <2>2. /\ status' \in [Clients -> {"OK", "FILE_NOT_FOUND"}] /\ ret' \in [Clients -> {0, -1}]
        /\ headercheck' \in [Clients -> BOOLEAN] /\ clean' \in [Clients -> BOOLEAN]
        /\ filelen' \in [Clients -> Nat]
    <3>1. CASE Begins
      BY <1>5, <2>1, <3>1 DEF Begins
    <3>2. CASE Missing
      BY <1>5, <2>1, <3>2 DEF Missing
    <3>3. CASE Found
      BY <1>5, <2>1, <3>3 DEF Found
    <3>4. CASE Complete
      <4>1. Len(Content(k)) \in Nat /\ (Len(full) = Len(OkHeader)) \in BOOLEAN
        BY <1>2, <1>3, <1>6, <3>4 DEF Complete
      <4> QED BY <1>5, <2>1, <3>4, <4>1 DEF Complete
    <3> QED BY <1>0, <3>1, <3>2, <3>3, <3>4
  <2>3. file' = [c \in Clients |-> file'[c]]
    BY <1>0, <2>1 DEF Begins, Missing, Found, Complete
  <2>4. cpc' \in [Clients -> {"start", "recv", "returned", "fault", "exited"}]
        /\ cpc'[k] \notin {"start", "fault"}
    BY <1>0, <1>1, <1>5 DEF Begins, Missing, Found, Complete
  <2>5. Only(k)
    BY <1>0, <1>1, <1>5, <2>1 DEF Only, Begins, Missing, Found, Complete
  <2> QED BY <1>2, <2>1, <2>2, <2>3, <2>4, <2>5 DEF Typed
<1>8. Known(k)'
  <2>1. Content(k)' = Content(k) /\ closed' = closed
    BY <1>1 DEF Content, NoServer
  <2>2. ASSUME ~headercheck'[k], file'[k] = <<>>, ~clean'[k], ~Succeeded(k)',
               cpc'[k] = "returned" => ret'[k] = 0
        PROVE  Known(k)'
    BY <2>2 DEF Known
  <2>3. CASE Begins
    BY <1>1, <1>5, <2>2, <2>3 DEF Succeeded, Begins
  <2>4. CASE Missing
    BY <1>1, <1>5, <2>2, <2>4 DEF Succeeded, GInv, Typed, Missing
  <2>5. CASE Found
    BY <1>1, <1>5, <2>2, <2>5 DEF Succeeded, Found
  <2>6. CASE Complete
    <3>1. /\ status'[k] = "OK" /\ headercheck'[k] /\ filelen'[k] = Len(Content(k))
          /\ file'[k] = line /\ (clean'[k] <=> Len(full) = 7) /\ got'[k] >= 4
          /\ cpc'[k] = "returned" => ret'[k] = 0 /\ Len(line) = Len(Content(k))
      BY <1>1, <1>2, <1>3, <1>5, <2>6, Headers DEF GInv, Typed, Complete
    <3>2. clean'[k] => line = <<>> /\ got'[k] = 7
      <4> SUFFICES ASSUME clean'[k] PROVE line = <<>> /\ got'[k] = 7
        OBVIOUS
      <4>1. Len(full) = 7 /\ Len(OkHeader) = 7 /\ got'[k] = 7
        BY <1>2, <1>3, <3>1, Headers
      <4>2. SubSeq(full, Len(OkHeader) + 1, Len(full)) = <<>>
        BY <4>1, SubSeqEmpty
      <4> QED BY <1>c, <4>1, <4>2, EmptyLine
    <3>3. <<>> \in Seq(Tokens) /\ Len(<<>>) = 0
      BY Headers
    <3>4. clean'[k] => /\ got'[k] >= 7 /\ file'[k] \in Seq(Tokens) /\ Len(file'[k]) = got'[k] - 7
                       /\ \A i \in 1..(got'[k] - 7) : file'[k][i] = Content(k)[i]
      BY <3>1, <3>2, <3>3
    <3> QED BY <2>1, <3>1, <3>4 DEF Known, Succeeded
  <2> QED BY <1>0, <2>3, <2>4, <2>5, <2>6
<1> QED BY <1>1, <1>4, <1>7, <1>8, ClientSteps

\* Where byte i of the body is when g tokens and then n have been received.
LEMMA BodyIndex ==
    ASSUME NEW g \in Nat, NEW n \in Nat, NEW w \in Nat, g >= 7, g + n <= w,
           NEW i \in 1..((g + n) - 7), i > g - 7
    PROVE  /\ i - (g - 7) \in 1..n /\ i \in 1..(w - 7) /\ g + (i - (g - 7)) = 7 + i
OBVIOUS

LEMMA RecvBodyStep == ASSUME GInv, NEW k \in Clients, RecvBody(k) PROVE GInv'
<1>a. PICK n \in Available(k) :
        LET more == file[k] \o SubSeq(wire[k], got[k] + 1, got[k] + n)
        IN  /\ got' = [got EXCEPT ![k] = @ + n]
            /\ file' = [file EXCEPT ![k] = more]
            /\ IF Len(more) = filelen[k] THEN Return(k, 0) ELSE Continue
  BY Zenon DEF RecvBody
<1>b. PICK piece, more : /\ piece = SubSeq(wire[k], got[k] + 1, got[k] + n)
                         /\ more = file[k] \o piece
  OBVIOUS
<1>0. /\ got' = [got EXCEPT ![k] = got[k] + n] /\ file' = [file EXCEPT ![k] = more]
      /\ \/ Continue
         \/ Len(more) = filelen[k] /\ Return(k, 0)
  BY <1>a, <1>b
<1>1. /\ cpc[k] = "recv" /\ headercheck[k] /\ NoServer
      /\ UNCHANGED <<path, headercheck, filelen, status, clean, backlog>>
      /\ cpc \in [Clients -> {"start", "recv", "returned", "fault", "exited"}]
  BY DEF RecvBody, GInv, TypeOK
<1>2. /\ got[k] + n \in 1..Len(wire[k]) /\ Len(wire[k]) \in Nat /\ got[k] \in Nat /\ n \in Nat \ {0}
      /\ got'[k] = got[k] + n /\ got' \in [Clients -> Nat] /\ wire[k] \in Seq(Tokens)
  <2>1. /\ got[k] \in Nat /\ got \in [Clients -> Nat] /\ wire[k] \in Seq(Tokens)
        /\ Len(wire[k]) \in Nat /\ n \in 1..(Len(wire[k]) - got[k])
    BY DEF Available, GInv, Typed
  <2> QED BY <1>0, <2>1
<1>3. /\ piece \in Seq(Tokens) /\ Len(piece) = n
      /\ \A i \in 1..n : piece[i] = wire[k][got[k] + i]
  <2>1. PICK m, h : m = got[k] + 1 /\ h = got[k] + n
    OBVIOUS
  <2>0. ASSUME NEW a \in Nat, NEW d \in Nat \ {0}
        PROVE  /\ a + 1 \in Int /\ a + d \in Int /\ a + 1 <= a + d /\ (a + d) - (a + 1) + 1 = d
               /\ \A i \in 1..d : (a + 1) + i - 1 = a + i
    OBVIOUS
  <2>2. m \in Int /\ h \in Int /\ m <= h /\ h - m + 1 = n
    BY <1>2, <2>0, <2>1
  <2>3. \A i \in m..h : wire[k][i] \in Tokens
    BY <1>2, <2>1
  <2>4. piece = SubSeq(wire[k], m, h)
    BY <1>b, <2>1
  <2> HIDE DEF Available
  <2>5. /\ SubSeq(wire[k], m, h) \in Seq(Tokens)
        /\ Len(SubSeq(wire[k], m, h)) = IF m <= h THEN h - m + 1 ELSE 0
        /\ \A i \in 1..(h - m + 1) : SubSeq(wire[k], m, h)[i] = wire[k][m + i - 1]
    BY <2>2, <2>3, SubSeqProperties
  <2>6. \A i \in 1..n : m + i - 1 = got[k] + i
    BY <1>2, <2>0, <2>1
  <2> QED BY <2>2, <2>4, <2>5, <2>6
<1>4. /\ Continue => UNCHANGED <<cpc, ret>>
      /\ Return(k, 0) => /\ cpc' = [cpc EXCEPT ![k] = "returned"] /\ ret' = [ret EXCEPT ![k] = 0]
  BY DEF Continue, Return
<1>5. Typed' /\ cpc' \in [Clients -> {"start", "recv", "returned", "fault", "exited"}]
      /\ cpc'[k] \notin {"start", "fault"} /\ Only(k)
  <2>1. UNCHANGED <<path, wire, split, served>> /\ Typed
    BY <1>1 DEF GInv, NoServer
  <2>2. ret' \in [Clients -> {0, -1}] /\ file' = [c \in Clients |-> file'[c]]
    BY <1>0, <1>4, <2>1 DEF Typed
  <2>3. cpc' \in [Clients -> {"start", "recv", "returned", "fault", "exited"}]
        /\ cpc'[k] \notin {"start", "fault"}
    BY <1>0, <1>1, <1>4
  <2>4. Only(k)
    BY <1>0, <1>1, <1>4, <2>1 DEF Only, Typed
  <2> QED BY <1>1, <1>2, <2>1, <2>2, <2>3, <2>4 DEF Typed
<1>6. file'[k] = more
  BY <1>0 DEF GInv, Typed
<1>7. clean[k] => /\ more \in Seq(Tokens) /\ Len(more) = got'[k] - 7 /\ got'[k] >= 7
                  /\ \A i \in 1..(got'[k] - 7) : more[i] = Content(k)[i]
  <2> SUFFICES ASSUME clean[k]
               PROVE  /\ more \in Seq(Tokens) /\ Len(more) = got'[k] - 7 /\ got'[k] >= 7
                      /\ \A i \in 1..(got'[k] - 7) : more[i] = Content(k)[i]
    OBVIOUS
  <2>1. /\ got[k] >= 7 /\ file[k] \in Seq(Tokens) /\ Len(file[k]) = got[k] - 7
        /\ \A i \in 1..(got[k] - 7) : file[k][i] = Content(k)[i]
    BY DEF GInv, ClientInv, Known
  <2>2. /\ more \in Seq(Tokens) /\ Len(more) = Len(file[k]) + Len(piece)
        /\ \A i \in 1..(Len(file[k]) + Len(piece)) :
             more[i] = IF i <= Len(file[k]) THEN file[k][i] ELSE piece[i - Len(file[k])]
    <3>1. PICK f : f = file[k]
      OBVIOUS
    <3>2. f \in Seq(Tokens) /\ piece \in Seq(Tokens) /\ more = f \o piece
      BY <1>b, <1>3, <2>1, <3>1
    <3>3. /\ f \o piece \in Seq(Tokens) /\ Len(f \o piece) = Len(f) + Len(piece)
          /\ \A i \in 1..(Len(f) + Len(piece)) :
               (f \o piece)[i] = IF i <= Len(f) THEN f[i] ELSE piece[i - Len(f)]
      BY <3>2, ConcatProperties
    <3> QED BY <3>1, <3>2, <3>3
  <2>3. Len(more) = got'[k] - 7 /\ got'[k] >= 7
    BY <1>2, <1>3, <2>1, <2>2
  <2>4. Response(k, Len(wire[k]) - 7)
    <3>1. wire[k] # <<>> /\ Len(wire[k]) > 2
      BY <1>2, <2>1
    <3> QED BY <3>1, Answer
  <2>5. \A i \in 1..(got'[k] - 7) : more[i] = Content(k)[i]
    <3> SUFFICES ASSUME NEW i \in 1..(got'[k] - 7) PROVE more[i] = Content(k)[i]
      OBVIOUS
    <3>1. CASE i <= got[k] - 7
      BY <1>2, <1>3, <2>1, <2>2, <3>1
    <3>2. CASE i > got[k] - 7
      <4>1. /\ i - (got[k] - 7) \in 1..n /\ i \in 1..(Len(wire[k]) - 7)
            /\ got[k] + (i - (got[k] - 7)) = 7 + i
        BY <1>2, <2>1, <3>2, BodyIndex
      <4>2. more[i] = piece[i - (got[k] - 7)]
        <5>1. i \in 1..(Len(file[k]) + Len(piece)) /\ ~(i <= Len(file[k]))
          BY <1>2, <1>3, <2>1, <3>2
        <5> QED BY <2>1, <2>2, <5>1
      <4>3. more[i] = wire[k][got[k] + (i - (got[k] - 7))]
        BY <1>3, <4>1, <4>2
      <4>4. wire[k][7 + i] = Content(k)[i]
        BY <2>4, <4>1 DEF Response
      <4> QED BY <4>1, <4>3, <4>4
    <3> QED BY <1>2, <2>1, <3>1, <3>2
  <2> QED BY <2>2, <2>3, <2>5
<1>8. Known(k)'
  <2>1. Content(k)' = Content(k) /\ closed' = closed
    BY <1>1 DEF Content, NoServer
  <2>2. /\ status[k] = "OK" /\ got'[k] >= 4 /\ filelen[k] = Len(Content(k))
    BY <1>1, <1>2 DEF GInv, ClientInv, Known
  <2>3. cpc'[k] = "returned" => ret'[k] = 0 /\ Len(more) = filelen[k]
    BY <1>0, <1>1, <1>4 DEF GInv, Typed
  <2> QED BY <1>1, <1>6, <1>7, <2>1, <2>2, <2>3 DEF Known, Succeeded
<1> QED BY <1>1, <1>2, <1>5, <1>8, ClientSteps

\* The end of the stream, or a reset: the second word that was received decides.
LEMMA RecvEndStep == ASSUME GInv, NEW k \in Clients, RecvEnd(k) \/ RecvReset(k) PROVE GInv'
<1>1. /\ cpc[k] = "recv" /\ NoServer
      /\ UNCHANGED <<path, got, headercheck, status, file, clean, backlog>>
      /\ cpc \in [Clients -> {"start", "recv", "returned", "fault", "exited"}]
      /\ got[k] \in 0..Len(wire[k]) /\ wire[k] \in Seq(Tokens)
  BY DEF RecvEnd, RecvReset, GInv, TypeOK, Typed
<1>2. k \in closed
  BY DEF RecvEnd, RecvReset, GInv, ServerInv
<1>3. Return(k, -1) => cpc' = [cpc EXCEPT ![k] = "returned"] /\ ret' = [ret EXCEPT ![k] = -1]
  BY DEF Return
<1>4. \/ Return(k, -1) /\ filelen' = filelen
      \/ Return(k, -1) /\ got[k] >= 3 /\ filelen' = [filelen EXCEPT ![k] = Len(Content(k))]
      \/ /\ spc = "dead" /\ cpc' = [cpc EXCEPT ![k] = "fault"] /\ UNCHANGED <<ret, filelen>>
  <2>1. CASE RecvReset(k)
    BY <2>1 DEF RecvReset
  <2>2. CASE RecvEnd(k) /\ got[k] >= 2
    BY <2>2 DEF RecvEnd, Content
  <2>3. CASE RecvEnd(k) /\ got[k] < 2
    <3>1. got[k] = Len(wire[k])
      BY <2>3 DEF RecvEnd
    <3>2. wire[k] = <<>>
      <4>1. wire[k] # <<>> => Len(wire[k]) >= 2
        BY Answer
      <4>2. Len(wire[k]) \in Nat
        BY <1>1
      <4> QED BY <2>3, <3>1, <4>1, <4>2
    <3>3. spc = "dead"
      BY <1>2, <3>2 DEF GInv, ServerInv
    <3> QED BY <2>3, <3>3 DEF RecvEnd
  <2>4. got[k] >= 2 \/ got[k] < 2
    BY <1>1
  <2> QED BY <2>1, <2>2, <2>3, <2>4
<1>5. got[k] >= 3 => Len(Content(k)) \in Nat
  <2> SUFFICES ASSUME got[k] >= 3 PROVE Len(Content(k)) \in Nat
    OBVIOUS
  <2>1. wire[k] # <<>> /\ Len(wire[k]) > 2
    BY <1>1
  <2> QED BY <2>1, Answer
<1>6. Typed' /\ cpc' \in [Clients -> {"start", "recv", "returned", "fault", "exited"}]
      /\ cpc'[k] # "start" /\ (cpc'[k] = "fault" => spc = "dead") /\ Only(k)
  <2>1. UNCHANGED <<path, wire, split, served>> /\ Typed
    BY <1>1 DEF GInv, NoServer
  <2>2. ret' \in [Clients -> {0, -1}] /\ filelen' \in [Clients -> Nat]
    BY <1>3, <1>4, <1>5, <2>1 DEF Typed
  <2>3. cpc' \in [Clients -> {"start", "recv", "returned", "fault", "exited"}]
        /\ cpc'[k] # "start" /\ (cpc'[k] = "fault" => spc = "dead")
    BY <1>1, <1>3, <1>4
  <2>4. Only(k)
    BY <1>1, <1>3, <1>4, <2>1 DEF Only, Typed
  <2> QED BY <1>1, <2>1, <2>2, <2>3, <2>4 DEF Typed
<1>7. Known(k)'
  <2>1. Content(k)' = Content(k) /\ closed' = closed
    BY <1>1 DEF Content, NoServer
  <2>2. headercheck[k] => filelen'[k] = Len(Content(k))
    BY <1>4 DEF GInv, Typed, ClientInv, Known
  <2>3. ~Succeeded(k)'
    BY <1>1, <1>3, <1>4 DEF Succeeded, GInv, Typed
  <2> QED BY <1>1, <1>2, <2>1, <2>2, <2>3 DEF Known, GInv, ClientInv
<1> QED BY <1>1, <1>6, <1>7, ClientSteps

-----------------------------------------------------------------------------
(* What follows.                                                           *)

LEMMA StepGInv == GInv /\ [Next]_vars => GInv'
<1> SUFFICES ASSUME GInv, [Next]_vars PROVE GInv'
  OBVIOUS
<1>1. CASE Server
  BY <1>1, AcceptFailsStep, AcceptStep, RecvStep, RefuseStep, FoundStep, SendStep,
     SendKilledStep, SendEndsStep DEF Server, Handle
<1>2. ASSUME NEW c \in Clients, Connect(c) \/ Receive(c) PROVE GInv'
  BY <1>2, ConnectStep, RecvHeaderStep, RecvBodyStep, RecvEndStep DEF Receive
<1>3. CASE UNCHANGED vars
  <2>1. UNCHANGED <<backlog, wire, closed, opened, spc, conn, parsed, sent, cpc, path, got,
                    headercheck, filelen, status, ret, file, clean, limit, served, split>>
    BY <1>3 DEF vars, net, server, client
  <2>2. Typed' /\ TypeOK'
    BY <2>1 DEF GInv, Typed, TypeOK
  <2>3. WireInv' /\ RightFile' /\ ClientInv'
    BY <2>1, WireFrame, ClientFrame DEF GInv, Typed, NoClient, client
  <2>4. ServerInv'
    BY <2>1 DEF GInv, ServerInv, Response, Content
  <2>5. DeathsHaveCause'
    BY <2>1 DEF GInv, DeathsHaveCause, ServerDeathHasCause, FaultHasCause, Misread
  <2> QED BY <2>2, <2>3, <2>4, <2>5 DEF GInv
<1> QED BY <1>1, <1>2, <1>3 DEF Next

LEMMA Invariance == Spec => []GInv
BY InitGInv, StepGInv, PTL DEF Spec

\* gfclient_download.c calls gfc_perform: what its programs do is a behaviour of
\* the protocol, in which each request is a client.
LEMMA ImplementsGetfile == DownloadSpec => Spec
<1>1. DownloadInit => Init
  BY DEF DownloadInit
<1>2. [DownloadNext]_<<vars, plan, dvars>> => [Next]_vars
  BY DEF DownloadNext, Perform, Program, OpenFile, CannotOpen, Close, CheckStatus, Step, Next
<1> QED BY <1>1, <1>2, PTL DEF DownloadSpec, Spec

LEMMA DownloadInvariance == DownloadSpec => []GInv
BY ImplementsGetfile, Invariance, PTL

\* gfclient.c: after a clean start the bytes written are a prefix of the file and
\* a success has all of it; a success in any case has as many bytes as announced.
THEOREM Deliveries == DownloadSpec => []Delivery
<1>1. GInv => Delivery
  <2> SUFFICES ASSUME GInv PROVE CleanDelivery /\ SuccessHasLength
    BY DEF GInv, Delivery
  <2>1. ASSUME NEW c \in Clients, clean[c]
        PROVE  /\ file[c] = SubSeq(Content(c), 1, Len(file[c]))
               /\ Succeeded(c) => file[c] = Content(c)
    <3>1. /\ headercheck[c] /\ got[c] >= 7 /\ file[c] \in Seq(Tokens) /\ Len(file[c]) = got[c] - 7
          /\ \A i \in 1..(got[c] - 7) : file[c][i] = Content(c)[i]
          /\ filelen[c] = Len(Content(c)) /\ got[c] \in 0..Len(wire[c])
          /\ Succeeded(c) => Len(file[c]) = filelen[c]
      BY <2>1 DEF GInv, ClientInv, Known, TypeOK
    <3>2. Response(c, Len(wire[c]) - 7) /\ served[c] \in DOMAIN Files /\ Len(wire[c]) \in Nat
      <4>1. wire[c] \in Seq(Tokens) /\ Len(wire[c]) \in Nat
        BY DEF GInv, Typed
      <4>2. wire[c] # <<>> /\ Len(wire[c]) > 2
        BY <3>1, <4>1
      <4> QED BY <4>1, <4>2, Answer
    <3>3. Content(c) \in Seq(Tokens) /\ Len(Content(c)) \in Nat
          /\ \A i \in 1..Len(Content(c)) : Content(c)[i] \in Tokens
      BY <3>2, FileBytes DEF Content
    <3>4. PICK n : n = Len(file[c]) /\ n \in 0..Len(Content(c))
      BY <3>1, <3>2, <3>3 DEF Response
    <3>5. /\ SubSeq(Content(c), 1, n) \in Seq(Tokens) /\ Len(SubSeq(Content(c), 1, n)) = n
          /\ \A i \in 1..n : SubSeq(Content(c), 1, n)[i] = Content(c)[i]
      <4>1. n \in Int /\ \A i \in 1..n : Content(c)[i] \in Tokens
        BY <3>3, <3>4
      <4>2. /\ SubSeq(Content(c), 1, n) \in Seq(Tokens)
            /\ Len(SubSeq(Content(c), 1, n)) = IF 1 <= n THEN n - 1 + 1 ELSE 0
            /\ \A i \in 1..(n - 1 + 1) : SubSeq(Content(c), 1, n)[i] = Content(c)[1 + i - 1]
        BY <4>1, SubSeqProperties
      <4>3. n \in Nat /\ n - 1 + 1 = n /\ \A i \in 1..n : 1 + i - 1 = i
        BY <3>3, <3>4
      <4> QED BY <4>2, <4>3
    <3>6. file[c] = SubSeq(Content(c), 1, n)
      BY <3>1, <3>4, <3>5, SeqEqual
    <3>7. Succeeded(c) => file[c] = Content(c)
      BY <3>1, <3>3, SeqEqual
    <3> QED BY <3>4, <3>6, <3>7
  <2>2. ASSUME NEW c \in Clients, cpc[c] = "returned"
        PROVE  /\ Succeeded(c) => Len(file[c]) = Len(Content(c))
               /\ status[c] = "FILE_NOT_FOUND" => file[c] = <<>>
    BY <2>2 DEF GInv, ClientInv, Known
  <2> QED BY <2>1, <2>2 DEF CleanDelivery, SuccessHasLength
<1> QED BY <1>1, DownloadInvariance, PTL

\* gfserver.c: although readData is shared by all requests and never cleared, a
\* client whose request came whole is sent the file it asked for.
THEOREM RightFiles == DownloadSpec => []RightFile
BY DownloadInvariance, PTL DEF GInv

\* gfserver.c and gfclient.c: what alone ends the server and a client.
THEOREM DeathCauses == DownloadSpec => []DeathsHaveCause
BY DownloadInvariance, PTL DEF GInv

-----------------------------------------------------------------------------
(* The directory.                                                          *)

LEMMA InitKeepInv == DownloadInit => KeepInv
<1> SUFFICES ASSUME DownloadInit PROVE KeepInv
  OBVIOUS
<1> QED BY DEF DownloadInit, KeepInv

\* Requests have local names, and the name of one whose path no other program
\* asks for is its own.
LEMMA NamesDiffer ==
    ASSUME GInv, KeepInv, NEW c \in Clients
    PROVE  /\ LocalName(c) \in Names
           /\ Alone(c) => \A d \in Clients \ {c} : LocalName(d) # LocalName(c)
<1>1. \A d \in Clients : plan[d] \in Programs \X (0..(NRequests - 1))
  BY PlanAssumption DEF KeepInv
<1>2. LocalName(c) \in Names
  <2>1. path[c] \in Paths
    BY DEF GInv, Typed
  <2> QED BY <1>1, <2>1 DEF LocalName, Names, Number
<1>3. ASSUME Alone(c), NEW d \in Clients \ {c} PROVE LocalName(d) # LocalName(c)
  <2> SUFFICES ASSUME path[d] = path[c], Number(d) = Number(c) PROVE FALSE
    BY DEF LocalName
  <2>1. ProgramOf(d) = ProgramOf(c)
    BY <1>3 DEF Alone
  <2>2. plan[d] = plan[c]
    BY <1>1, <2>1 DEF ProgramOf, Number
  <2> QED BY <2>2, PlanAssumption DEF KeepInv
<1> QED BY <1>2, <1>3

LEMMA KeepFrame ==
    ASSUME KeepInv, UNCHANGED <<plan, dvars, path>>,
           \A c \in Clients : cpc[c] = "returned" =>
             cpc'[c] = "returned" /\ ret'[c] = ret[c] /\ status'[c] = status[c]
    PROVE  KeepInv'
BY DEF KeepInv, dvars, Alone, LocalName, ProgramOf, Number

\* A step of one request's program.
LEMMA ProgramStep == ASSUME GInv, KeepInv, NEW k \in Clients, Program(k) PROVE KeepInv'
<1>0. PICK n : n = LocalName(k)
  OBVIOUS
<1>1. /\ UNCHANGED <<path, ret, status, cpc, plan>>
      /\ dpc \in [Clients -> {"wait", "open", "closed", "done", "exit"}]
      /\ disk \in [Names -> Clients \cup {NULL}] /\ n \in Names /\ NULL \notin Clients
      /\ ret[k] \in {0, -1}
  BY <1>0, NamesDiffer, PathAssumption
     DEF Program, OpenFile, CannotOpen, Close, CheckStatus, Step, vars, client, KeepInv, GInv, Typed
<1>2. \A c \in Clients : LocalName(c)' = LocalName(c) /\ (Alone(c)' <=> Alone(c))
  BY <1>1 DEF LocalName, Number, Alone, ProgramOf
<1>3. /\ dpc' \in [Clients -> {"wait", "open", "closed", "done", "exit"}]
      /\ disk' \in [Names -> Clients \cup {NULL}]
      /\ \A c \in Clients \ {k} : dpc'[c] = dpc[c]
      /\ \A m \in Names : m # n => disk'[m] = disk[m]
      /\ \/ /\ dpc[k] = "wait" /\ dpc'[k] = "open"
            /\ disk'[n] = IF disk[n] = NULL THEN k ELSE disk[n]
         \/ dpc'[k] = "exit" /\ disk'[n] = disk[n]
         \/ /\ dpc[k] = "open" /\ dpc'[k] = "closed" /\ cpc[k] = "returned"
            /\ disk'[n] = IF ret[k] < 0 THEN NULL ELSE disk[n]
         \/ /\ dpc[k] = "closed" /\ dpc'[k] = "done"
            /\ disk'[n] = IF status[k] # "OK" THEN NULL ELSE disk[n]
  <2>1. CASE OpenFile(k)
    BY <1>0, <1>1, <2>1 DEF OpenFile, Step
  <2>2. CASE CannotOpen(k)
    BY <1>0, <1>1, <2>2 DEF CannotOpen, Step
  <2>3. CASE Close(k)
    BY <1>0, <1>1, <2>3 DEF Close, Step, Unlinked
  <2>4. CASE CheckStatus(k)
    BY <1>0, <1>1, <2>4 DEF CheckStatus, Step, Unlinked
  <2> QED BY <2>1, <2>2, <2>3, <2>4 DEF Program
<1>5. \A m \in Names : disk'[m] # NULL => LocalName(disk'[m]) = m
  BY <1>0, <1>1, <1>3 DEF KeepInv
<1>6. ASSUME NEW c \in Clients
      PROVE  /\ dpc'[c] \in {"closed", "done"} => cpc[c] = "returned"
             /\ Alone(c) =>
                  /\ dpc'[c] = "open" => disk'[LocalName(c)] = c
                  /\ dpc'[c] = "closed" => (disk'[LocalName(c)] = c <=> ret[c] = 0)
                  /\ dpc'[c] = "done" =>
                       (disk'[LocalName(c)] = c <=> ret[c] = 0 /\ status[c] = "OK")
  <2>1. CASE c = k
    <3>1. Alone(k) => disk[n] \in {k, NULL}
      <4>1. Alone(k) => \A d \in Clients \ {k} : LocalName(d) # n
        BY <1>0, NamesDiffer
      <4> QED BY <1>1, <4>1 DEF KeepInv
    <3> QED BY <1>0, <1>1, <1>3, <2>1, <3>1 DEF KeepInv
  <2>2. CASE c # k
    <3>1. Alone(c) => disk'[LocalName(c)] = disk[LocalName(c)]
      BY <1>0, <1>3, <2>2, NamesDiffer
    <3> QED BY <1>3, <2>2, <3>1 DEF KeepInv
  <2> QED BY <2>1, <2>2
<1>7. \A m \in Names : disk'[m] # NULL => LocalName(disk[m])' = m
  BY <1>1, <1>5 DEF LocalName, Number
<1>8. plan' \in Plans
  BY <1>1 DEF KeepInv
<1> QED BY <1>1, <1>2, <1>3, <1>6, <1>7, <1>8 DEF KeepInv

LEMMA KeepStep == GInv /\ KeepInv /\ [DownloadNext]_<<vars, plan, dvars>> => KeepInv'
<1> SUFFICES ASSUME GInv, KeepInv, [DownloadNext]_<<vars, plan, dvars>> PROVE KeepInv'
  OBVIOUS
<1>1. CASE Server /\ UNCHANGED <<plan, dvars>>
  <2>1. UNCHANGED <<client, limit>>
    BY <1>1 DEF Server, AcceptFails, Accept, Recv, Handle, Refuse, HandlerMissing, HandlerFound,
                Send, SendKilled, SendFails, SendDone, NoClient
  <2> QED BY <1>1, <2>1, KeepFrame DEF client
<1>2. ASSUME NEW k \in Clients, Perform(k) PROVE KeepInv'
  <2>1. cpc[k] \in {"start", "recv"} /\ UNCHANGED <<plan, dvars, path>>
    BY <1>2 DEF Perform, Connect, Receive, RecvHeader, RecvBody, RecvEnd, RecvReset
  <2>2. ASSUME NEW c \in Clients \ {k}
        PROVE  cpc'[c] = cpc[c] /\ ret'[c] = ret[c] /\ status'[c] = status[c]
    BY <1>2 DEF Perform, Connect, Receive, RecvHeader, Parse, RecvBody, RecvEnd, RecvReset,
                Return, Continue, GInv, Typed, TypeOK
  <2> QED BY <2>1, <2>2, KeepFrame
<1>3. ASSUME NEW k \in Clients, Program(k) PROVE KeepInv'
  BY <1>3, ProgramStep
<1>4. CASE UNCHANGED <<vars, plan, dvars>>
  BY <1>4, KeepFrame DEF vars, client
<1> QED BY <1>1, <1>2, <1>3, <1>4 DEF DownloadNext

\* gfclient_download.c: what a request leaves in the directory is its own file
\* if it succeeded and nothing if not, when no other program asks for its path.
THEOREM KeptFiles == DownloadSpec => []KeptIfSucceeded
<1>1. KeepInv => KeptIfSucceeded
  BY DEF KeepInv, KeptIfSucceeded
<1>2. DownloadInit => KeepInv
  BY InitKeepInv
<1>3. DownloadSpec => []KeepInv
  BY <1>2, KeepStep, DownloadInvariance, PTL DEF DownloadSpec
<1> QED BY <1>1, <1>3, PTL

-----------------------------------------------------------------------------
(* What a client writes, wherever TCP cuts the stream.                     *)

\* Smaller than, on the naturals, and the least element of a set of them.
Below == {ss \in Nat \X Nat : ss[1] < ss[2]}

LEMMA LeastElement ==
    ASSUME NEW S \in SUBSET Nat, S # {}
    PROVE  Min(S) \in S /\ \A y \in S : Min(S) <= y
<1>1. IsWellFoundedOn(Below, Nat)
  <2>1. IsWellFoundedOn({ss \in Nat \X Nat : ss[1] < ss[2]}, Nat)
    BY NatLessThanWellFounded DEF OpToRel
  <2> QED BY <2>1 DEF Below
<1>2. \E x \in S : \A y \in S : <<y, x>> \notin Below
  BY <1>1, WFMin
<1>3. PICK x \in S : \A y \in S : <<y, x>> \notin Below
  BY <1>2
<1>4. \A y \in S : x <= y
  <2> SUFFICES ASSUME NEW y \in S, ~(x <= y) PROVE FALSE
    OBVIOUS
  <2>1. <<y, x>> \in Nat \X Nat /\ y < x
    OBVIOUS
  <2> QED BY <1>3, <2>1 DEF Below
<1> QED BY <1>3, <1>4 DEF Min

\* strtok: the line begins after the leading line feeds and goes up to the next
\* line feed or zero byte, or to the end of what was received.
LEMMA FirstLineIs ==
    ASSUME NEW T, NEW s \in Seq(T)
    PROVE  \E a \in 1..(Len(s) + 1) : \E b \in (a - 1)..Len(s) :
              /\ FirstLine(s) = SubSeq(s, a, b)
              /\ \A i \in 1..(a - 1) : s[i] = "\n"
              /\ \A i \in a..b : s[i] \notin {"\n", "NUL"}
              /\ b < Len(s) => s[b + 1] \in {"\n", "NUL"}
<1> DEFINE n == Len(s)
           Starts == {i \in 1..n : s[i] # "\n"} \cup {n + 1}
           first  == Min(Starts)
           Ends   == {i \in first..n : s[i] \in {"\n", "NUL"}} \cup {n + 1}
           end    == Min(Ends)
<1>1. n \in Nat
  OBVIOUS
<1>2. FirstLine(s) = SubSeq(s, first, end - 1)
  BY DEF FirstLine
<1> HIDE DEF n
<1>3. first \in Starts /\ \A i \in Starts : first <= i
  <2>1. Starts \in SUBSET Nat /\ n + 1 \in Starts
    BY <1>1
  <2> HIDE DEF Starts
  <2> QED BY <2>1, LeastElement
<1>4. first \in 1..(n + 1) /\ \A i \in 1..(first - 1) : s[i] = "\n"
  <2> HIDE DEF first
  <2> QED BY <1>1, <1>3
<1> HIDE DEF first
<1>5. end \in Ends /\ \A i \in Ends : end <= i
  <2>1. Ends \in SUBSET Nat /\ n + 1 \in Ends
    BY <1>1, <1>4
  <2> HIDE DEF Ends
  <2> QED BY <2>1, LeastElement
<1> HIDE DEF end
<1>6. end - 1 \in (first - 1)..n
  BY <1>1, <1>4, <1>5
<1>7. \A i \in first..(end - 1) : s[i] \notin {"\n", "NUL"}
  BY <1>1, <1>4, <1>5
<1>8. end - 1 < n => s[(end - 1) + 1] \in {"\n", "NUL"}
  <2>1. (end - 1) + 1 = end
    BY <1>1, <1>4, <1>5
  <2> QED BY <1>1, <1>4, <1>5, <2>1
<1> QED BY <1>2, <1>4, <1>6, <1>7, <1>8 DEF n

\* So it is made of the same tokens.
LEMMA FirstLineType == ASSUME NEW T, NEW s \in Seq(T) PROVE FirstLine(s) \in Seq(T)
<1>1. PICK a \in 1..(Len(s) + 1), b \in 0..Len(s) : FirstLine(s) = SubSeq(s, a, b)
  BY FirstLineIs
<1>2. a \in Int /\ b \in Int /\ \A i \in a..b : s[i] \in T
  OBVIOUS
<1> QED BY <1>1, <1>2, SubSeqProperties

\* Writing more leaves what has been received, and parts of sequences agree where
\* the sequences do.
LEMMA SamePart ==
    ASSUME NEW T, NEW s \in Seq(T), NEW t \in Seq(T), NEW m \in Nat, NEW n \in Nat,
           m >= 1, n <= Len(s), n <= Len(t), \A i \in 1..n : s[i] = t[i]
    PROVE  SubSeq(s, m, n) = SubSeq(t, m, n) /\ SubSeq(s, m, n) \in Seq(T)
<1>1. \A i \in m..n : s[i] \in T /\ t[i] \in T /\ s[i] = t[i]
  OBVIOUS
<1>2. /\ SubSeq(s, m, n) \in Seq(T) /\ SubSeq(t, m, n) \in Seq(T)
      /\ Len(SubSeq(s, m, n)) = Len(SubSeq(t, m, n))
      /\ Len(SubSeq(s, m, n)) = IF m <= n THEN n - m + 1 ELSE 0
      /\ \A i \in 1..(n - m + 1) : SubSeq(s, m, n)[i] = s[m + i - 1]
      /\ \A i \in 1..(n - m + 1) : SubSeq(t, m, n)[i] = t[m + i - 1]
  BY <1>1, SubSeqProperties
<1>3. \A i \in 1..Len(SubSeq(s, m, n)) : i \in 1..(n - m + 1) /\ m + i - 1 \in m..n
  BY <1>2
<1>4. \A i \in 1..Len(SubSeq(s, m, n)) : SubSeq(s, m, n)[i] = SubSeq(t, m, n)[i]
  BY <1>1, <1>2, <1>3
<1> QED BY <1>2, <1>4, SeqEqual


\* After h tokens the header was taken as complete: what strtok found of the body
\* that had come, and then everything received later.
From(c, h) == file[c] = FirstLine(SubSeq(wire[c], 8, h)) \o SubSeq(wire[c], h + 1, got[c])
WriteInv == \A c \in Clients : headercheck[c] => \E h \in 4..got[c] : From(c, h)

\* Received tokens stay where they are.
LEMMA WriteFrame ==
    ASSUME GInv, WriteInv, NEW c \in Clients, wire'[c] \in Seq(Tokens),
           \A i \in 1..Len(wire[c]) : wire'[c][i] = wire[c][i], Len(wire[c]) <= Len(wire'[c]),
           headercheck'[c] = headercheck[c], got'[c] = got[c], file'[c] = file[c]
    PROVE  headercheck'[c] => \E h \in 4..got'[c] : From(c, h)'
<1> SUFFICES ASSUME headercheck[c] PROVE \E h \in 4..got[c] : From(c, h)'
  OBVIOUS
<1>1. PICK h \in 4..got[c] : From(c, h)
  BY DEF WriteInv
<1>2. /\ got[c] \in 0..Len(wire[c]) /\ wire[c] \in Seq(Tokens) /\ Len(wire[c]) \in Nat
      /\ got[c] \in Nat /\ Len(wire'[c]) \in Nat
  BY DEF GInv, TypeOK, Typed
<1>3. PICK w, v : w = wire[c] /\ v = wire'[c]
  OBVIOUS
<1>4. SubSeq(w, 8, h) = SubSeq(v, 8, h)
  BY <1>2, <1>3, SamePart
<1>5. SubSeq(w, h + 1, got[c]) = SubSeq(v, h + 1, got[c])
  <2>1. h + 1 \in Nat /\ h + 1 >= 1
    BY <1>2
  <2> QED BY <1>2, <1>3, <2>1, SamePart
<1> QED BY <1>1, <1>3, <1>4, <1>5 DEF From

\* The header is taken as complete.
LEMMA WriteHeader ==
    ASSUME GInv, GInv', WriteInv, NEW k \in Clients, RecvHeader(k), headercheck'[k]
    PROVE  \E h \in 4..got'[k] : From(k, h)'
<1>1. PICK n \in Available(k) : /\ got' = [got EXCEPT ![k] = got[k] + n]
                                 /\ Parse(k, SubSeq(wire[k], 1, got[k] + n))
  BY DEF RecvHeader
<1>2. /\ got[k] \in Nat /\ wire[k] \in Seq(Tokens) /\ Len(wire[k]) \in Nat
      /\ n \in 1..(Len(wire[k]) - got[k]) /\ got'[k] = got[k] + n /\ wire' = wire
      /\ ~headercheck[k] /\ headercheck \in [Clients -> BOOLEAN]
      /\ k \in DOMAIN file
  BY <1>1 DEF RecvHeader, NoServer, Available, GInv, Typed
<1>3. PICK g : g = got[k] + n /\ g \in Nat /\ g <= Len(wire[k]) /\ got'[k] = g
  BY <1>2
<1>4. PICK w : w = wire[k] /\ w \in Seq(Tokens)
  BY <1>2
<1>5. PICK full : full = SubSeq(w, 1, g) /\ Parse(k, full)
  BY <1>1, <1>3, <1>4
<1>6. full \in Seq(Tokens) /\ Len(full) = g /\ \A i \in 1..g : full[i] = w[i]
  <2>1. 1 \in Int /\ g \in Int /\ \A i \in 1..g : w[i] \in Tokens
    BY <1>3, <1>4
  <2>2. /\ SubSeq(w, 1, g) \in Seq(Tokens)
        /\ Len(SubSeq(w, 1, g)) = IF 1 <= g THEN g - 1 + 1 ELSE 0
        /\ \A i \in 1..(g - 1 + 1) : SubSeq(w, 1, g)[i] = w[1 + i - 1]
    BY <2>1, SubSeqProperties
  <2>3. g - 1 + 1 = g /\ \A i \in 1..g : 1 + i - 1 = i
    BY <1>3
  <2> QED BY <1>3, <1>5, <2>2, <2>3
<1>7. file'[k] = FirstLine(SubSeq(full, Len(OkHeader) + 1, Len(full)))
  <2>1. \/ headercheck' = headercheck
        \/ file' = [file EXCEPT ![k] = FirstLine(SubSeq(full, Len(OkHeader) + 1, Len(full)))]
    BY <1>5, Zenon DEF Parse
  <2> QED BY <1>2, <2>1
<1>8. SubSeq(full, Len(OkHeader) + 1, Len(full)) = SubSeq(w, 8, g)
  <2>1. Len(OkHeader) + 1 = 8
    BY Headers
  <2>2. SubSeq(full, 8, g) = SubSeq(w, 8, g)
    BY <1>3, <1>4, <1>6, SamePart
  <2> QED BY <1>6, <2>1, <2>2
<1>9. SubSeq(w, g + 1, g) = <<>>
  BY <1>3, SubSeqEmpty
<1>10. FirstLine(SubSeq(w, 8, g)) \o <<>> = FirstLine(SubSeq(w, 8, g))
  <2>1. SubSeq(w, 8, g) \in Seq(Tokens)
    BY <1>3, <1>4, SamePart
  <2> QED BY <2>1, FirstLineType, ConcatEmptySeq
<1>11. file'[k] = FirstLine(SubSeq(w, 8, g)) \o SubSeq(w, g + 1, g)
  <2>1. file'[k] = FirstLine(SubSeq(w, 8, g))
    BY <1>7, <1>8
  <2> QED BY <1>9, <1>10, <2>1
<1>12. g \in 4..g
  BY <1>3 DEF GInv, ClientInv, Known
<1> HIDE DEF Available
<1>13. wire'[k] = w /\ got'[k] = g
  BY <1>2, <1>3, <1>4
<1> QED BY <1>11, <1>12, <1>13 DEF From

\* What comes later is written behind it.
LEMMA WriteBody ==
    ASSUME GInv, WriteInv, NEW k \in Clients, RecvBody(k)
    PROVE  \E h \in 4..got'[k] : From(k, h)'
<1>a. PICK n \in Available(k) :
        LET more == file[k] \o SubSeq(wire[k], got[k] + 1, got[k] + n)
        IN  /\ got' = [got EXCEPT ![k] = @ + n]
            /\ file' = [file EXCEPT ![k] = more]
            /\ IF Len(more) = filelen[k] THEN Return(k, 0) ELSE Continue
  BY Zenon DEF RecvBody
<1>b. PICK piece, more : /\ piece = SubSeq(wire[k], got[k] + 1, got[k] + n)
                         /\ more = file[k] \o piece
  OBVIOUS
<1>c. got' = [got EXCEPT ![k] = got[k] + n] /\ file' = [file EXCEPT ![k] = more]
  BY <1>a, <1>b
<1>1. /\ got[k] \in Nat /\ wire[k] \in Seq(Tokens) /\ Len(wire[k]) \in Nat
      /\ n \in 1..(Len(wire[k]) - got[k]) /\ got'[k] = got[k] + n /\ wire' = wire
      /\ headercheck[k]
  BY <1>c DEF RecvBody, NoServer, Available, GInv, Typed
<1>d. file'[k] = file[k] \o piece
  BY <1>b, <1>c DEF GInv, Typed
<1>2. PICK h \in 4..got[k] : From(k, h)
  BY <1>1 DEF WriteInv
<1> HIDE DEF Available
<1>3. PICK w, g, m : /\ w = wire[k] /\ g = got[k] /\ m = got[k] + n
                      /\ w \in Seq(Tokens) /\ g \in Nat /\ m \in Nat /\ g <= m /\ m <= Len(w)
                      /\ h \in 4..g /\ Len(w) \in Nat
  <2>1. /\ got[k] + n \in Nat /\ got[k] <= got[k] + n /\ got[k] + n <= Len(wire[k])
    BY <1>1
  <2> QED BY <1>1, <2>1
<1>4. PICK line : line = FirstLine(SubSeq(w, 8, h)) /\ line \in Seq(Tokens)
  <2>1. SubSeq(w, 8, h) \in Seq(Tokens)
    BY <1>3, SamePart
  <2> QED BY <2>1, FirstLineType
<1>5. /\ SubSeq(w, h + 1, g) \in Seq(Tokens) /\ SubSeq(w, g + 1, m) \in Seq(Tokens)
      /\ SubSeq(w, h + 1, g) \o SubSeq(w, g + 1, m) = SubSeq(w, h + 1, m)
  <2>1. /\ h + 1 \in Nat /\ h + 1 >= 1 /\ g + 1 \in Nat /\ g + 1 >= 1 /\ g <= Len(w)
        /\ h + 1 \in 1..(Len(w) + 1) /\ g \in ((h + 1) - 1)..Len(w) /\ m \in g..Len(w)
    BY <1>3
  <2>2. SubSeq(w, h + 1, g) \in Seq(Tokens)
    BY <1>3, <2>1, SamePart
  <2>3. SubSeq(w, g + 1, m) \in Seq(Tokens)
    BY <1>3, <2>1, SamePart
  <2>4. SubSeq(w, h + 1, g) \o SubSeq(w, g + 1, m) = SubSeq(w, h + 1, m)
    BY <1>3, <2>1, ConcatAdjacentSubSeq
  <2> QED BY <2>2, <2>3, <2>4
<1>6. file[k] = line \o SubSeq(w, h + 1, g)
  BY <1>2, <1>3, <1>4 DEF From
<1>7. file'[k] = (line \o SubSeq(w, h + 1, g)) \o SubSeq(w, g + 1, m)
  BY <1>3, <1>6, <1>b, <1>d
<1>8. file'[k] = line \o SubSeq(w, h + 1, m)
  <2>1. (line \o SubSeq(w, h + 1, g)) \o SubSeq(w, g + 1, m)
        = line \o (SubSeq(w, h + 1, g) \o SubSeq(w, g + 1, m))
    <3>1. PICK x, y : /\ x = SubSeq(w, h + 1, g) /\ y = SubSeq(w, g + 1, m)
                      /\ x \in Seq(Tokens) /\ y \in Seq(Tokens)
      BY <1>5
    <3>2. \A a, b, c \in Seq(Tokens) : (a \o b) \o c = a \o (b \o c)
      BY ConcatAssociative
    <3>3. line \in Seq(Tokens) /\ x \in Seq(Tokens) /\ y \in Seq(Tokens)
      BY <1>4, <3>1
    <3>4. (line \o x) \o y = line \o (x \o y)
      BY ONLY <3>2, <3>3, Zenon
    <3> QED BY <3>1, <3>4
  <2> QED BY <1>5, <1>7, <2>1
<1>9. got'[k] = m /\ wire'[k] = w /\ h \in 4..m
  BY <1>1, <1>3
<1> QED BY <1>4, <1>8, <1>9 DEF From

\* The server only writes behind what it has written.
LEMMA WireGrows ==
    ASSUME GInv, GInv', Server, NEW c \in Clients
    PROVE  /\ wire'[c] \in Seq(Tokens) /\ Len(wire[c]) <= Len(wire'[c])
           /\ \A i \in 1..Len(wire[c]) : wire'[c][i] = wire[c][i]
<1>1. /\ wire[c] \in Seq(Tokens) /\ wire'[c] \in Seq(Tokens) /\ wire \in [Clients -> Seq(Tokens)]
      /\ Len(wire[c]) \in Nat /\ Len(wire'[c]) \in Nat
  BY DEF GInv, Typed
<1>2. CASE Handle
  <2>1. wire[conn] = <<>> /\ \E m : wire' = [wire EXCEPT ![conn] = m]
    BY <1>2 DEF Handle, Refuse, HandlerMissing, HandlerFound, GInv, ServerInv
  <2>2. wire'[c] = wire[c] \/ wire[c] = <<>>
    BY <1>1, <2>1
  <2>3. Len(<<>>) = 0 /\ 1..0 = {}
    OBVIOUS
  <2> QED BY <1>1, <2>2, <2>3
<1>3. CASE Send
  <2>1. PICK b : b = Files[parsed][sent + 1] /\ wire' = [wire EXCEPT ![conn] = Append(wire[conn], b)]
    BY <1>3 DEF Send
  <2>2. b \in Tokens
    <3>1. spc = "send" /\ sent < Len(Files[parsed]) /\ parsed = served[conn] /\ Response(conn, sent)
      BY <1>3 DEF Send, GInv, ServerInv
    <3>2. parsed \in DOMAIN Files /\ sent \in 0..Len(Files[parsed])
      BY <3>1 DEF Response, Content
    <3>3. Len(Files[parsed]) \in Nat /\ \A i \in 1..Len(Files[parsed]) : Files[parsed][i] \in Tokens
      BY <3>2, FileBytes
    <3>4. sent + 1 \in 1..Len(Files[parsed])
      BY <3>1, <3>2, <3>3
    <3> QED BY <2>1, <3>3, <3>4
  <2>3. /\ Len(Append(wire[c], b)) = Len(wire[c]) + 1
        /\ \A i \in 1..Len(wire[c]) : Append(wire[c], b)[i] = wire[c][i]
    BY <1>1, <2>2, AppendProperties
  <2>4. wire'[c] = wire[c] \/ wire'[c] = Append(wire[c], b)
    BY <1>1, <2>1
  <2> QED BY <1>1, <2>3, <2>4
<1>4. CASE AcceptFails \/ Accept \/ Recv \/ SendKilled \/ SendFails \/ SendDone
  <2>1. wire' = wire
    BY <1>4 DEF AcceptFails, Accept, Recv, SendKilled, SendFails, SendDone, net
  <2> QED BY <1>1, <2>1
<1> QED BY <1>2, <1>3, <1>4 DEF Server

LEMMA StepWrite == GInv /\ GInv' /\ WriteInv /\ [Next]_vars => WriteInv'
<1> SUFFICES ASSUME GInv, GInv', WriteInv, [Next]_vars, NEW c \in Clients, headercheck'[c]
             PROVE  \E h \in 4..got'[c] : From(c, h)'
  BY DEF WriteInv
<1>0. wire[c] \in Seq(Tokens) /\ Len(wire[c]) \in Nat
  BY DEF GInv, Typed
<1>1. CASE Server
  <2>1. headercheck'[c] = headercheck[c] /\ got'[c] = got[c] /\ file'[c] = file[c]
    BY <1>1 DEF Server, Handle, Refuse, HandlerMissing, HandlerFound, Send, AcceptFails, Accept,
       Recv, SendKilled, SendFails, SendDone, NoClient, client
  <2> QED BY <1>1, <2>1, WireGrows, WriteFrame
<1>2. CASE wire' = wire /\ headercheck'[c] = headercheck[c] /\ got'[c] = got[c] /\ file'[c] = file[c]
  BY <1>0, <1>2, WriteFrame
<1>3. ASSUME NEW k \in Clients, Connect(k) \/ RecvEnd(k) \/ RecvReset(k)
      PROVE  \E h \in 4..got'[c] : From(c, h)'
  BY <1>2, <1>3 DEF Connect, RecvEnd, RecvReset, NoServer
<1>4. ASSUME NEW k \in Clients, RecvHeader(k) \/ RecvBody(k)
      PROVE  \E h \in 4..got'[c] : From(c, h)'
  <2>1. CASE k = c
    BY <1>4, <2>1, WriteHeader, WriteBody
  <2>2. CASE k # c
    <3>1. /\ wire' = wire /\ headercheck \in [Clients -> BOOLEAN] /\ got \in [Clients -> Nat]
          /\ file = [d \in Clients |-> file[d]]
      BY <1>4 DEF RecvHeader, RecvBody, NoServer, GInv, Typed
    <3>2. \E n : got' = [got EXCEPT ![k] = n]
      BY <1>4 DEF RecvHeader, RecvBody
    <3>3. \E f : file' = [file EXCEPT ![k] = f] \/ file' = file
      BY <1>4, Zenon DEF RecvHeader, RecvBody, Parse
    <3>4. headercheck' = [headercheck EXCEPT ![k] = TRUE] \/ headercheck' = headercheck
      BY <1>4, Zenon DEF RecvHeader, RecvBody, Parse
    <3>5. headercheck'[c] = headercheck[c] /\ got'[c] = got[c] /\ file'[c] = file[c]
      BY <2>2, <3>1, <3>2, <3>3, <3>4
    <3> QED BY <1>2, <3>1, <3>5
  <2> QED BY <2>1, <2>2
<1>5. CASE UNCHANGED vars
  BY <1>2, <1>5 DEF vars, net, client
<1> QED BY <1>1, <1>3, <1>4, <1>5 DEF Next, Receive

LEMMA WriteInvariance == DownloadSpec => []WriteInv
<1>1. Init => WriteInv
  BY DEF Init, WriteInv
<1> QED BY <1>1, StepWrite, Invariance, ImplementsGetfile, PTL DEF Spec

\* What the server has written is a beginning of the header and the file.
LEMMA WireIs ==
    ASSUME GInv, NEW c \in Clients, headercheck[c]
    PROVE  /\ Content(c) \in Seq(Tokens) /\ OkHeader \o Content(c) \in Seq(Tokens)
           /\ got[c] \in Nat /\ got[c] <= Len(wire[c]) /\ wire[c] \in Seq(Tokens)
           /\ Len(wire[c]) \in Nat /\ Len(OkHeader \o Content(c)) = 7 + Len(Content(c))
           /\ Len(wire[c]) <= 7 + Len(Content(c)) /\ Len(Content(c)) \in Nat
           /\ \A i \in 1..Len(wire[c]) : wire[c][i] = (OkHeader \o Content(c))[i]
           /\ \A i \in 1..(Len(wire[c]) - 7) : wire[c][7 + i] = Content(c)[i]
<1>1. got[c] \in Nat /\ got[c] <= Len(wire[c]) /\ wire[c] \in Seq(Tokens) /\ got[c] >= 4
      /\ Len(wire[c]) \in Nat
  BY DEF GInv, Typed, TypeOK, ClientInv, Known
<1>2. served[c] \in DOMAIN Files /\ Response(c, Len(wire[c]) - 7)
  <2>1. Len(wire[c]) > 2 /\ Len(<<>>) = 0
    BY <1>1
  <2>2. wire[c] # <<>>
    BY <2>1
  <2> QED BY <2>1, <2>2, Answer
<1>3. Content(c) \in Seq(Tokens) /\ Len(Content(c)) \in Nat
  BY <1>2, FileBytes DEF Content
<1>4. PICK t : t = Content(c)
  OBVIOUS
<1>5. /\ OkHeader \o t \in Seq(Tokens) /\ Len(OkHeader \o t) = 7 + Len(t)
      /\ \A i \in 1..(7 + Len(t)) :
            (OkHeader \o t)[i] = IF i <= 7 THEN OkHeader[i] ELSE t[i - 7]
  <2>1. PICK f : f = OkHeader
    OBVIOUS
  <2>2. f \in Seq(Tokens) /\ t \in Seq(Tokens)
    BY <1>3, <1>4, <2>1, Headers
  <2>3. /\ f \o t \in Seq(Tokens) /\ Len(f \o t) = Len(f) + Len(t)
        /\ \A i \in 1..(Len(f) + Len(t)) :
              (f \o t)[i] = IF i <= Len(f) THEN f[i] ELSE t[i - Len(f)]
    BY ONLY <2>2, ConcatProperties
  <2>4. Len(f) = 7
    BY <2>1, Headers
  <2> QED BY <2>1, <2>3, <2>4
<1>6. /\ Len(wire[c]) - 7 \in 0..Len(t) /\ \A i \in 1..7 : wire[c][i] = OkHeader[i]
      /\ \A i \in 1..(Len(wire[c]) - 7) : wire[c][7 + i] = t[i]
  BY <1>2, <1>4 DEF Response
<1>7. \A i \in 1..Len(wire[c]) : wire[c][i] = (OkHeader \o t)[i]
  <2> SUFFICES ASSUME NEW i \in 1..Len(wire[c]) PROVE wire[c][i] = (OkHeader \o t)[i]
    OBVIOUS
  <2>1. i \in 1..(7 + Len(t)) /\ (i \in 1..7 \/ (~(i <= 7) /\ i - 7 \in 1..(Len(wire[c]) - 7)))
    BY <1>1, <1>3, <1>4, <1>6
  <2>2. CASE i \in 1..7
    BY <1>5, <1>6, <2>1, <2>2
  <2>3. CASE ~(i <= 7) /\ i - 7 \in 1..(Len(wire[c]) - 7)
    <3>1. 7 + (i - 7) = i
      OBVIOUS
    <3>2. wire[c][7 + (i - 7)] = t[i - 7]
      BY <1>6, <2>3
    <3> QED BY <1>5, <2>1, <2>3, <3>1, <3>2
  <2> QED BY <2>1, <2>2, <2>3
<1> QED BY <1>1, <1>3, <1>4, <1>5, <1>6, <1>7

\* A part of what was written behind the header is a part of the file.
LEMMA BodyPart ==
    ASSUME GInv, NEW c \in Clients, headercheck[c], NEW m \in Nat, NEW n \in Nat,
           m >= 8, n <= Len(wire[c]), n >= 7
    PROVE  SubSeq(wire[c], m, n) = SubSeq(Content(c), m - 7, n - 7)
<1>1. PICK w, t : w = wire[c] /\ t = Content(c)
  OBVIOUS
<1>2. /\ w \in Seq(Tokens) /\ t \in Seq(Tokens) /\ Len(w) \in Nat /\ Len(t) \in Nat
      /\ Len(w) <= 7 + Len(t) /\ \A i \in 1..(Len(w) - 7) : w[7 + i] = t[i]
  BY <1>1, WireIs
<1>3. /\ \A i \in m..n : w[i] \in Tokens
      /\ \A i \in (m - 7)..(n - 7) : t[i] \in Tokens
  BY <1>1, <1>2
<1>4. /\ SubSeq(w, m, n) \in Seq(Tokens)
      /\ Len(SubSeq(w, m, n)) = IF m <= n THEN n - m + 1 ELSE 0
      /\ \A i \in 1..(n - m + 1) : SubSeq(w, m, n)[i] = w[m + i - 1]
  BY <1>3, SubSeqProperties
<1>5. /\ SubSeq(t, m - 7, n - 7) \in Seq(Tokens)
      /\ Len(SubSeq(t, m - 7, n - 7)) = IF m - 7 <= n - 7 THEN n - 7 - (m - 7) + 1 ELSE 0
      /\ \A i \in 1..(n - 7 - (m - 7) + 1) : SubSeq(t, m - 7, n - 7)[i] = t[m - 7 + i - 1]
  <2>1. m - 7 \in Int /\ n - 7 \in Int
    OBVIOUS
  <2> QED BY <1>3, <2>1, SubSeqProperties
<1>6. \A i \in 1..(n - m + 1) : w[m + i - 1] = t[m - 7 + i - 1]
  <2> SUFFICES ASSUME NEW i \in 1..(n - m + 1) PROVE w[m + i - 1] = t[m - 7 + i - 1]
    OBVIOUS
  <2>1. m - 7 + i - 1 \in 1..(Len(w) - 7) /\ 7 + (m - 7 + i - 1) = m + i - 1
    BY <1>1, <1>2
  <2>2. w[7 + (m - 7 + i - 1)] = t[m - 7 + i - 1]
    BY <1>2, <2>1
  <2> QED BY <2>1, <2>2
<1>7. /\ Len(SubSeq(w, m, n)) = Len(SubSeq(t, m - 7, n - 7))
      /\ \A i \in 1..Len(SubSeq(w, m, n)) :
            i \in 1..(n - m + 1) /\ i \in 1..(n - 7 - (m - 7) + 1)
  BY <1>4, <1>5
<1>8. \A i \in 1..Len(SubSeq(w, m, n)) : SubSeq(w, m, n)[i] = SubSeq(t, m - 7, n - 7)[i]
  BY <1>4, <1>5, <1>6, <1>7
<1> QED BY <1>1, <1>4, <1>5, <1>7, <1>8, SeqEqual

\* What a client that has taken the header as complete has written, in every case:
\* if only a part of the header had come, the rest of the header and then the file; if
\* the file began to come with it, what strtok found of that, and then the file from
\* there on.
Written == \A c \in Clients : headercheck[c] => \E h \in 4..got[c] :
    IF h <= 7 THEN file[c] = SubSeq(OkHeader \o Content(c), h + 1, got[c])
    ELSE file[c] = FirstLine(SubSeq(Content(c), 1, h - 7))
                   \o SubSeq(Content(c), h - 6, got[c] - 7)

LEMMA WriteInvImplies == GInv /\ WriteInv => Written
<1> SUFFICES ASSUME GInv, WriteInv, NEW c \in Clients, headercheck[c]
             PROVE  \E h \in 4..got[c] :
                      IF h <= 7 THEN file[c] = SubSeq(OkHeader \o Content(c), h + 1, got[c])
                      ELSE file[c] = FirstLine(SubSeq(Content(c), 1, h - 7))
                                     \o SubSeq(Content(c), h - 6, got[c] - 7)
  BY DEF Written
<1>1. PICK h \in 4..got[c] : From(c, h)
  BY DEF WriteInv
<1>2. PICK w, t, g, all : /\ w = wire[c] /\ t = Content(c) /\ g = got[c]
                           /\ all = OkHeader \o Content(c)
  OBVIOUS
<1>3. /\ w \in Seq(Tokens) /\ all \in Seq(Tokens) /\ g \in Nat /\ g <= Len(w) /\ Len(w) \in Nat
      /\ g <= Len(all) /\ \A i \in 1..g : w[i] = all[i]
  BY <1>2, WireIs
<1>4. h \in Nat /\ h >= 4 /\ h <= g /\ h + 1 \in Nat
  BY <1>1, <1>2, <1>3
<1>5. file[c] = FirstLine(SubSeq(w, 8, h)) \o SubSeq(w, h + 1, g)
  BY <1>1, <1>2 DEF From
<1>6. CASE h <= 7
  <2>1. SubSeq(w, 8, h) = <<>>
    BY <1>4, <1>6, SubSeqEmpty
  <2>2. SubSeq(w, h + 1, g) = SubSeq(all, h + 1, g) /\ SubSeq(w, h + 1, g) \in Seq(Tokens)
    BY <1>3, <1>4, SamePart
  <2>3. file[c] = <<>> \o SubSeq(w, h + 1, g)
    BY <1>5, <2>1, EmptyLine
  <2>4. file[c] = SubSeq(all, h + 1, g)
    BY <2>2, <2>3, ConcatEmptySeq
  <2> QED BY <1>1, <1>2, <1>6, <2>4
<1>7. CASE ~(h <= 7)
  <2>1. SubSeq(w, 8, h) = SubSeq(t, 1, h - 7)
    <3>1. SubSeq(w, 8, h) = SubSeq(t, 8 - 7, h - 7)
      <4>1. 8 \in Nat /\ 8 >= 8 /\ h <= Len(w) /\ h >= 7
        BY <1>3, <1>4, <1>7
      <4> QED BY <1>2, <1>4, <4>1, BodyPart
    <3> QED BY <3>1
  <2>2. SubSeq(w, h + 1, g) = SubSeq(t, h - 6, g - 7)
    <3>1. SubSeq(w, h + 1, g) = SubSeq(t, h + 1 - 7, g - 7)
      <4>1. PICK m : m = h + 1 /\ m \in Nat /\ m >= 8 /\ g >= 7
                       /\ g \in Nat /\ g <= Len(wire[c])
        BY <1>2, <1>3, <1>4, <1>7
      <4>2. SubSeq(w, m, g) = SubSeq(t, m - 7, g - 7)
        BY <1>2, <4>1, BodyPart
      <4> QED BY <4>1, <4>2
    <3>2. h + 1 - 7 = h - 6
      BY <1>4
    <3> QED BY <3>1, <3>2
  <2> QED BY <1>1, <1>2, <1>5, <1>7, <2>1, <2>2
<1> QED BY <1>6, <1>7

\* gfclient.c: the bytes a client has written, wherever TCP cuts the stream.
THEOREM WrittenBytes == DownloadSpec => []Written
BY WriteInvImplies, WriteInvariance, DownloadInvariance, PTL
=============================================================================
