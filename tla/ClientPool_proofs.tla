-------------------------- MODULE ClientPool_proofs --------------------------
(***************************************************************************)
(* Proofs about ClientPool, for any number of threads, requests and paths: *)
(* typing, that the paths are asked for in turn, and that the file of a    *)
(* request matches its outcome unless two requests got one local path.     *)
(***************************************************************************)
EXTENDS ClientPool, FiniteSetTheorems, TLAPS

\* Where a request is: not begun, in some step of its thread, or over.
Phase(r) == IF r[2] > j[r[1]] THEN "new"
            ELSE IF r[2] < j[r[1]] \/ tpc[r[1]] \in {"idle", "path", "end"} THEN "over"
            ELSE tpc[r[1]]

Begun == {r \in Requests : entry[r] # NULL}
Named == {r \in Requests : name[r] # NULL}

\* Whether path p has had its turn in this round.
Turn(p) == IF p < counter % NPaths THEN 1 ELSE 0

\* The counters: each entry is below the workload counter, which has advanced
\* once for each request, and the path counter at most once for each name.
CountInv ==
    /\ counter = Cardinality(Begun)
    /\ pathCounter <= Cardinality(Named)
    /\ \A t \in Threads : tpc[t] = "store" => seen[t] <= Cardinality(Named)
    /\ \A r \in Begun : entry[r] < counter
    /\ \A r, s \in Begun : entry[r] = entry[s] => r = s
    /\ \A p, q \in 0..(NPaths - 1) : Asked(p) - Turn(p) = Asked(q) - Turn(q)

\* Main and the threads, and what is set of a request, phase by phase.
ThreadInv ==
    /\ mpc = "create" => \A t \in Threads : t >= mi => tpc[t] = "idle"
    /\ \A t \in Threads : /\ tpc[t] = "idle" => j[t] = 0
                          /\ tpc[t] \notin {"idle", "path", "end"} => j[t] > 0
                          /\ tpc[t] \in {"open", "unlock"} <=> fileLock = t
PhaseInv ==
    \A r \in Requests :
        /\ entry[r] # NULL <=> Phase(r) # "new"
        /\ name[r] # NULL <=> Phase(r) \notin {"new", "load", "store"}
        /\ handle[r] # NULL <=> Phase(r) \notin {"new", "load", "store", "lock", "open"}
        /\ outcome[r] # NULL <=> Phase(r) \in {"close", "unlink", "unlink2", "over"}
        /\ Phase(r) = "unlink" => outcome[r].failed

\* A file has the name of the request that created it.
NameInv ==
    /\ \A n \in Names : dir[n] # NULL => name[dir[n]] = n
    /\ \A r \in Requests : handle[r] # NULL => name[handle[r]] = name[r]

\* The file of a request that shares its name with no other.
There(r) == dir[name[r]] = r
Gone(r)  == dir[name[r]] = NULL
OwnInv ==
    \A r \in Requests : ~Shared(r) =>
        /\ Phase(r) \in {"unlock", "perform", "close", "unlink"} => There(r)
        /\ Phase(r) = "unlink2" => IF outcome[r].failed THEN Gone(r)
                                   ELSE There(r) /\ (outcome[r].ok => full[r])
        /\ Phase(r) = "over" => IF Success(r) THEN There(r) /\ full[r] ELSE Gone(r)

IInv == TypeOK /\ CountInv /\ ThreadInv /\ PhaseInv /\ NameInv /\ OwnInv

-----------------------------------------------------------------------------
(* Counting requests.                                                      *)

LEMMA CountSubset ==
    ASSUME NEW S \in SUBSET Requests
    PROVE  IsFiniteSet(S) /\ Cardinality(S) \in Counters
<1>1. IsFiniteSet(Requests) /\ Cardinality(Requests) = NThreads * NRequest
  <2>1. IsFiniteSet(1..NThreads) /\ Cardinality(1..NThreads) = NThreads
    BY SizeAssumption, FS_Interval
  <2>2. IsFiniteSet(1..NRequest) /\ Cardinality(1..NRequest) = NRequest
    BY SizeAssumption, FS_Interval
  <2> QED BY <2>1, <2>2, FS_Product DEF Requests, Threads
<1>2. IsFiniteSet(S) /\ Cardinality(S) <= Cardinality(Requests) /\ Cardinality(S) \in Nat
  BY <1>1, FS_Subset, FS_CardinalityType
<1>3. NThreads * NRequest \in Nat
  BY SizeAssumption
<1> QED BY <1>1, <1>2, <1>3 DEF Counters

LEMMA CountMore ==
    ASSUME NEW S \in SUBSET Requests, NEW r \in Requests, r \notin S
    PROVE  /\ Cardinality(S \cup {r}) = Cardinality(S) + 1
           /\ Cardinality(S) + 1 \in Counters /\ Cardinality(S) \in Counters
<1>1. IsFiniteSet(S) /\ Cardinality(S) \in Counters
  BY CountSubset
<1>2. Cardinality(S \cup {r}) = Cardinality(S) + 1
  BY <1>1, FS_AddElement
<1>3. Cardinality(S \cup {r}) \in Counters
  BY CountSubset
<1> QED BY <1>1, <1>2, <1>3

\* Counters are naturals, and NULL is neither of what the variables hold.
LEMMA Distinct ==
    /\ Counters \subseteq Nat /\ NULL \notin Counters /\ NULL \notin Names
    /\ NULL \notin Requests /\ NULL \notin Outcomes /\ NULL \notin Threads
    /\ 0 \in Counters
<1>1. NThreads * NRequest \in Nat
  BY SizeAssumption
<1>2. Counters \subseteq Nat /\ 0 \in Counters
  BY <1>1 DEF Counters
<1>3. Requests \subseteq Nat \X Nat /\ Threads \subseteq Nat
  BY SizeAssumption DEF Requests, Threads
<1>4. Names \subseteq Nat \X Nat
  <2>1. 0..(NPaths - 1) \subseteq Nat
    BY SizeAssumption
  <2> QED BY <1>2, <2>1 DEF Names
<1> QED BY <1>2, <1>3, <1>4, NullAssumption DEF Outcomes

\* A path has its turn when the one before it has had its own.
LEMMA Remainder ==
    ASSUME NEW n \in Nat \ {0}, NEW a \in Nat, NEW q \in Int, NEW x \in 0..(n - 1),
           a = n * q + x
    PROVE  a % n = x
OBVIOUS

LEMMA TurnStep ==
    ASSUME NEW c \in Nat
    PROVE  /\ c % NPaths \in 0..(NPaths - 1)
           /\ (c + 1) % NPaths = IF c % NPaths = NPaths - 1 THEN 0 ELSE (c % NPaths) + 1
<1> DEFINE n == NPaths
           q == c \div n
           x == c % n
<1>1. n \in Nat \ {0} /\ q \in Nat /\ x \in 0..(n - 1) /\ c = n * q + x
  BY SizeAssumption
<1> HIDE DEF n, q, x
<1>2. CASE x = n - 1
  <2>1. c + 1 = n * (q + 1) + 0 /\ 0 \in 0..(n - 1) /\ q + 1 \in Int /\ c + 1 \in Nat
    BY <1>1, <1>2
  <2>2. (c + 1) % n = 0
    BY <1>1, <2>1, Remainder
  <2> QED BY <1>1, <1>2, <2>2 DEF n, x
<1>3. CASE x # n - 1
  <2>1. c + 1 = n * q + (x + 1) /\ x + 1 \in 0..(n - 1) /\ q \in Int /\ c + 1 \in Nat
    BY <1>1, <1>3
  <2>2. (c + 1) % n = x + 1
    BY <1>1, <2>1, Remainder
  <2> QED BY <1>1, <1>3, <2>2 DEF n, x
<1> QED BY <1>2, <1>3

-----------------------------------------------------------------------------
(* Where a request is.                                                     *)

LEMMA Current ==
    ASSUME TypeOK, ThreadInv, NEW t \in Threads, tpc[t] \notin {"idle", "path", "end"}
    PROVE  /\ Req(t) \in Requests /\ Req(t)[1] = t /\ Req(t)[2] = j[t]
           /\ Phase(Req(t)) = tpc[t]
BY SizeAssumption DEF TypeOK, ThreadInv, Req, Requests, Phase, Threads

\* A step of a thread from one point of a request to the next.
LEMMA PhaseStep ==
    ASSUME TypeOK, ThreadInv, NEW t \in Threads, NEW from, NEW to, Goto(t, from, to),
           from \notin {"idle", "path", "end"}, UNCHANGED j
    PROVE  /\ Req(t) \in Requests /\ Phase(Req(t)) = from
           /\ \A r \in Requests : Phase(r)' = IF r # Req(t) THEN Phase(r)
                ELSE IF to \in {"idle", "path", "end"} THEN "over" ELSE to
           /\ tpc[t] = from /\ tpc'[t] = to
           /\ \A u \in Threads : u # t => tpc'[u] = tpc[u]
<1>1. tpc[t] = from /\ tpc'[t] = to /\ \A u \in Threads : u # t => tpc'[u] = tpc[u]
  BY DEF Goto, TypeOK
<1>2. Req(t) \in Requests /\ Req(t)[1] = t /\ Req(t)[2] = j[t] /\ Phase(Req(t)) = from
  BY <1>1, Current
<1>3. j[t] \in Int
  BY SizeAssumption DEF TypeOK
<1>4. ASSUME NEW r \in Requests, r = Req(t)
      PROVE  Phase(r)' = IF to \in {"idle", "path", "end"} THEN "over" ELSE to
  BY <1>1, <1>2, <1>3, <1>4 DEF Phase
<1>5. ASSUME NEW r \in Requests, r # Req(t) PROVE Phase(r)' = Phase(r)
  <2>1. r[1] \in Threads /\ r[2] \in Nat /\ r = <<r[1], r[2]>>
    BY SizeAssumption DEF Requests
  <2>2. CASE r[1] # t
    BY <1>1, <2>1, <2>2 DEF Phase
  <2>3. CASE r[1] = t
    <3>1. r[2] # j[t]
      BY <1>5, <2>1, <2>3 DEF Req
    <3> QED BY <1>3, <2>1, <2>3, <3>1 DEF Phase
  <2> QED BY <2>2, <2>3
<1> QED BY <1>1, <1>2, <1>4, <1>5

-----------------------------------------------------------------------------
(* The initial state, and steps that change little.                        *)

LEMMA InitIInv == Init => IInv
<1> SUFFICES ASSUME Init PROVE IInv
  OBVIOUS
<1>1. /\ \A r \in Requests : /\ entry[r] = NULL /\ name[r] = NULL /\ handle[r] = NULL
                              /\ outcome[r] = NULL /\ Phase(r) = "new"
      /\ Begun = {} /\ Named = {}
  <2>1. \A r \in Requests : r[1] \in Threads /\ r[2] \in Nat /\ r[2] > 0
    BY SizeAssumption DEF Requests
  <2> QED BY <2>1 DEF Init, Phase, Begun, Named
<1>2. TypeOK
  BY SizeAssumption, Distinct DEF Init, TypeOK, ThreadPC
<1>3. CountInv
  <2>1. Cardinality(Begun) = 0 /\ Cardinality(Named) = 0
    BY <1>1, FS_EmptySet
  <2>2. \A p \in 0..(NPaths - 1) : Asked(p) = 0
    <3>1. ASSUME NEW p \in 0..(NPaths - 1) PROVE {r \in Requests : entry[r] # NULL /\ Path(r) = p} = {}
      BY <1>1
    <3> QED BY <3>1, FS_EmptySet DEF Asked
  <2>3. \A p \in 0..(NPaths - 1) : Turn(p) = 0
    BY SizeAssumption DEF Init, Turn
  <2> QED BY <1>1, <2>1, <2>2, <2>3 DEF Init, CountInv
<1>4. ThreadInv
  BY Distinct DEF Init, ThreadInv
<1>5. PhaseInv /\ OwnInv
  BY <1>1 DEF PhaseInv, OwnInv
<1>6. NameInv
  BY <1>1 DEF Init, NameInv
<1> QED BY <1>2, <1>3, <1>4, <1>5, <1>6 DEF IInv

\* The counts stay when nothing counted changes.
LEMMA CountFrame ==
    ASSUME CountInv, UNCHANGED <<entry, name, counter, pathCounter>>,
           \A u \in Threads : tpc'[u] = "store" => tpc[u] = "store" /\ seen'[u] = seen[u]
    PROVE  CountInv'
BY DEF CountInv, Begun, Named, Asked, Turn, Path

\* The steps of main, and the end of a thread: no request moves.
LEMMA RequestFrame ==
    ASSUME IInv, UNCHANGED <<shared, perReq, files, seen>>,
           \A r \in Requests : Phase(r)' = Phase(r),
           \A u \in Threads : tpc'[u] = "store" => tpc[u] = "store"
    PROVE  CountInv' /\ PhaseInv' /\ NameInv' /\ OwnInv'
<1> USE DEF IInv, shared, perReq, files
<1>1. CountInv'
  BY CountFrame
<1>2. PhaseInv'
  BY DEF PhaseInv
<1>3. NameInv'
  BY DEF NameInv
<1>4. OwnInv'
  BY DEF OwnInv, Shared, There, Gone, Success
<1> QED BY <1>1, <1>2, <1>3, <1>4

LEMMA MainStep == ASSUME IInv, Main PROVE IInv'
<1>1. CASE Create
  <2>1. mi \in Threads /\ tpc[mi] = "idle" /\ j[mi] = 0
    BY <1>1, SizeAssumption DEF Create, IInv, TypeOK, ThreadInv, Threads
  <2>2. TypeOK'
    <3>1. mi' \in 1..(NThreads + 1) /\ created' \subseteq Threads
      <4>1. mi' = mi + 1 /\ mi \in 1..NThreads
        BY <1>1, <2>1 DEF Create, Threads
      <4>2. created' = created \/ created' = created \cup {mi}
        BY <1>1 DEF Create
      <4>3. mi' \in 1..(NThreads + 1)
        BY <4>1, SizeAssumption
      <4>4. created' \subseteq Threads
        BY <2>1, <4>2 DEF IInv, TypeOK
      <4> QED BY <4>3, <4>4
    <3>2. tpc' \in [Threads -> ThreadPC]
      BY <1>1, <2>1 DEF Create, IInv, TypeOK, ThreadPC
    <3> QED BY <1>1, <3>1, <3>2 DEF Create, IInv, TypeOK, shared, perReq, files
  <2>3. ThreadInv'
    <3>1. /\ mpc = "create" /\ mi' = mi + 1 /\ mi \in Int
          /\ \A u \in Threads : tpc'[u] = tpc[u] \/ (u = mi /\ tpc'[u] = "path")
          /\ \A u \in Threads : u \in Int
          /\ UNCHANGED <<j, fileLock, mpc>>
      BY <1>1, <2>1, SizeAssumption DEF Create, IInv, TypeOK, Threads, shared
    <3> QED BY <2>1, <3>1 DEF IInv, ThreadInv
  <2>4. \A r \in Requests : Phase(r)' = Phase(r)
    <3> SUFFICES ASSUME NEW r \in Requests PROVE Phase(r)' = Phase(r)
      OBVIOUS
    <3>1. r[1] \in Threads /\ r[2] \in Nat /\ r[2] > 0
      BY SizeAssumption DEF Requests
    <3> QED BY <1>1, <2>1, <3>1 DEF Create, Phase, IInv, TypeOK
  <2>5. \A u \in Threads : tpc'[u] = "store" => tpc[u] = "store"
    BY <1>1 DEF Create, IInv, TypeOK
  <2>6. UNCHANGED <<shared, perReq, files, seen>>
    BY <1>1 DEF Create
  <2> QED BY <2>2, <2>3, <2>4, <2>5, <2>6, RequestFrame DEF IInv
<1>2. ASSUME UNCHANGED <<tpc, j, seen, shared, perReq, files, created>>, mpc' # "create",
             mpc' \in {"join", "freed", "exit"}, mi' \in 1..(NThreads + 1)
      PROVE  IInv'
  <2>1. TypeOK'
    BY <1>2 DEF IInv, TypeOK, shared, perReq, files
  <2>2. ThreadInv'
    BY <1>2 DEF IInv, ThreadInv, shared
  <2>3. \A r \in Requests : Phase(r)' = Phase(r)
    BY <1>2 DEF Phase
  <2> QED BY <1>2, <2>1, <2>2, <2>3, RequestFrame DEF IInv
<1>3. CASE CreateDone
  BY <1>2, <1>3, SizeAssumption DEF CreateDone
<1>4. CASE Join
  BY <1>2, <1>4, SizeAssumption DEF Join, IInv, TypeOK
<1>5. CASE JoinDone
  BY <1>2, <1>5 DEF JoinDone, IInv, TypeOK
<1> QED BY <1>1, <1>3, <1>4, <1>5 DEF Main

LEMMA FinishStep == ASSUME IInv, NEW t \in Threads, Finish(t) PROVE IInv'
<1>1. /\ tpc[t] = "path" /\ tpc' = [tpc EXCEPT ![t] = "end"]
      /\ UNCHANGED <<main, j, seen, shared, perReq, files>>
  BY DEF Finish, Goto
<1>2. TypeOK'
  BY <1>1 DEF IInv, TypeOK, ThreadPC, main, shared, perReq, files
<1>3. ThreadInv'
  BY <1>1 DEF IInv, TypeOK, ThreadInv, main, shared
<1>4. \A r \in Requests : Phase(r)' = Phase(r)
  <2>1. \A r \in Requests : r[1] \in Threads
    BY DEF Requests
  <2> QED BY <1>1, <2>1 DEF Phase, IInv, TypeOK
<1>5. \A u \in Threads : tpc'[u] = "store" => tpc[u] = "store"
  BY <1>1 DEF IInv, TypeOK
<1> QED BY <1>1, <1>2, <1>3, <1>4, <1>5, RequestFrame DEF IInv

-----------------------------------------------------------------------------
(* The steps of a thread.                                                  *)

\* The next request begins: workload_get_path hands out the next entry.
LEMMA GetPathStep == ASSUME IInv, NEW t \in Threads, GetPath(t) PROVE IInv'
<1>0. PICK r0 : r0 = <<t, j[t] + 1>>
  OBVIOUS
<1>1. /\ tpc[t] = "path" /\ tpc' = [tpc EXCEPT ![t] = "load"]
      /\ j[t] \in 0..(NRequest - 1) /\ j' = [j EXCEPT ![t] = j[t] + 1]
      /\ entry' = [entry EXCEPT ![r0] = counter] /\ counter' = counter + 1
      /\ UNCHANGED <<main, seen, pathCounter, fileLock, name, handle, outcome, files>>
      /\ tpc \in [Threads -> ThreadPC] /\ j \in [Threads -> 0..NRequest]
      /\ entry \in [Requests -> Counters \cup {NULL}]
  BY <1>0, SizeAssumption DEF GetPath, Goto, IInv, TypeOK
<1>2. r0 \in Requests
  BY <1>0, <1>1, SizeAssumption DEF Requests
<1>3. /\ Phase(r0) = "new" /\ Phase(r0)' = "load"
      /\ \A r \in Requests : r # r0 => Phase(r)' = Phase(r)
  <2>1. Phase(r0) = "new" /\ Phase(r0)' = "load"
    <3>1. r0[1] = t /\ r0[2] = j[t] + 1 /\ j'[t] = j[t] + 1 /\ tpc'[t] = "load" /\ j[t] \in Int
      BY <1>0, <1>1, SizeAssumption
    <3> QED BY <3>1 DEF Phase
  <2>2. ASSUME NEW r \in Requests, r # r0 PROVE Phase(r)' = Phase(r)
    <3>1. r[1] \in Threads /\ r[2] \in Nat /\ r = <<r[1], r[2]>>
      BY SizeAssumption DEF Requests
    <3>2. CASE r[1] # t
      BY <1>1, <3>1, <3>2 DEF Phase
    <3>3. CASE r[1] = t
      <4>1. r[2] # j[t] + 1
        BY <1>0, <2>2, <3>1, <3>3
      <4> QED BY <1>1, <3>1, <3>3, <4>1 DEF Phase
    <3> QED BY <3>2, <3>3
  <2> QED BY <2>1, <2>2
<1>4. /\ entry[r0] = NULL /\ name[r0] = NULL /\ Begun \subseteq Requests /\ r0 \notin Begun
      /\ Begun' = Begun \cup {r0} /\ counter \in Counters /\ counter # NULL
  BY <1>1, <1>2, <1>3, Distinct DEF IInv, TypeOK, PhaseInv, Begun
<1>5. counter' = Cardinality(Begun') /\ counter' \in Counters
  BY <1>1, <1>2, <1>4, CountMore DEF IInv, CountInv
<1>6. TypeOK'
  BY <1>1, <1>2, <1>5, SizeAssumption DEF IInv, TypeOK, ThreadPC, main, files
<1>7. CountInv'
  <2>1. /\ pathCounter' <= Cardinality(Named')
        /\ \A u \in Threads : tpc'[u] = "store" => seen'[u] <= Cardinality(Named')
    BY <1>1 DEF IInv, CountInv, Named
  <2>2. /\ \A r \in Begun : entry'[r] = entry[r] /\ entry[r] \in Counters /\ entry[r] < counter
        /\ entry'[r0] = counter
    BY <1>1, <1>2, <1>4 DEF Begun, IInv, CountInv
  <2>3. /\ \A r \in Begun' : entry'[r] < counter'
        /\ \A r, s \in Begun' : entry'[r] = entry'[s] => r = s
    <3>1. \A r \in Begun : entry'[r] # counter /\ entry[r] < counter + 1
      <4>1. ASSUME NEW a \in Nat, NEW c \in Nat, a < c PROVE a # c /\ a < c + 1
        BY <4>1
      <4>2. counter \in Nat /\ \A r \in Begun : entry[r] \in Nat
        BY <1>4, <2>2, Distinct
      <4> QED BY <2>2, <4>1, <4>2
    <3>2. counter < counter + 1
      BY <1>4, Distinct
    <3>3. \A r, s \in Begun : entry[r] = entry[s] => r = s
      BY DEF IInv, CountInv
    <3> QED BY <1>1, <1>4, <2>2, <3>1, <3>2, <3>3
  <2> DEFINE x == counter % NPaths
             Of(p) == {r \in Requests : entry[r] # NULL /\ Path(r) = p}
  <2>4. x \in 0..(NPaths - 1) /\ counter' % NPaths = IF x = NPaths - 1 THEN 0 ELSE x + 1
    BY <1>1, <1>4, Distinct, TurnStep
  <2>5. \A p \in 0..(NPaths - 1) : Of(p)' = IF p = x THEN Of(p) \cup {r0} ELSE Of(p)
    BY <1>1, <1>2, <1>4, <2>2 DEF Path, Begun
  <2>6. \A p \in 0..(NPaths - 1) : Of(p) \in SUBSET Requests /\ r0 \notin Of(p)
    BY <1>4
  <2>7. \A p \in 0..(NPaths - 1) : Asked(p) = Cardinality(Of(p)) /\ Asked(p)' = Cardinality(Of(p)')
    BY DEF Asked, Path
  <2> HIDE DEF Of, x
  <2>8. \A p \in 0..(NPaths - 1) : /\ Asked(p)' = IF p = x THEN Asked(p) + 1 ELSE Asked(p)
                                  /\ Asked(p) \in Nat
    <3> SUFFICES ASSUME NEW p \in 0..(NPaths - 1)
                 PROVE  /\ Asked(p)' = IF p = x THEN Asked(p) + 1 ELSE Asked(p)
                        /\ Asked(p) \in Nat
      OBVIOUS
    <3>1. Cardinality(Of(p)) \in Counters
      BY <2>6, CountSubset
    <3>2. Cardinality(Of(p) \cup {r0}) = Cardinality(Of(p)) + 1
      BY <1>2, <2>6, CountMore
    <3> QED BY <2>5, <2>7, <3>1, <3>2, Distinct
  <2>9. \A p \in 0..(NPaths - 1) :
          /\ Turn(p) = IF p < x THEN 1 ELSE 0
          /\ Turn(p)' = IF x = NPaths - 1 THEN 0 ELSE IF p < x + 1 THEN 1 ELSE 0
    BY <2>4, SizeAssumption DEF Turn, x
  <2>10. \A p, q \in 0..(NPaths - 1) : Asked(p) - Turn(p) = Asked(q) - Turn(q)
    BY DEF IInv, CountInv
  <2>11. ASSUME NEW p \in 0..(NPaths - 1), NEW q \in 0..(NPaths - 1)
         PROVE  Asked(p)' - Turn(p)' = Asked(q)' - Turn(q)'
    <3>1. /\ Asked(p) \in Nat /\ Asked(q) \in Nat /\ Asked(p) - Turn(p) = Asked(q) - Turn(q)
          /\ Asked(p)' = IF p = x THEN Asked(p) + 1 ELSE Asked(p)
          /\ Asked(q)' = IF q = x THEN Asked(q) + 1 ELSE Asked(q)
      BY <2>8, <2>10
    <3>2. /\ Turn(p) = IF p < x THEN 1 ELSE 0
          /\ Turn(p)' = IF x = NPaths - 1 THEN 0 ELSE IF p < x + 1 THEN 1 ELSE 0
          /\ Turn(q) = IF q < x THEN 1 ELSE 0
          /\ Turn(q)' = IF x = NPaths - 1 THEN 0 ELSE IF q < x + 1 THEN 1 ELSE 0
      BY <2>9
    <3> QED BY <2>4, <3>1, <3>2, SizeAssumption
  <2> QED BY <1>5, <2>1, <2>3, <2>11 DEF CountInv
<1>8. ThreadInv'
  BY <1>1 DEF IInv, ThreadInv, main
<1>9. PhaseInv'
  <2>1. \A r \in Requests : r # r0 => entry'[r] = entry[r]
    BY <1>1
  <2>2. entry'[r0] # NULL
    BY <1>1, <1>2, <1>4
  <2> QED BY <1>1, <1>2, <1>3, <2>1, <2>2 DEF IInv, PhaseInv
<1>10. NameInv'
  BY <1>1 DEF IInv, NameInv, files
<1>11. OwnInv'
  <2>1. \A r \in Requests : Phase(r)' = Phase(r) \/ Phase(r)' = "load"
    BY <1>3
  <2> QED BY <1>1, <2>1 DEF IInv, OwnInv, Shared, There, Gone, Success, files
<1> QED BY <1>6, <1>7, <1>8, <1>9, <1>10, <1>11 DEF IInv

\* localPath loads its counter, then stores it one more.
LEMMA LoadCounterStep == ASSUME IInv, NEW t \in Threads, LoadCounter(t) PROVE IInv'
<1>1. /\ Goto(t, "load", "store") /\ seen' = [seen EXCEPT ![t] = pathCounter]
      /\ UNCHANGED <<main, j, shared, perReq, files>>
  BY DEF LoadCounter
<1>0. PICK r0 : r0 = Req(t)
  OBVIOUS
<1>2. /\ Phase(r0) = "load" /\ Phase(r0)' = "store"
      /\ \A r \in Requests : r # r0 => Phase(r)' = Phase(r)
      /\ tpc[t] = "load" /\ tpc'[t] = "store"
      /\ \A u \in Threads : u # t => tpc'[u] = tpc[u]
  BY <1>0, <1>1, PhaseStep DEF IInv
<1>3. TypeOK'
  BY <1>1 DEF Goto, IInv, TypeOK, ThreadPC, main, shared, perReq, files
<1>4. CountInv'
  <2>1. \A u \in Threads : tpc'[u] = "store" => seen'[u] <= Cardinality(Named)
    BY <1>1, <1>2 DEF IInv, TypeOK, CountInv
  <2> QED BY <1>1, <2>1 DEF IInv, CountInv, Begun, Named, Asked, Turn, Path, shared, perReq
<1>5. ThreadInv'
  BY <1>1, <1>2 DEF IInv, ThreadInv, main, shared
<1>6. PhaseInv'
  BY <1>1, <1>2 DEF IInv, PhaseInv, perReq
<1>7. NameInv'
  BY <1>1 DEF IInv, NameInv, perReq, files
<1>8. OwnInv'
  BY <1>1, <1>2 DEF IInv, OwnInv, Shared, There, Gone, Success, perReq, files
<1> QED BY <1>3, <1>4, <1>5, <1>6, <1>7, <1>8 DEF IInv

LEMMA StoreCounterStep == ASSUME IInv, NEW t \in Threads, StoreCounter(t) PROVE IInv'
<1>0. PICK r0 : r0 = Req(t)
  OBVIOUS
<1>1. /\ Goto(t, "store", "lock") /\ pathCounter' = seen[t] + 1
      /\ name' = [name EXCEPT ![r0] = <<Path(r0), seen[t]>>]
      /\ UNCHANGED <<main, j, seen, counter, fileLock, entry, handle, outcome, files>>
  BY <1>0 DEF StoreCounter
<1>2. /\ r0 \in Requests /\ Phase(r0) = "store" /\ Phase(r0)' = "lock"
      /\ \A r \in Requests : r # r0 => Phase(r)' = Phase(r)
      /\ tpc[t] = "store" /\ tpc'[t] = "lock"
      /\ \A u \in Threads : u # t => tpc'[u] = tpc[u]
  BY <1>0, <1>1, PhaseStep DEF IInv
<1>3. entry[r0] # NULL /\ name[r0] = NULL /\ handle[r0] = NULL
  BY <1>2 DEF IInv, PhaseInv
<1>4. Named \subseteq Requests /\ r0 \notin Named /\ Named' = Named \cup {r0}
  <2>1. <<Path(r0), seen[t]>> \in Names
    <3>1. Path(r0) \in 0..(NPaths - 1)
      BY <1>2, <1>3, Distinct, TurnStep DEF Path, IInv, TypeOK
    <3> QED BY <3>1 DEF IInv, TypeOK, Names
  <2> QED BY <1>1, <1>2, <1>3, <2>1, Distinct DEF Named, IInv, TypeOK
<1>5. <<Path(r0), seen[t]>> \in Names /\ name \in [Requests -> Names \cup {NULL}]
  <2>1. Path(r0) \in 0..(NPaths - 1)
    BY <1>2, <1>3, Distinct, TurnStep DEF Path, IInv, TypeOK
  <2> QED BY <2>1 DEF IInv, TypeOK, Names
<1>6. /\ Cardinality(Named') = Cardinality(Named) + 1 /\ Cardinality(Named) \in Counters
      /\ Cardinality(Named) + 1 \in Counters
  BY <1>2, <1>4, CountMore
<1>7. pathCounter' <= Cardinality(Named') /\ pathCounter' \in Counters
  <2>1. seen[t] <= Cardinality(Named) /\ seen[t] \in Counters
    BY <1>2 DEF IInv, CountInv, TypeOK
  <2>2. NThreads * NRequest \in Nat
    BY SizeAssumption
  <2> QED BY <1>1, <1>6, <2>1, <2>2 DEF Counters
<1>8. TypeOK'
  BY <1>1, <1>2, <1>5, <1>7 DEF Goto, IInv, TypeOK, ThreadPC, main, files
<1>9. CountInv'
  <2>1. \A u \in Threads : tpc'[u] = "store" => seen'[u] <= Cardinality(Named')
    <3> SUFFICES ASSUME NEW u \in Threads, tpc'[u] = "store"
                 PROVE  seen'[u] <= Cardinality(Named')
      OBVIOUS
    <3>1. seen'[u] = seen[u] /\ seen[u] <= Cardinality(Named) /\ seen[u] \in Counters
      BY <1>1, <1>2 DEF IInv, CountInv, TypeOK
    <3>2. seen[u] \in Nat /\ Cardinality(Named) \in Nat
      BY <1>6, <3>1, Distinct
    <3> QED BY <1>6, <3>1, <3>2
  <2> QED BY <1>1, <1>7, <2>1 DEF IInv, CountInv, Begun, Asked, Turn, Path
<1>10. ThreadInv'
  BY <1>1, <1>2 DEF IInv, ThreadInv, main
<1>11. PhaseInv'
  <2>1. \A r \in Requests : r # r0 => name'[r] = name[r]
    BY <1>1
  <2>2. name'[r0] # NULL
    BY <1>1, <1>2, <1>5, Distinct
  <2> QED BY <1>1, <1>2, <2>1, <2>2 DEF IInv, PhaseInv
<1>12. \A r \in Requests : r # r0 => name'[r] = name[r]
  BY <1>1
<1>13. NameInv'
  <2>1. \A n \in Names : dir[n] # NULL => dir[n] \in Requests /\ dir[n] # r0
    BY <1>3, <1>5, Distinct DEF IInv, TypeOK, NameInv
  <2>2. \A r \in Requests : handle[r] # NULL =>
          name[r] # NULL /\ handle[r] \in Requests /\ handle[r] # r0 /\ r # r0
    <3> SUFFICES ASSUME NEW r \in Requests, handle[r] # NULL
                 PROVE  name[r] # NULL /\ handle[r] \in Requests /\ handle[r] # r0 /\ r # r0
      OBVIOUS
    <3>1. name[r] # NULL /\ handle[r] \in Requests /\ name[handle[r]] = name[r]
      BY DEF IInv, TypeOK, PhaseInv, NameInv
    <3> QED BY <1>3, <3>1
  <2> QED BY <1>1, <1>12, <2>1, <2>2 DEF IInv, NameInv, files
<1>14. OwnInv'
  <2> SUFFICES ASSUME NEW r \in Requests, ~Shared(r)', Phase(r)' \notin {"new", "load", "store", "lock"}
               PROVE  /\ ~Shared(r) /\ Phase(r)' = Phase(r) /\ name'[r] = name[r]
    BY <1>1 DEF IInv, OwnInv, There, Gone, Success, files
  <2>1. r # r0 /\ Phase(r)' = Phase(r) /\ name'[r] = name[r] /\ name[r] # NULL
    BY <1>2, <1>12 DEF IInv, PhaseInv
  <2>2. ~Shared(r)
    BY <1>3, <1>12, <2>1 DEF Shared
  <2> QED BY <2>1, <2>2
<1> QED BY <1>8, <1>9, <1>10, <1>11, <1>13, <1>14 DEF IInv

\* The lock around the opening of the file.
LEMMA LockStep == ASSUME IInv, NEW t \in Threads, Lock(t) \/ Unlock(t) PROVE IInv'
<1>0. PICK from, to : /\ Goto(t, from, to)
                      /\ \/ from = "lock" /\ to = "open" /\ fileLock = NULL /\ fileLock' = t
                         \/ from = "unlock" /\ to = "perform" /\ fileLock' = NULL
                      /\ UNCHANGED <<main, j, seen, counter, pathCounter, perReq, files>>
  BY DEF Lock, Unlock
<1>1. PICK r0 : r0 = Req(t)
  OBVIOUS
<1>2. /\ r0 \in Requests /\ Phase(r0) = from /\ Phase(r0)' = to
      /\ \A r \in Requests : r # r0 => Phase(r)' = Phase(r)
      /\ tpc[t] = from /\ tpc'[t] = to
      /\ \A u \in Threads : u # t => tpc'[u] = tpc[u]
  BY <1>0, <1>1, PhaseStep DEF IInv
<1>3. TypeOK'
  BY <1>0 DEF Goto, IInv, TypeOK, ThreadPC, main, perReq, files
<1>4. CountInv'
  <2>1. \A u \in Threads : tpc'[u] = "store" => tpc[u] = "store" /\ seen'[u] = seen[u]
    BY <1>0, <1>2
  <2> QED BY <1>0, <2>1, CountFrame DEF IInv, perReq
<1>5. ThreadInv'
  BY <1>0, <1>2, Distinct DEF IInv, ThreadInv, main
<1>6. PhaseInv'
  BY <1>0, <1>2 DEF IInv, PhaseInv, perReq
<1>7. NameInv'
  BY <1>0 DEF IInv, NameInv, perReq, files
<1>8. OwnInv'
  BY <1>0, <1>2 DEF IInv, OwnInv, Shared, There, Gone, Success, perReq, files
<1> QED BY <1>3, <1>4, <1>5, <1>6, <1>7, <1>8 DEF IInv

\* The open file has the name of the request, and is its own when no other
\* request has that name.
LEMMA OpenFileStep == ASSUME IInv, NEW t \in Threads, OpenFile(t) PROVE IInv'
<1>0. PICK r0, n0, f : r0 = Req(t) /\ n0 = name[r0] /\ f = IF dir[n0] = NULL THEN r0 ELSE dir[n0]
  OBVIOUS
<1>1. /\ Goto(t, "open", "unlock") /\ handle' = [handle EXCEPT ![r0] = f]
      /\ dir' = [dir EXCEPT ![n0] = f] /\ full' = [full EXCEPT ![f] = FALSE]
      /\ UNCHANGED <<main, j, seen, shared, entry, name, outcome>>
  BY <1>0 DEF OpenFile
<1>2. /\ r0 \in Requests /\ Phase(r0) = "open" /\ Phase(r0)' = "unlock"
      /\ \A r \in Requests : r # r0 => Phase(r)' = Phase(r)
      /\ tpc[t] = "open" /\ tpc'[t] = "unlock"
      /\ \A u \in Threads : u # t => tpc'[u] = tpc[u]
  BY <1>0, <1>1, PhaseStep DEF IInv
<1>3. n0 \in Names /\ f \in Requests /\ name[f] = n0
  <2>1. n0 \in Names
    BY <1>0, <1>2 DEF IInv, PhaseInv, TypeOK
  <2> QED BY <1>0, <1>2, <2>1 DEF IInv, NameInv, TypeOK
<1>4. TypeOK'
  BY <1>1, <1>2, <1>3 DEF Goto, IInv, TypeOK, ThreadPC, main, shared
<1>5. CountInv'
  <2>1. \A u \in Threads : tpc'[u] = "store" => tpc[u] = "store" /\ seen'[u] = seen[u]
    BY <1>1, <1>2
  <2> QED BY <1>1, <2>1, CountFrame DEF IInv, shared
<1>6. ThreadInv'
  BY <1>1, <1>2 DEF IInv, ThreadInv, main, shared
<1>7. PhaseInv'
  <2>1. \A r \in Requests : r # r0 => handle'[r] = handle[r]
    BY <1>1
  <2>2. handle'[r0] # NULL
    BY <1>1, <1>2, <1>3, Distinct DEF IInv, TypeOK
  <2> QED BY <1>1, <1>2, <2>1, <2>2 DEF IInv, PhaseInv
<1>8. NameInv'
  BY <1>0, <1>1, <1>2, <1>3 DEF IInv, TypeOK, NameInv
<1>9. OwnInv'
  <2> SUFFICES ASSUME NEW r \in Requests, ~Shared(r)',
                      Phase(r)' \in {"unlock", "perform", "close", "unlink", "unlink2", "over"}
               PROVE  \/ Phase(r)' = "unlock" /\ There(r)'
                      \/ /\ Phase(r)' = Phase(r) /\ ~Shared(r) /\ dir'[name[r]] = dir[name[r]]
                         /\ full'[r] = full[r] /\ name'[r] = name[r] /\ outcome'[r] = outcome[r]
    BY DEF IInv, OwnInv, There, Gone, Success
  <2>1. ~Shared(r) /\ name' = name /\ outcome' = outcome
    BY <1>1 DEF Shared
  <2>2. CASE r = r0
    <3>1. f = r0
      BY <1>0, <1>2, <1>3, <2>1, <2>2 DEF Shared
    <3> QED BY <1>0, <1>1, <1>2, <1>3, <2>1, <2>2, <3>1 DEF There, IInv, TypeOK
  <2>3. CASE r # r0
    <3>1. name[r] # n0 /\ f # r
      BY <1>0, <1>2, <1>3, <2>1, <2>3 DEF Shared
    <3>2. Phase(r)' = Phase(r) /\ name[r] \in Names
      BY <1>2, <2>3 DEF IInv, TypeOK, PhaseInv
    <3> QED BY <1>1, <2>1, <3>1, <3>2 DEF IInv, TypeOK
  <2> QED BY <2>2, <2>3
<1> QED BY <1>4, <1>5, <1>6, <1>7, <1>8, <1>9 DEF IInv

LEMMA PerformStep == ASSUME IInv, NEW t \in Threads, Perform(t) PROVE IInv'
<1>a. PICK r0 : r0 = Req(t)
  OBVIOUS
<1>b. PICK o \in Outcomes : outcome' = [outcome EXCEPT ![r0] = o]
  BY <1>a DEF Perform
<1>1. /\ Goto(t, "perform", "close")
      /\ UNCHANGED <<main, j, seen, shared, entry, name, handle, files>>
  BY DEF Perform
<1>2. /\ r0 \in Requests /\ Phase(r0) = "perform" /\ Phase(r0)' = "close"
      /\ \A r \in Requests : r # r0 => Phase(r)' = Phase(r)
      /\ tpc[t] = "perform" /\ tpc'[t] = "close"
      /\ \A u \in Threads : u # t => tpc'[u] = tpc[u]
  BY <1>a, <1>1, PhaseStep DEF IInv
<1>3. /\ \A r \in Requests : r # r0 => outcome'[r] = outcome[r]
      /\ outcome'[r0] = o /\ o # NULL
  BY <1>b, <1>2, Distinct DEF IInv, TypeOK
<1>4. TypeOK'
  BY <1>b, <1>1 DEF Goto, IInv, TypeOK, ThreadPC, main, shared, files
<1>5. CountInv'
  <2>1. \A u \in Threads : tpc'[u] = "store" => tpc[u] = "store" /\ seen'[u] = seen[u]
    BY <1>1, <1>2
  <2> QED BY <1>1, <2>1, CountFrame DEF IInv, shared
<1>6. ThreadInv'
  BY <1>1, <1>2 DEF IInv, ThreadInv, main, shared
<1>7. PhaseInv'
  BY <1>1, <1>2, <1>3 DEF IInv, PhaseInv
<1>8. NameInv'
  BY <1>1 DEF IInv, NameInv, files
<1>9. OwnInv'
  BY <1>1, <1>2, <1>3 DEF IInv, OwnInv, Shared, There, Gone, Success, files
<1> QED BY <1>4, <1>5, <1>6, <1>7, <1>8, <1>9 DEF IInv

\* An unshared request closes its own file, which no other has had open.
LEMMA CloseStep == ASSUME IInv, NEW t \in Threads, Close(t) PROVE IInv'
<1>0. PICK r0, h, to : /\ r0 = Req(t) /\ h = handle[r0]
                       /\ to = IF outcome[r0].failed THEN "unlink" ELSE "unlink2"
  OBVIOUS
<1> DEFINE alone == \A s \in Requests \ {r0} : handle[s] # h
<1>1. /\ Goto(t, "close", to)
      /\ IF outcome[r0].ok /\ ~outcome[r0].failed
         THEN \E whole \in (IF alone THEN {TRUE} ELSE BOOLEAN) : full' = [full EXCEPT ![h] = whole]
         ELSE UNCHANGED full
      /\ UNCHANGED <<main, j, seen, shared, perReq, dir>>
  BY <1>0 DEF Close
<1>2. /\ r0 \in Requests /\ Phase(r0) = "close" /\ Phase(r0)' = to
      /\ \A r \in Requests : r # r0 => Phase(r)' = Phase(r)
      /\ tpc[t] = "close" /\ tpc'[t] = to
      /\ \A u \in Threads : u # t => tpc'[u] = tpc[u]
  BY <1>0, <1>1, PhaseStep DEF IInv
<1>3. /\ h \in Requests /\ name[h] = name[r0]
      /\ outcome[r0].failed \in BOOLEAN /\ outcome[r0].ok \in BOOLEAN
  BY <1>0, <1>2 DEF IInv, PhaseInv, NameInv, TypeOK, Outcomes
<1>4. /\ full' \in [Requests -> BOOLEAN] /\ \A r \in Requests : r # h => full'[r] = full[r]
      /\ (alone /\ outcome[r0].ok /\ ~outcome[r0].failed) => full'[h] = TRUE
  BY <1>1, <1>3 DEF IInv, TypeOK
<1> HIDE DEF alone
<1>5. TypeOK'
  <2>1. tpc' \in [Threads -> ThreadPC]
    BY <1>0, <1>1 DEF Goto, IInv, TypeOK, ThreadPC
  <2> QED BY <1>1, <1>4, <2>1 DEF IInv, TypeOK, main, shared, perReq
<1>6. CountInv'
  <2>1. \A u \in Threads : tpc'[u] = "store" => tpc[u] = "store" /\ seen'[u] = seen[u]
    BY <1>0, <1>1, <1>2
  <2> QED BY <1>1, <2>1, CountFrame DEF IInv, shared, perReq
<1>7. ThreadInv'
  BY <1>0, <1>1, <1>2 DEF IInv, ThreadInv, main, shared
<1>8. PhaseInv'
  BY <1>0, <1>1, <1>2 DEF IInv, PhaseInv, perReq
<1>9. NameInv'
  BY <1>1 DEF IInv, NameInv, perReq
<1>10. OwnInv'
  <2>1. ASSUME NEW r \in Requests, ~Shared(r), r # r0
        PROVE  full'[r] = full[r] /\ Phase(r)' = Phase(r)
    <3>1. h # r
      BY <1>2, <1>3, <2>1 DEF Shared
    <3> QED BY <1>2, <1>4, <2>1, <3>1
  <2>2. ASSUME ~Shared(r0), ~outcome[r0].failed, outcome[r0].ok PROVE full'[r0] = TRUE
    <3>1. h = r0
      BY <1>2, <1>3, <2>2 DEF Shared
    <3>2. alone
      BY <1>2, <2>2, <3>1, Distinct DEF Shared, IInv, TypeOK, NameInv, alone
    <3> QED BY <1>4, <2>2, <3>1, <3>2
  <2>3. ~Shared(r0) => There(r0)
    BY <1>2 DEF IInv, OwnInv
  <2>4. name' = name /\ dir' = dir /\ outcome' = outcome /\ \A r \in Requests : Shared(r)' = Shared(r)
    BY <1>1 DEF perReq, Shared
  <2> SUFFICES ASSUME NEW r \in Requests, ~Shared(r)
               PROVE /\ Phase(r)' \in {"unlock", "perform", "close", "unlink"} => There(r)
                     /\ Phase(r)' = "unlink2" => IF outcome[r].failed THEN Gone(r)
                                         ELSE There(r) /\ (outcome[r].ok => full'[r])
                     /\ Phase(r)' = "over" => IF Success(r) THEN There(r) /\ full'[r] ELSE Gone(r)
    BY <2>4 DEF OwnInv, There, Gone, Success
  <2>5. CASE r = r0
    BY <1>0, <1>2, <1>3, <2>2, <2>3, <2>5
  <2>6. CASE r # r0
    BY <2>1, <2>6 DEF IInv, OwnInv
  <2> QED BY <2>5, <2>6
<1> QED BY <1>5, <1>6, <1>7, <1>8, <1>9, <1>10 DEF IInv

\* The two removals, the second for any status but GF_OK.
LEMMA UnlinkStep == ASSUME IInv, NEW t \in Threads, Unlink(t) \/ UnlinkStatus(t) PROVE IInv'
<1>0. PICK r0, n0, from, to, after :
        /\ r0 = Req(t) /\ n0 = name[r0] /\ Goto(t, from, to)
        /\ dir' = (IF from = "unlink2" /\ outcome[r0].ok THEN dir ELSE [dir EXCEPT ![n0] = NULL])
        /\ \/ from = "unlink" /\ to = "unlink2" /\ after = "unlink2"
           \/ from = "unlink2" /\ to = "path" /\ after = "over"
        /\ UNCHANGED <<main, j, seen, shared, perReq, full>>
  BY DEF Unlink, UnlinkStatus
<1>2. /\ r0 \in Requests /\ Phase(r0) = from /\ Phase(r0)' = after
      /\ \A r \in Requests : r # r0 => Phase(r)' = Phase(r)
      /\ tpc[t] = from /\ tpc'[t] = to
      /\ \A u \in Threads : u # t => tpc'[u] = tpc[u]
  BY <1>0, PhaseStep DEF IInv
<1>3. n0 \in Names /\ outcome[r0].failed \in BOOLEAN /\ outcome[r0].ok \in BOOLEAN
  BY <1>0, <1>2 DEF IInv, PhaseInv, TypeOK, Outcomes
<1>4. /\ dir' \in [Names -> Requests \cup {NULL}]
      /\ \A n \in Names : dir'[n] = dir[n] \/ (n = n0 /\ dir'[n] = NULL)
      /\ (from = "unlink" \/ ~outcome[r0].ok) => dir'[n0] = NULL
      /\ (from = "unlink2" /\ outcome[r0].ok) => dir' = dir
  BY <1>0, <1>3 DEF IInv, TypeOK
<1>5. TypeOK'
  <2>1. tpc' \in [Threads -> ThreadPC]
    BY <1>0 DEF Goto, IInv, TypeOK, ThreadPC
  <2> QED BY <1>0, <1>4, <2>1 DEF IInv, TypeOK, main, shared, perReq
<1>6. CountInv'
  <2>1. \A u \in Threads : tpc'[u] = "store" => tpc[u] = "store" /\ seen'[u] = seen[u]
    BY <1>0, <1>2
  <2> QED BY <1>0, <2>1, CountFrame DEF IInv, shared, perReq
<1>7. ThreadInv'
  BY <1>0, <1>2 DEF IInv, ThreadInv, main, shared
<1>8. PhaseInv'
  BY <1>0, <1>2 DEF IInv, PhaseInv, perReq
<1>9. NameInv'
  BY <1>0, <1>4 DEF IInv, NameInv, perReq
<1>10. OwnInv'
  <2>1. name' = name /\ full' = full /\ outcome' = outcome
        /\ \A r \in Requests : Shared(r)' = Shared(r)
    BY <1>0 DEF perReq, Shared
  <2>2. ASSUME NEW r \in Requests, ~Shared(r), r # r0, name[r] # NULL
        PROVE  dir'[name[r]] = dir[name[r]] /\ Phase(r)' = Phase(r)
    <3>1. name[r] # n0 /\ name[r] \in Names
      BY <1>0, <1>2, <2>2 DEF Shared, IInv, TypeOK
    <3> QED BY <1>2, <1>4, <2>2, <3>1
  <2>3. \A r \in Requests : name[r] = NULL /\ r # r0 => Phase(r)' \in {"new", "load", "store"}
    BY <1>2 DEF IInv, PhaseInv
  <2>4. ASSUME ~Shared(r0), from = "unlink" PROVE outcome[r0].failed /\ Gone(r0)'
    BY <1>0, <1>2, <1>4, <2>1, <2>4 DEF IInv, PhaseInv, Gone
  <2>5. ASSUME ~Shared(r0), from = "unlink2"
        PROVE  IF Success(r0) THEN There(r0)' /\ full[r0] ELSE Gone(r0)'
    BY <1>0, <1>2, <1>3, <1>4, <2>1, <2>5 DEF IInv, OwnInv, There, Gone, Success
  <2>6. ASSUME NEW r \in Requests, r # r0, ~Shared(r)
        PROVE /\ Phase(r)' \in {"unlock", "perform", "close", "unlink"} => There(r)'
              /\ Phase(r)' = "unlink2" => IF outcome'[r].failed THEN Gone(r)'
                                   ELSE There(r)' /\ (outcome'[r].ok => full'[r])
              /\ Phase(r)' = "over" => IF Success(r)' THEN There(r)' /\ full'[r] ELSE Gone(r)'
    BY <2>1, <2>2, <2>3, <2>6 DEF IInv, OwnInv, There, Gone, Success
  <2> QED BY <1>0, <1>2, <2>1, <2>4, <2>5, <2>6 DEF OwnInv, Success
<1> QED BY <1>5, <1>6, <1>7, <1>8, <1>9, <1>10 DEF IInv

LEMMA OpenFailsStep == ASSUME IInv, NEW t \in Threads, OpenFails(t) PROVE IInv'
<1>1. mpc' = "exit" /\ UNCHANGED <<mi, created, tpc, j, seen, shared, perReq, files>>
  BY DEF OpenFails
<1>2. TypeOK'
  BY <1>1 DEF IInv, TypeOK, shared, perReq, files
<1>3. ThreadInv'
  BY <1>1 DEF IInv, ThreadInv, shared
<1>4. \A r \in Requests : Phase(r)' = Phase(r)
  BY <1>1 DEF Phase
<1> QED BY <1>1, <1>2, <1>3, <1>4, RequestFrame DEF IInv

-----------------------------------------------------------------------------
(* What follows.                                                           *)

LEMMA StepInv == IInv /\ [Next]_vars => IInv'
<1> SUFFICES ASSUME IInv, [Next]_vars PROVE IInv'
  OBVIOUS
<1>1. CASE Main
  BY <1>1, MainStep
<1>2. ASSUME NEW t \in Threads, Thread(t) PROVE IInv'
  BY <1>2, GetPathStep, FinishStep, LoadCounterStep, StoreCounterStep, LockStep, OpenFileStep,
     OpenFailsStep, PerformStep, CloseStep, UnlinkStep DEF Thread
<1>3. CASE UNCHANGED vars
  <2>1. UNCHANGED <<shared, perReq, files, seen, main, tpc, j>>
    BY <1>3 DEF vars
  <2>2. TypeOK' /\ ThreadInv'
    BY <2>1 DEF IInv, TypeOK, ThreadInv, main, shared, perReq, files
  <2>3. \A r \in Requests : Phase(r)' = Phase(r)
    BY <2>1 DEF Phase
  <2> QED BY <2>1, <2>2, <2>3, RequestFrame DEF IInv
<1> QED BY <1>1, <1>2, <1>3 DEF Next

LEMMA Invariance == Spec => []IInv
BY InitIInv, StepInv, PTL DEF Spec

\* workload.h: the paths are asked for in turn, whatever the threads do, and no
\* two requests get one entry.
THEOREM PathsInTurn == Spec => []PathsInv
<1>1. IInv => PathsInv
  <2> SUFFICES ASSUME IInv PROVE PathsInSequence
    BY DEF IInv, PathsInv
  <2>1. ASSUME NEW r \in Requests, NEW s \in Requests, entry[r] # NULL, entry[r] = entry[s]
        PROVE  r = s
    BY <2>1 DEF IInv, CountInv, Begun
  <2>2. ASSUME NEW p \in 0..(NPaths - 1), NEW q \in 0..(NPaths - 1)
        PROVE  Asked(p) - Asked(q) \in {-1, 0, 1}
    <3>1. Asked(p) \in Nat /\ Asked(q) \in Nat
      <4>1. \A x \in 0..(NPaths - 1) : Cardinality({r \in Requests : entry[r] # NULL /\ Path(r) = x}) \in Counters
        BY CountSubset
      <4> QED BY <4>1, Distinct DEF Asked
    <3>2. Turn(p) \in {0, 1} /\ Turn(q) \in {0, 1}
      BY DEF Turn
    <3>3. Asked(p) - Turn(p) = Asked(q) - Turn(q)
      BY DEF IInv, CountInv
    <3> QED BY <3>1, <3>2, <3>3
  <2> QED BY <2>1, <2>2 DEF PathsInSequence
<1> QED BY <1>1, Invariance, PTL

\* gfclient_download.c: the file of a request that is over is there and whole if
\* it succeeded and is gone otherwise, unless another request got its local path.
THEOREM FilesMatch == Spec => []FilesMatchOutcomes
<1>1. IInv => FilesMatchOutcomes
  <2> SUFFICES ASSUME IInv, NEW r \in Requests, Over(r), ~Shared(r)
               PROVE  IF Success(r) THEN dir[name[r]] # NULL /\ full[dir[name[r]]]
                      ELSE dir[name[r]] = NULL
    BY DEF FilesMatchOutcomes
  <2>1. Phase(r) = "over"
    <3>1. Phase(r) \in {"close", "unlink", "unlink2", "over"}
      BY DEF IInv, PhaseInv, Over
    <3>2. r[2] \in Int /\ j[r[1]] \in Int
      BY SizeAssumption DEF Requests, IInv, TypeOK
    <3> QED BY <3>1, <3>2 DEF Over, Phase
  <2> QED BY <2>1, Distinct DEF IInv, OwnInv, There, Gone
<1> QED BY <1>1, Invariance, PTL
=============================================================================
