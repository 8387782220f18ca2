----------------------------- MODULE ClientPool -----------------------------
(***************************************************************************)
(* The multithreaded download client of pr1/mtgf: gfclient_download.c with *)
(* the path generator of workload.c.                                       *)
(*                                                                         *)
(* Threads share the workload counter (fetched and added atomically), the  *)
(* static counter of localPath (loaded and stored with no lock), _fileLock *)
(* around the opening of the output file, and the directory the files are  *)
(* in.  gfclient.o is external: gfc_perform ends with any return code and  *)
(* any status.                                                             *)
(***************************************************************************)
EXTENDS Integers, FiniteSets

CONSTANTS
    NThreads,         \* -t
    NRequest,         \* -n, the requests of each thread
    NPaths,           \* gUniqueWorkloadPaths
    CreateMayFail,    \* whether pthread_create may run out of resources
    NULL

ASSUME SizeAssumption ==
    /\ NThreads \in Nat /\ NRequest \in Nat /\ NPaths \in Nat \ {0}
    /\ CreateMayFail \in BOOLEAN
ASSUME NullAssumption == /\ NULL \notin Nat /\ NULL \notin Nat \X Nat
                         /\ NULL \notin [failed : BOOLEAN, ok : BOOLEAN]

Threads  == 1..NThreads
Requests == Threads \X (1..NRequest)      \* the j-th request of a thread
Outcomes == [failed : BOOLEAN, ok : BOOLEAN]    \* return code < 0; GF_OK
Counters == 0..(NThreads * NRequest)
Names    == (0..(NPaths - 1)) \X Counters       \* "%s-%06d", path and counter

VARIABLES
    mpc, mi,       \* main: control and loop index
    created,       \* the t_id[i] that pthread_create filled in
    tpc, j,        \* thread: control, requests begun
    counter,       \* workload.c
    pathCounter,   \* localPath's static counter
    seen,          \* thread: the value localPath loaded
    fileLock,      \* the holder of _fileLock, or NULL
    entry, name,   \* per request: workload entry and local_path, or NULL
    handle,        \* per request: the file it has open; files are named by
                   \* the request that created them
    outcome,       \* per request: what gfc_perform yielded, or NULL
    dir,           \* the directory: the file of each name, or NULL
    full           \* whether a file holds a whole download

main   == <<mpc, mi, created>>
shared == <<counter, pathCounter, fileLock>>
files  == <<dir, full>>
perReq == <<entry, name, handle, outcome>>
vars   == <<main, tpc, j, seen, shared, perReq, files>>

ThreadPC == {"idle", "path", "load", "store", "lock", "open", "unlock", "perform",
             "close", "unlink", "unlink2", "end"}

Init ==
    /\ mpc = "create" /\ mi = 1 /\ created = {}
    /\ tpc = [t \in Threads |-> "idle"]
    /\ j = [t \in Threads |-> 0]
    /\ counter = 0 /\ pathCounter = 0 /\ fileLock = NULL
    /\ seen = [t \in Threads |-> 0]
    /\ entry = [r \in Requests |-> NULL]
    /\ name = [r \in Requests |-> NULL]
    /\ handle = [r \in Requests |-> NULL]
    /\ outcome = [r \in Requests |-> NULL]
    /\ dir = [n \in Names |-> NULL]
    /\ full = [r \in Requests |-> FALSE]

-----------------------------------------------------------------------------
(* main: create every thread, join every thread, free.                     *)

\* The loop tests the result of pthread_create with < 0; errors are positive,
\* so a failure leaves t_id[i] uninitialized and goes on.
Create ==
    /\ mpc = "create" /\ mi <= NThreads
    /\ mi' = mi + 1
    /\ \/ created' = created \cup {mi} /\ tpc' = [tpc EXCEPT ![mi] = "path"]
       \/ CreateMayFail /\ UNCHANGED <<created, tpc>>
    /\ UNCHANGED <<mpc, j, seen, shared, perReq, files>>

CreateDone ==
    /\ mpc = "create" /\ mi > NThreads
    /\ mpc' = "join" /\ mi' = 1
    /\ UNCHANGED <<created, tpc, j, seen, shared, perReq, files>>


\* Joining an id that was never created is undefined: the join returns an
\* error (exit), faults, or returns.
Join ==
    /\ mpc = "join" /\ mi <= NThreads
    /\ \/ mi \in created /\ tpc[mi] = "end" /\ mi' = mi + 1 /\ UNCHANGED mpc
       \/ mi \notin created /\ mi' = mi + 1 /\ UNCHANGED mpc
       \/ mi \notin created /\ mpc' = "exit" /\ UNCHANGED mi
    /\ UNCHANGED <<created, tpc, j, seen, shared, perReq, files>>

JoinDone ==    \* frees mtagu, which every thread reads
    /\ mpc = "join" /\ mi > NThreads
    /\ mpc' = "freed"
    /\ UNCHANGED <<mi, created, tpc, j, seen, shared, perReq, files>>

-----------------------------------------------------------------------------
(* A thread: gfcallback.                                                   *)

Req(t) == <<t, j[t]>>
Goto(t, from, to) == tpc[t] = from /\ tpc' = [tpc EXCEPT ![t] = to]

\* Mutant: counter++ is not atomic, and an increment may be lost.
GetPathLosesUpdate(t) ==
    /\ j[t] < NRequest
    /\ Goto(t, "path", "load")
    /\ j' = [j EXCEPT ![t] = @ + 1]
    /\ entry' = [entry EXCEPT ![<<t, j[t] + 1>>] = counter]
    /\ counter' \in {counter, counter + 1}
    /\ UNCHANGED <<main, seen, pathCounter, fileLock, name, handle, outcome, files>>

\* The loop test, then workload_get_path: __sync_fetch_and_add, modulo.  The exit of
\* localPath for a path above 256 characters is left out: workload_init has read such
\* a path past the end of its temp_buf.
GetPath(t) ==
    /\ j[t] < NRequest
    /\ Goto(t, "path", "load")
    /\ j' = [j EXCEPT ![t] = @ + 1]
    /\ entry' = [entry EXCEPT ![<<t, j[t] + 1>>] = counter]
    /\ counter' = counter + 1
    /\ UNCHANGED <<main, seen, pathCounter, fileLock, name, handle, outcome, files>>

Finish(t) ==
    /\ j[t] = NRequest
    /\ Goto(t, "path", "end")
    /\ UNCHANGED <<main, j, seen, shared, perReq, files>>

Path(r) == entry[r] % NPaths

\* counter++ in localPath, outside the lock: a load and a store.
LoadCounter(t) ==
    /\ Goto(t, "load", "store")
    /\ seen' = [seen EXCEPT ![t] = pathCounter]
    /\ UNCHANGED <<main, j, shared, perReq, files>>

StoreCounter(t) ==
    /\ Goto(t, "store", "lock")
    /\ pathCounter' = seen[t] + 1
    /\ name' = [name EXCEPT ![Req(t)] = <<Path(Req(t)), seen[t]>>]
    /\ UNCHANGED <<main, j, seen, counter, fileLock, entry, handle, outcome, files>>

Lock(t) ==
    /\ fileLock = NULL
    /\ Goto(t, "lock", "open")
    /\ fileLock' = t
    /\ UNCHANGED <<main, j, seen, counter, pathCounter, perReq, files>>

\* fopen(path, "w") truncates an existing file and creates a missing one.
OpenFile(t) ==
    /\ Goto(t, "open", "unlock")
    /\ LET r == Req(t)
           f == IF dir[name[r]] = NULL THEN r ELSE dir[name[r]]
       IN  /\ handle' = [handle EXCEPT ![r] = f]
           /\ dir' = [dir EXCEPT ![name[r]] = f]
           /\ full' = [full EXCEPT ![f] = FALSE]
    /\ UNCHANGED <<main, j, seen, shared, entry, name, outcome>>

\* openFile exits when it cannot make a directory or open the file.
OpenFails(t) ==
    /\ tpc[t] = "open"
    /\ mpc' = "exit"
    /\ UNCHANGED <<mi, created, tpc, j, seen, shared, perReq, files>>

Unlock(t) ==
    /\ Goto(t, "unlock", "perform")
    /\ fileLock' = NULL
    /\ UNCHANGED <<main, j, seen, counter, pathCounter, perReq, files>>

Perform(t) ==
    /\ Goto(t, "perform", "close")
    /\ \E o \in Outcomes : outcome' = [outcome EXCEPT ![Req(t)] = o]
    /\ UNCHANGED <<main, j, seen, shared, entry, name, handle, files>>

\* fclose flushes; a whole response leaves the whole file, if no other request
\* has had the same file open and may have truncated it on the way.
Close(t) ==
    /\ LET r == Req(t)
           alone == \A s \in Requests \ {r} : handle[s] # handle[r]
       IN  /\ Goto(t, "close", IF outcome[r].failed THEN "unlink" ELSE "unlink2")
           /\ IF outcome[r].ok /\ ~outcome[r].failed
              THEN \E whole \in (IF alone THEN {TRUE} ELSE BOOLEAN) :
                      full' = [full EXCEPT ![handle[r]] = whole]
              ELSE UNCHANGED full
    /\ UNCHANGED <<main, j, seen, shared, perReq, dir>>

\* After a failed gfc_perform.
Unlink(t) ==
    /\ Goto(t, "unlink", "unlink2")
    /\ dir' = [dir EXCEPT ![name[Req(t)]] = NULL]
    /\ UNCHANGED <<main, j, seen, shared, perReq, full>>

\* Mutant: the file of a request with another status than GF_OK stays.
UnlinkStatusForgotten(t) ==
    /\ Goto(t, "unlink2", "path")
    /\ UNCHANGED <<main, j, seen, shared, perReq, files>>

\* After any status but GF_OK, so for the second time when both went wrong.
UnlinkStatus(t) ==
    /\ Goto(t, "unlink2", "path")
    /\ dir' = IF outcome[Req(t)].ok THEN dir
              ELSE [dir EXCEPT ![name[Req(t)]] = NULL]
    /\ UNCHANGED <<main, j, seen, shared, perReq, full>>

Thread(t) == \/ GetPath(t) \/ Finish(t) \/ LoadCounter(t) \/ StoreCounter(t)
             \/ Lock(t) \/ OpenFile(t) \/ OpenFails(t) \/ Unlock(t) \/ Perform(t)
             \/ Close(t) \/ Unlink(t) \/ UnlinkStatus(t)

Main == Create \/ CreateDone \/ Join \/ JoinDone

Next == mpc \notin {"freed", "exit"} /\ (Main \/ \E t \in Threads : Thread(t))

Spec == Init /\ [][Next]_vars

\* Some thread that can run does, and gfc_perform returns.  No fairness between
\* threads is needed: the work of each is bounded.
FairSpec == Spec /\ WF_vars(Next)

-----------------------------------------------------------------------------
(* Properties.                                                             *)

\* The type invariant of the client's variables.
TypeOK ==
    /\ mpc \in {"create", "join", "freed", "exit"} /\ mi \in 1..(NThreads + 1)
    /\ created \subseteq Threads
    /\ tpc \in [Threads -> ThreadPC]
    /\ j \in [Threads -> 0..NRequest]
    /\ counter \in Counters /\ pathCounter \in Counters
    /\ seen \in [Threads -> Counters]
    /\ fileLock \in Threads \cup {NULL}
    /\ entry \in [Requests -> Counters \cup {NULL}]
    /\ name \in [Requests -> Names \cup {NULL}]
    /\ handle \in [Requests -> Requests \cup {NULL}]
    /\ outcome \in [Requests -> Outcomes \cup {NULL}]
    /\ dir \in [Names -> Requests \cup {NULL}]
    /\ full \in [Requests -> BOOLEAN]

\* The workload counter hands each entry to one request: whatever the threads
\* do, the paths are asked for in turn, so any two paths are asked for the same
\* number of times give or take one (workload.h: "the paths in sequence").
Asked(p) == Cardinality({r \in Requests : entry[r] # NULL /\ Path(r) = p})
PathsInSequence ==
    /\ \A r, s \in Requests : entry[r] # NULL /\ entry[r] = entry[s] => r = s
    /\ \A p, q \in 0..(NPaths - 1) : Asked(p) - Asked(q) \in {-1, 0, 1}

\* Every variable has its type, and the paths are asked for in sequence.
PathsInv == TypeOK /\ PathsInSequence

\* Once a request is over, its file is there and whole if gfc_perform returned
\* 0 with GF_OK, and is gone otherwise -- provided no other request was given
\* the same local path.
Over(r) == outcome[r] # NULL /\ (r[2] < j[r[1]] \/ tpc[r[1]] \in {"path", "end"})
Shared(r) == \E s \in Requests \ {r} : name[s] = name[r]
Success(r) == outcome[r].ok /\ ~outcome[r].failed
FilesMatchOutcomes ==
    \A r \in Requests : (Over(r) /\ ~Shared(r)) =>
        IF Success(r) THEN dir[name[r]] # NULL /\ full[dir[name[r]]]
        ELSE dir[name[r]] = NULL

=============================================================================
