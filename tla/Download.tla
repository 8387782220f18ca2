------------------------------- MODULE Download -------------------------------
(***************************************************************************)
(* pr1/gflib/gfclient_download.c: programs that make their requests one    *)
(* after the other, each into a local file named after its path and the    *)
(* number of the request.  A request is a client of Getfile, whose         *)
(* gfc_perform it calls; the programs run in one directory.                *)
(***************************************************************************)
EXTENDS Getfile

CONSTANTS Programs,     \* the programs
          NRequests,    \* -n
          Plans         \* which request of which program each one is

ASSUME PlanAssumption ==
  /\ NRequests \in Nat /\ Plans \subseteq [Clients -> Programs \X (0..(NRequests - 1))]
  /\ \A p \in Plans : \A c, d \in Clients : p[c] = p[d] => c = d

VARIABLES plan,    \* the plan chosen, which never changes
          dpc,     \* control of each request
          disk     \* the request that created the file of each name, or NULL

dvars == <<dpc, disk>>

ProgramOf(c) == plan[c][1]
Number(c)    == plan[c][2]
Before(c)    == {d \in Clients : ProgramOf(d) = ProgramOf(c) /\ Number(d) < Number(c)}

\* localPath: the static counter is the program's own.
LocalName(c) == <<path[c], Number(c)>>
Names == Paths \X (0..(NRequests - 1))

DownloadInit == /\ Init /\ plan \in Plans
                /\ dpc = [c \in Clients |-> "wait"]
                /\ disk = [n \in Names |-> NULL]

Step(c, from, to) == /\ dpc[c] = from /\ dpc' = [dpc EXCEPT ![c] = to]
                     /\ UNCHANGED <<vars, plan>>
Unlinked(c) == disk' = [disk EXCEPT ![LocalName(c)] = NULL]

\* The next request of a program begins when those before it are done.
OpenFile(c) ==
  /\ Step(c, "wait", "open") /\ \A d \in Before(c) : dpc[d] = "done"
  /\ disk' = [disk EXCEPT ![LocalName(c)] = IF @ = NULL THEN c ELSE @]
\* mkdir or fopen fails: the program exits.
CannotOpen(c) ==
  /\ Step(c, "wait", "exit") /\ \A d \in Before(c) : dpc[d] = "done"
  /\ UNCHANGED disk

\* Mutant: after an error the file is closed and kept.
CloseKept(c) ==
  /\ Step(c, "open", "closed") /\ cpc[c] = "returned" /\ UNCHANGED disk
Close(c) ==
  /\ Step(c, "open", "closed") /\ cpc[c] = "returned"
  /\ IF ret[c] < 0 THEN Unlinked(c) ELSE UNCHANGED disk
\* A file that was unlinked after an error is unlinked again, by its name.
CheckStatus(c) ==
  /\ Step(c, "closed", "done")
  /\ IF status[c] # "OK" THEN Unlinked(c) ELSE UNCHANGED disk

Perform(c) == dpc[c] = "open" /\ (Connect(c) \/ Receive(c)) /\ UNCHANGED <<plan, dvars>>
Program(c) == OpenFile(c) \/ CannotOpen(c) \/ Close(c) \/ CheckStatus(c)

DownloadNext == \/ Server /\ UNCHANGED <<plan, dvars>>
                \/ \E c \in Clients : Perform(c) \/ Program(c)

DownloadSpec == /\ DownloadInit /\ [][DownloadNext]_<<vars, plan, dvars>>
                /\ WF_<<vars, plan, dvars>>(Server /\ UNCHANGED <<plan, dvars>>)
                /\ \A c \in Clients : WF_<<vars, plan, dvars>>(Perform(c) \/ Program(c))

-----------------------------------------------------------------------------
(* Properties.                                                             *)

Alone(c) == \A d \in Clients \ {c} : path[d] = path[c] => ProgramOf(d) = ProgramOf(c)

\* When no other program asks for the same path, what a request leaves in the
\* directory is its own file if it succeeded and nothing if it did not
\* (gfclient_download.c 158-171), whatever the requests before and after it.
KeptIfSucceeded ==
  \A c \in Clients : dpc[c] = "done" /\ Alone(c) =>
    ((disk[LocalName(c)] = c) <=> (ret[c] = 0 /\ status[c] = "OK"))

\* Every request is done, or its program has ended or waits in a gfc_perform
\* that does not return.
ProgramsEnd ==
  \A c \in Clients :
    <>(\E d \in Before(c) \union {c} :
         \/ dpc[c] = "done" \/ dpc[d] = "exit" \/ cpc[d] \in {"exited", "fault"}
         \/ Misread(d) \/ (served[d] # NULL /\ Content(d) = <<>>))
=============================================================================
