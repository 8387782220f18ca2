------------------------------ MODULE Structures ------------------------------
(***************************************************************************)
(* The two sequential data structures of the servers, the queue of         *)
(* requests and the content table.  They share nothing: a behaviour is one *)
(* of one structure, and the variables of the other stand still.           *)
(***************************************************************************)
EXTENDS Steque, Content

VARIABLE structure    \* "queue" or "table", which never changes

structuresVars == <<vars, contentVars, structure>>

\* What the other structure holds does not matter.
StructuresInit ==
    /\ Init /\ ContentInit
    /\ \/ structure = "queue" /\ list = (CHOOSE l \in Lists : TRUE)
                              /\ key = (CHOOSE k \in Keys : TRUE)
       \/ structure = "table" /\ item = [c \in Cells |-> CHOOSE x \in Items : TRUE]

QueueStep == structure = "queue" /\ Next        /\ UNCHANGED <<contentVars, structure>>
TableStep == structure = "table" /\ ContentNext /\ UNCHANGED <<vars, structure>>

StructuresSpec ==
    /\ StructuresInit /\ [][QueueStep \/ TableStep]_structuresVars
    /\ WF_vars(DestroyPop \/ DestroyEnd)    \* a destroy that has begun runs to its end
    /\ WF_contentVars(Search)               \* so does a call of content_get
=============================================================================
