------------------------------- MODULE Steque -------------------------------
(***************************************************************************)
(* pr1/mtgf/steque.c (and the same file of pr2): a singly linked list with *)
(* a front and a back pointer and a count.  One caller at a time; the      *)
(* unlocked use that handler.c makes of it is ServerPool.                  *)
(***************************************************************************)
EXTENDS Integers, Sequences, FiniteSets

CONSTANTS Items,    \* what a steque_item can be
          Cells,    \* bound: the addresses malloc may return
          NULL

ASSUME CellsAssumption == IsFiniteSet(Cells) /\ NULL \notin Cells

VARIABLES
    front, back, N,     \* the steque_t
    item, next,         \* the fields of each node
    live,               \* nodes allocated and not freed
    ret,                \* what the last call returned
    phase,              \* "use"; "destroy" in steque_destroy's loop; "exited"
    order               \* history: the nodes of the list, front first

struct == <<front, back, N>>
nodes  == <<item, next, live>>
vars   == <<struct, nodes, ret, phase, order>>

\* Mutant: steque_init leaves N as malloc returned it.
InitNoCount == /\ front = NULL /\ back = NULL /\ N \in {-1, 0}
               /\ item \in [Cells -> Items]
               /\ next = [c \in Cells |-> NULL]
               /\ live = {}
               /\ ret = 0 /\ phase = "use" /\ order = <<>>

\* steque_init.  The item of a node malloc returns is whatever was there.
Init == /\ front = NULL /\ back = NULL /\ N = 0
        /\ item \in [Cells -> Items]
        /\ next = [c \in Cells |-> NULL]
        /\ live = {}
        /\ ret = 0 /\ phase = "use" /\ order = <<>>

Using == phase = "use" /\ UNCHANGED phase

Enqueue(x) ==
    /\ Using
    /\ \E c \in Cells \ live :
          /\ item' = [item EXCEPT ![c] = x]
          /\ live' = live \cup {c}
          /\ \/ /\ back = NULL
                /\ front' = c
                /\ next' = [next EXCEPT ![c] = NULL]
             \/ /\ back # NULL
                /\ next' = [next EXCEPT ![c] = NULL, ![back] = c]
                /\ UNCHANGED front
          /\ back' = c
          /\ order' = Append(order, c)
    /\ N' = N + 1
    /\ UNCHANGED ret

Push(x) ==
    /\ Using
    /\ \E c \in Cells \ live :
          /\ item' = [item EXCEPT ![c] = x]
          /\ next' = [next EXCEPT ![c] = front]
          /\ live' = live \cup {c}
          /\ back' = IF back = NULL THEN c ELSE back
          /\ front' = c
          /\ order' = <<c>> \o order
    /\ N' = N + 1
    /\ UNCHANGED ret

\* The list part of steque_pop, which steque_destroy repeats.
Unlink ==
    /\ front # NULL
    /\ front' = next[front]
    /\ back' = IF next[front] = NULL THEN NULL ELSE back
    /\ live' = live \ {front}
    /\ N' = N - 1
    /\ order' = Tail(order)
    /\ UNCHANGED <<item, next>>

\* Mutant: steque_pop returns the item of the wrong end.
PopReturnsBack == Using /\ Unlink /\ ret' = item[back]

Pop == Using /\ Unlink /\ ret' = item[front]

Underflow ==    \* steque_pop and steque_front on an empty list
    /\ phase = "use" /\ front = NULL
    /\ phase' = "exited"
    /\ UNCHANGED <<struct, nodes, ret, order>>

\* Mutant: steque_cycle forgets to end the list at its new back.
CycleKeepsLink ==
    /\ Using
    /\ \/ back = NULL /\ UNCHANGED <<struct, next, order>>
       \/ /\ back # NULL
          /\ next' = [next EXCEPT ![back] = front]
          /\ back' = front
          /\ front' = next'[front]
          /\ order' = Append(Tail(order), Head(order))
          /\ UNCHANGED N
    /\ UNCHANGED <<item, live, ret>>

Cycle ==
    /\ Using
    /\ \/ back = NULL /\ UNCHANGED <<struct, next, order>>
       \/ /\ back # NULL
          /\ LET linked == [next EXCEPT ![back] = front] IN
                /\ back' = front
                /\ front' = linked[front]
                /\ next' = [linked EXCEPT ![front] = NULL]
          /\ order' = Append(Tail(order), Head(order))
          /\ UNCHANGED N
    /\ UNCHANGED <<item, live, ret>>

Front   == /\ Using /\ front # NULL /\ ret' = item[front]
           /\ UNCHANGED <<struct, nodes, order>>
Size    == Using /\ ret' = N /\ UNCHANGED <<struct, nodes, order>>
IsEmpty == /\ Using /\ ret' = (IF N = 0 THEN 1 ELSE 0)
           /\ UNCHANGED <<struct, nodes, order>>

\* while (!steque_isempty(this)) steque_pop(this);
Destroy == /\ phase = "use" /\ phase' = "destroy"
           /\ UNCHANGED <<struct, nodes, ret, order>>
\* Mutant: the loop of steque_destroy stops one element early.
DestroyPopLeavesOne == /\ phase = "destroy" /\ N > 1 /\ UNCHANGED ret
                       /\ Unlink /\ UNCHANGED phase
DestroyPop == /\ phase = "destroy" /\ N # 0 /\ UNCHANGED ret
              /\ IF front = NULL
                 THEN phase' = "exited" /\ UNCHANGED <<struct, nodes, order>>
                 ELSE Unlink /\ UNCHANGED phase
DestroyEnd == /\ phase = "destroy" /\ N = 0 /\ phase' = "use"
              /\ UNCHANGED <<struct, nodes, ret, order>>

Next == \/ \E x \in Items : Enqueue(x) \/ Push(x)
        \/ Pop \/ Underflow \/ Cycle \/ Front \/ Size \/ IsEmpty
        \/ Destroy \/ DestroyPop \/ DestroyEnd

Spec == Init /\ [][Next]_vars

-----------------------------------------------------------------------------
(* Properties.                                                             *)

\* The type invariant of steque_t and its nodes.
TypeOK ==
    /\ front \in Cells \cup {NULL} /\ back \in Cells \cup {NULL}
    /\ N \in Nat
    /\ item \in [Cells -> Items]
    /\ next \in [Cells -> Cells \cup {NULL}]
    /\ live \subseteq Cells
    /\ ret \in Items \cup Nat
    /\ phase \in {"use", "destroy", "exited"}
    /\ order \in Seq(Cells)

\* The list is well formed after every operation: following next from front
\* visits `order', ends at back with a null pointer and never meets a freed or
\* a repeated node; N counts it, and exactly its nodes are allocated, so no
\* operation leaks a node or leaves one dangling (steque.h:42).
ListOK ==
    /\ N = Len(order)
    /\ live = {order[i] : i \in 1..Len(order)}
    /\ \A i, j \in 1..Len(order) : order[i] = order[j] => i = j
    /\ \A i \in 1..Len(order) :
          next[order[i]] = IF i = Len(order) THEN NULL ELSE order[i + 1]
    /\ IF order = <<>> THEN front = NULL /\ back = NULL
       ELSE front = order[1] /\ back = order[Len(order)]

\* steque.c implements the sequence that steque.h describes: same results, same
\* elements in the same order, an exit only on an empty steque; the loop of
\* steque_destroy never underflows.
Contents == [i \in 1..Len(order) |-> item[order[i]]]
D == INSTANCE Deque WITH q <- Contents, MaxLen <- Cardinality(Cells)
ImplementsDeque == D!Spec

\* steque_destroy ends, with every node freed.
DestroyEnds == (phase = "destroy") ~> (phase = "use" /\ live = {})
=============================================================================
