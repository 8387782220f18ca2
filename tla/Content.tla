------------------------------ MODULE Content ------------------------------
(***************************************************************************)
(* content.c, the same file in pr1/mtgf and pr1/gflib: the table that maps *)
(* the paths clients ask for to open files.  content_init reads and sorts  *)
(* the list, content_get searches it.  A key stands for its rank in the    *)
(* order of strcmp; a file descriptor is the line that opened it.  The     *)
(* table is not written after content_init, so the calls that the server's *)
(* threads make of content_get do not disturb each other, and one caller   *)
(* is enough.                                                              *)
(***************************************************************************)
EXTENDS Integers, Sequences

CONSTANTS Lists,             \* the content files to be tried
          Keys,              \* ranks of the paths in them and asked for
          InitialCapacity    \* 16 in the code

Line == [key : Keys, opens : BOOLEAN]

ASSUME ListAssumption == Keys \subseteq Int /\ Lists \subseteq Seq(Line)
ASSUME CapacityAssumption == InitialCapacity \in Nat \ {0}

VARIABLES
    list,                      \* the content file
    stage,                     \* "fill", "ready", "search", "exit"
    items, nitems, capacity,
    key, lo, hi,               \* content_get's argument and bounds
    answer                     \* what the last content_get returned

table  == <<list, items, nitems, capacity>>
search == <<key, lo, hi, answer>>
contentVars == <<table, stage, search>>

ContentInit ==
    /\ list \in Lists
    /\ stage = "fill"
    /\ items = [i \in {} |-> 0] /\ nitems = 0 /\ capacity = InitialCapacity
    /\ key \in Keys /\ lo = 0 /\ hi = -1 /\ answer = -1

Opened(n) == [key |-> list[n].key, fildes |-> n]

\* Mutant: the table grows one line too late.
ReadLineLateGrowth ==
    /\ stage = "fill" /\ nitems < Len(list) /\ list[nitems + 1].opens
    /\ items' = [i \in 0..nitems |-> IF i = nitems THEN Opened(nitems + 1) ELSE items[i]]
    /\ nitems' = nitems + 1
    /\ capacity' = IF nitems' > capacity THEN 2 * capacity ELSE capacity
    /\ UNCHANGED <<list, stage, search>>

\* fgets writes the line to items[nitems] before anything else; the table grows
\* afterwards, so that there is room for the next.
ReadLine ==
    /\ stage = "fill" /\ nitems < Len(list) /\ list[nitems + 1].opens
    /\ items' = [i \in 0..nitems |-> IF i = nitems THEN Opened(nitems + 1) ELSE items[i]]
    /\ nitems' = nitems + 1
    /\ capacity' = IF nitems' = capacity THEN 2 * capacity ELSE capacity
    /\ UNCHANGED <<list, stage, search>>

\* The named file cannot be opened -- or the last line has no end of line, and
\* the last letter of its name was cut off.
OpenFails ==
    /\ stage = "fill" /\ nitems < Len(list) /\ ~list[nitems + 1].opens
    /\ stage' = "exit"
    /\ UNCHANGED <<table, search>>

\* qsort: equal keys may end up in any order.
Sort ==
    /\ stage = "fill" /\ nitems = Len(list)
    /\ \E p \in [0..(nitems - 1) -> 0..(nitems - 1)] :
          /\ \A i, j \in 0..(nitems - 1) : p[i] = p[j] => i = j
          /\ \A i \in 0..(nitems - 1) : \E j \in 0..(nitems - 1) : p[j] = i
          /\ items' = [i \in 0..(nitems - 1) |-> items[p[i]]]
    /\ \A i, j \in 0..(nitems - 1) : i < j => items'[i].key <= items'[j].key
    /\ stage' = "ready"
    /\ UNCHANGED <<list, nitems, capacity, search>>

Get(k) ==
    /\ stage = "ready"
    /\ key' = k /\ lo' = 0 /\ hi' = nitems - 1
    /\ stage' = "search"
    /\ UNCHANGED <<table, answer>>

mid == lo + (hi - lo) \div 2
Searching == stage = "search" /\ lo <= hi

\* Mutant: the middle element stays in the left half.
GoLeftKeepsMid ==
    /\ Searching /\ key < items[mid].key
    /\ hi' = mid
    /\ UNCHANGED <<table, stage, key, lo, answer>>

GoLeft ==
    /\ Searching /\ key < items[mid].key
    /\ hi' = mid - 1
    /\ UNCHANGED <<table, stage, key, lo, answer>>

\* Mutant: the right half loses its first element.
GoRightTooFar ==
    /\ Searching /\ key > items[mid].key
    /\ lo' = mid + 2
    /\ UNCHANGED <<table, stage, key, hi, answer>>

GoRight ==
    /\ Searching /\ key > items[mid].key
    /\ lo' = mid + 1
    /\ UNCHANGED <<table, stage, key, hi, answer>>

Found ==
    /\ Searching /\ key = items[mid].key
    /\ answer' = items[mid].fildes
    /\ stage' = "ready"
    /\ UNCHANGED <<table, key, lo, hi>>

NotFound ==
    /\ stage = "search" /\ lo > hi
    /\ answer' = -1
    /\ stage' = "ready"
    /\ UNCHANGED <<table, key, lo, hi>>

Search == GoLeft \/ GoRight \/ Found \/ NotFound

ContentNext == ReadLine \/ OpenFails \/ Sort \/ (\E k \in Keys : Get(k)) \/ Search

ContentSpec == ContentInit /\ [][ContentNext]_contentVars

-----------------------------------------------------------------------------
(* Properties.                                                             *)

\* Every access to the table is within it: a line is read only when there is
\* room for it (content.c:34), and the search stays on the lines read.
InBounds ==
    /\ nitems <= Len(list)
    /\ stage = "fill" => nitems < capacity
    /\ stage = "search" => lo >= 0 /\ hi < nitems

\* content_get answers what the content file says: a descriptor of a line with
\* the key, and -1 only if no line has it.
Listed(k) == \E n \in 1..Len(list) : list[n].key = k
GetIsRight ==
    [][(stage = "search" /\ stage' = "ready") =>
          IF answer' = -1 THEN ~Listed(key)
          ELSE answer' \in 1..Len(list) /\ list[answer'].key = key]_contentVars

\* The loop invariant of content_get: an element with the key is between lo and
\* hi, in a sorted table that holds exactly the lines of the file.
TableOK ==
    /\ \A n \in 1..nitems : \E i \in 0..(nitems - 1) : items[i] = Opened(n)
    /\ \A i \in 0..(nitems - 1) : \E n \in 1..nitems : items[i] = Opened(n)
Sorted == \A i, j \in 0..(nitems - 1) : i < j => items[i].key <= items[j].key
SearchInv ==
    /\ TableOK
    /\ stage \in {"ready", "search"} => Sorted /\ nitems = Len(list)
    /\ stage = "search" =>
          \A i \in 0..(nitems - 1) : items[i].key = key => lo <= i /\ i <= hi

\* content_get returns.
GetEnds == stage = "search" ~> stage = "ready"
=============================================================================
