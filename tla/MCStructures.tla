----------------------------- MODULE MCStructures -----------------------------
(* A queue with two item values and three node addresses: lists of zero,   *)
(* one, two and three nodes, with addresses reused after a free.  Content  *)
(* files of up to five lines over four keys, three of them listed, and a   *)
(* table that starts with room for two.                                    *)
EXTENDS Structures

CONSTANTS a, b, c1, c2, c3, MaxLines

TwoItems   == {a, b}
ThreeCells == {c1, c2, c3}

ThreeKeys == 1..3
FourKeys  == 1..4
Openable  == [key : ThreeKeys, opens : {TRUE}]
Broken    == [key |-> 2, opens |-> FALSE]

ShortLists == UNION {[1..n -> Openable] : n \in 0..MaxLines}
AllLists   == ShortLists \cup {Append(l, Broken) : l \in ShortLists}
=============================================================================
