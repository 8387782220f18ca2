------------------------------ MODULE MCDownload ------------------------------
(* Instances of Download for TLC: one program with two requests, or two    *)
(* programs with one each; a file with a line feed and an empty one.       *)
EXTENDS Download

CONSTANTS c1, c2, p, e, q, bad

TextAndNone == [x \in {p, e} |-> IF x = p THEN <<"a", "\n">> ELSE <<>>]
TwoPrograms == [c \in {c1, c2} |-> <<c, 0>>]
OneProgram  == [c \in {c1, c2} |-> <<c1, IF c = c2 THEN 1 ELSE 0>>]
AllPlans    == {TwoPrograms, OneProgram}
=============================================================================
