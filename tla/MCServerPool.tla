---------------------------- MODULE MCServerPool ----------------------------
(* Instances of ServerPool for TLC: two workers, and model values for      *)
(* the node addresses.  Workers are interchangeable, and so are addresses. *)
EXTENDS ServerPool, TLC

CONSTANTS w1, w2, c1, c2, c3

TwoWorkers   == {w1, w2}
TwoCells     == {c1, c2}
ThreeCells   == {c1, c2, c3}
Symmetric    == Permutations(TwoWorkers) \cup Permutations(Cells)
TwoBuffers   == {2}
OneBuffer    == {1}
=============================================================================
