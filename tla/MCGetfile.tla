----------------------------- MODULE MCGetfile -----------------------------
(* An instance of Getfile for TLC: one client, and a file with no line     *)
(* feed.                                                                   *)
EXTENDS Getfile

CONSTANTS c1, p

OneClient == {c1}
OnePath   == {p}
None      == {}
OneOrTwo  == {1, 2}
PlainFile == [x \in {p} |-> <<"a", "b">>]
=============================================================================
