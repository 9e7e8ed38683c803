----------------------------- MODULE MCFtsAlloc -----------------------------
(* Small instances of FtsAlloc. *)
EXTENDS FtsAlloc, TLC

CONSTANTS w1, w2, c1

MCWriters == {w1, w2}
OneScan == {c1}
NoScans == {}

Symmetry == Permutations(MCWriters)

=============================================================================
