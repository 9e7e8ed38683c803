---------------------------- MODULE MCFtsShDoclen ----------------------------
(* Instances of FtsShDoclen for TLC. *)
EXTENDS FtsShDoclen, TLC

Symmetry == Permutations(Backends) \cup Permutations(Keys)
            \cup Permutations(Slots) \cup Permutations(Handles)
=============================================================================
