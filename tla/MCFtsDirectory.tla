--------------------------- MODULE MCFtsDirectory ---------------------------
(* Instances of FtsDirectory for TLC. *)
EXTENDS FtsDirectory, TLC

CONSTANTS a, b, c, t1, t2, t3, p1, p2, s1, s2, s3, s4, s5

\* Each document has a slot of its own.
OwnSlots == [d \in Docs |-> CASE d = a -> t1 [] d = b -> t2 [] OTHER -> t3]

\* a and b share a slot: b can be stored once VACUUM has freed it.
SharedSlot == [d \in Docs |-> IF d \in {a, b} THEN t1 ELSE t3]

Symmetry == Permutations(Procs) \cup Permutations(Segs)
=============================================================================
