----------------------------- MODULE MCFtsTotals -----------------------------
(* Instances of FtsTotals for TLC. *)
EXTENDS FtsTotals, TLC

CONSTANTS a, b, c, t1, t2, t3, p1, p2, s1, s2, s3, s4, s5

OwnSlots == [d \in Docs |-> CASE d = a -> t1 [] d = b -> t2 [] OTHER -> t3]
Lens == [d \in Docs |-> CASE d = a -> 1 [] d = b -> 2 [] OTHER -> 4]
Symmetry == Permutations(Procs) \cup Permutations(Segs)
=============================================================================
