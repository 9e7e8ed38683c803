------------------------------ MODULE MCFtsScan ------------------------------
(* Instances of FtsScan for TLC. *)
EXTENDS FtsScan, TLC

CONSTANTS a, b, c, t1, t2, p1, s1, s2, s3, s4, s5, h1, h2

\* a and b use one slot in turn; c has its own.
Slots == [d \in Docs |-> IF d \in {a, b} THEN t1 ELSE t2]
OneHeapPage == [t \in Tids |-> h1]
TwoHeapPages == [t \in Tids |-> IF t = t1 THEN h1 ELSE h2]
Symmetry == Permutations(Segs)
=============================================================================
