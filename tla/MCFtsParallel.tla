--------------------------- MODULE MCFtsParallel ---------------------------
(* Instances of FtsParallel for TLC. *)
EXTENDS FtsParallel, TLC

CONSTANTS a, b, c, f, t1, t2, t3, t4, p1, p2, s1, s2, s3, s4, s5, s6

\* Each document has a slot of its own.
OwnSlots == [e \in Docs |-> CASE e = a -> t1 [] e = b -> t2 [] e = c -> t3 [] OTHER -> t4]

Symmetry == Permutations(Procs)

\* Free identities are interchangeable: a new segment takes the first of them.
FirstFree ==
    \A i \in FreeSegs : disk'[i] # disk[i] => i = CHOOSE k \in FreeSegs \ Outputs : TRUE

\* Bounds: a is inserted before b, c once there is a segment, f and the delete
\* of a once there are three; VACUUM comes only when a document is dead.
Inserted(e) == heap[e] = "absent" /\ heap'[e] # "absent"
Late == /\ Inserted(b) => heap[a] # "absent"
        /\ Inserted(c) => NSegs >= 1
        /\ Inserted(f) => NSegs >= 3
        /\ \A e \in Docs : heap[e] = "live" /\ heap'[e] = "dead" => e = a /\ NSegs >= 3
        /\ \A p \in Procs : job[p].op = "none" => job'[p].op # "cleanup"
=============================================================================
