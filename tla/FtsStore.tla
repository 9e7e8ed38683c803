------------------------------- MODULE FtsStore -------------------------------
(***************************************************************************)
(* What the fts index promises its callers, with no pages, no segments and *)
(* no maintenance: a set of documents that a scan reports, which grows by  *)
(* one document when a transaction inserts it and shrinks only by          *)
(* documents that VACUUM was told are dead.  Flush and merge do not exist  *)
(* at this level: they must never change what a scan reports.              *)
(***************************************************************************)
CONSTANTS Docs, Tids, TidOf

VARIABLES indexed,  \* the documents a scan reports
          heap      \* state of each document's heap tuple

vars == <<indexed, heap>>

Init == indexed = {} /\ heap = [d \in Docs |-> "absent"]

\* The executor stores a tuple in a slot nobody uses.
Store(d) ==
    /\ heap[d] = "absent"
    /\ \A e \in Docs : TidOf[e] = TidOf[d] => heap[e] \in {"absent", "gone"}
    /\ heap' = [heap EXCEPT ![d] = "inserting"]
    /\ UNCHANGED indexed

\* aminsert: the document becomes visible to scans in one step.
Insert(d) ==
    /\ heap[d] = "inserting"
    /\ indexed' = indexed \cup {d}
    /\ UNCHANGED heap

Commit(d) ==
    /\ heap[d] = "inserting" /\ d \in indexed
    /\ heap' = [heap EXCEPT ![d] = "live"]
    /\ UNCHANGED indexed

\* A transaction fails, or deletes the document.
Kill(d) ==
    /\ heap[d] \in {"inserting", "live"}
    /\ heap' = [heap EXCEPT ![d] = "dead"]
    /\ UNCHANGED indexed

\* ambulkdelete: some dead documents leave the index.
Remove(D) ==
    /\ \A d \in D : heap[d] = "dead"
    /\ indexed' = indexed \ D
    /\ UNCHANGED heap

\* VACUUM frees the slots of dead documents the index no longer reports.
Reclaim(D) ==
    /\ \A d \in D : heap[d] = "dead" /\ d \notin indexed
    /\ heap' = [d \in Docs |-> IF d \in D THEN "gone" ELSE heap[d]]
    /\ UNCHANGED indexed

Next ==
    \/ \E d \in Docs : Store(d) \/ Insert(d) \/ Commit(d) \/ Kill(d)
    \/ \E D \in SUBSET Docs : Remove(D) \/ Reclaim(D)

Spec == Init /\ [][Next]_vars
=============================================================================
