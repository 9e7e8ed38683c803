------------------------------ MODULE FtsTotals ------------------------------
(***************************************************************************)
(* The corpus statistics of the fts index, which BM25 ranking and the      *)
(* count fast path read: ndocs and sumdoclen in the metapage, and ndocs    *)
(* and sumdoclen of every segment descriptor.  Each step of FtsDirectory   *)
(* that touches one of them is taken together with that update.            *)
(***************************************************************************)
EXTENDS FtsDirectory, Functions

CONSTANTS DocLen,      \* [Docs -> Nat]: the length of each document
          MaxFailures  \* bound: operations that fail

ASSUME DocLenAssumption == DocLen \in [Docs -> Nat] /\ MaxFailures \in Nat

VARIABLES ndocs, sumdoclen,   \* meta.ndocs, meta.sumdoclen
          stat,               \* ndocs and sumdoclen of each segment's descriptor
          removed,            \* tuples_removed of each backend's bulkdelete
          failures            \* history: how many operations failed

totals == <<ndocs, sumdoclen, stat, removed>>
tvars == <<vars, totals, failures>>

Lengths(D) == SumFunctionOnSet(DocLen, D)

\* meta.segs[i].ndeleted
NDeleted(s) == Cardinality(s.dead)

TInit == /\ Init
         /\ ndocs = 0 /\ sumdoclen = 0
         /\ stat = [i \in Segs |-> [ndocs |-> 0, sumdoclen |-> 0]]
         /\ removed = [p \in Procs |-> 0]
         /\ failures = 0

\* bm25_insert counts the document at once.
CountInsert(p) ==
    /\ AppendPending(p)
    /\ ndocs' = ndocs + 1
    /\ sumdoclen' = sumdoclen + DocLen[job[p].doc]
    /\ UNCHANGED <<stat, removed>>

\* The segment an operation just wrote covers the documents D.
Stat(D) == [ndocs |-> Cardinality(D), sumdoclen |-> Lengths(D)]

CountOversized(p) ==
    /\ WriteOversized(p)
    /\ stat' = [stat EXCEPT ![job'[p].out] = Stat({job[p].doc})]
    /\ UNCHANGED <<ndocs, sumdoclen, removed>>

\* bm25_flush_pending counts every document folded, with terms or without.
CountFold(p) ==
    /\ Fold(p)
    /\ stat' = [stat EXCEPT ![job'[p].out] =
                   Stat(UNION {page[k] : k \in SealedPages(p)})]
    /\ UNCHANGED <<ndocs, sumdoclen, removed>>

\* A flush's documents are in the totals already.
Added_Always(p) == stat[job[p].out]
Added_Never(p) == [ndocs |-> 0, sumdoclen |-> 0]
Added(p) == IF job[p].op = "oversized" THEN stat[job[p].out]
            ELSE [ndocs |-> 0, sumdoclen |-> 0]

\* bm25_meta_add_segment
CountPublish(p) ==
    /\ Publish(p)
    /\ ndocs' = ndocs + Added(p).ndocs
    /\ sumdoclen' = sumdoclen + Added(p).sumdoclen
    /\ UNCHANGED <<stat, removed>>

\* bm25_merge_segments_streaming adds up the inputs' descriptors.
MergedStat_WithDead(p) ==
    [ndocs |-> SumFunction([i \in Inputs(p) |-> stat[i].ndocs]),
     sumdoclen |-> SumFunction([i \in Inputs(p) |-> stat[i].sumdoclen])]
MergedStat(p) ==
    [ndocs |-> SumFunction([i \in Inputs(p) |-> stat[i].ndocs - NDeleted(job[p].inp[i])]),
     sumdoclen |-> SumFunction([i \in Inputs(p) |-> stat[i].sumdoclen])]

CountMerge(p) ==
    /\ MergeStream(p)
    /\ stat' = [stat EXCEPT ![job'[p].mout] = MergedStat(p)]
    /\ UNCHANGED <<ndocs, sumdoclen, removed>>

CountBulkSnapshot(p) ==
    /\ BulkSnapshot(p)
    /\ removed' = [removed EXCEPT ![p] = 0]
    /\ UNCHANGED <<ndocs, sumdoclen, stat>>

\* Only TIDs that were not tombstoned before count as removed.
CountBulkSegment(p) ==
    LET new(i) == (TidsOf(disk[i].docs) \cap job[p].vac) \ job[p].snap[i].dead
    IN  /\ BulkSegment(p)
        /\ \E i \in InSnapshot(p) :
              /\ job[p].snap[i].pos = job[p].next
              /\ removed' = [removed EXCEPT ![p] = @ + Cardinality(new(i))]
        /\ UNCHANGED <<ndocs, sumdoclen, stat>>

\* Documents the descriptors of the directory count, tombstones taken off.
DirDocs == SumFunction([i \in Dir |-> stat[i].ndocs - NDeleted(disk[i])])

\* "refresh corpus N", if this pass removed anything.
CountBulkDone(p) ==
    /\ BulkDone(p)
    /\ ndocs' = IF removed[p] > 0 THEN DirDocs + npending ELSE ndocs
    /\ removed' = [removed EXCEPT ![p] = 0]
    /\ UNCHANGED <<sumdoclen, stat>>

\* The steps that leave the totals alone.
Uncounted(p) ==
    \/ \E d \in Docs : HeapInsert(p, d)
    \/ TryFlush(p) \/ Tidy(p) \/ Commit(p)
    \/ Lock(p) \/ Seal(p) \/ FreePages(p)
    \/ MakeRoom(p) \/ MergeForRoom(p)
    \/ MergeSelect(p) \/ MergeSwap(p) \/ FreeInputs(p) \/ MergeReturn(p)
    \/ Unlock(p) \/ Vacuum(p) \/ FtsMerge(p) \/ Reclaim(p)

TWork ==
    \/ \E d \in Docs : Delete(d) /\ UNCHANGED totals
    \/ \E p \in Procs :
          \/ CountInsert(p) \/ CountOversized(p) \/ CountFold(p) \/ CountPublish(p)
          \/ CountMerge(p) \/ CountBulkSnapshot(p) \/ CountBulkSegment(p) \/ CountBulkDone(p)
          \/ Uncounted(p) /\ UNCHANGED totals

\* A cancelled operation leaves the totals as its last metapage update did.
TAbort(p) ==
    /\ failures < MaxFailures /\ Abort(p)
    /\ failures' = failures + 1
    /\ removed' = [removed EXCEPT ![p] = 0]
    /\ UNCHANGED <<ndocs, sumdoclen, stat>>

TNext == \/ TWork /\ UNCHANGED failures
         \/ \E p \in Procs : TAbort(p)

TSpec == TInit /\ [][TNext]_tvars

-----------------------------------------------------------------------------
(* Properties *)

\* Each descriptor counts the documents of its segment, so that a tombstone
\* takes off exactly one (bm25_merge_segments_streaming: ndocs - ndeleted).
SegmentCounts == \A i \in Dir : stat[i].ndocs = Cardinality(disk[i].docs)

\* No bulkdelete is between its first tombstone and its refresh of N.
NoBulkDelete == \A p \in Procs : pc[p] # "bulkseg"

\* As long as nothing failed, corpus N is the number of documents a scan would
\* report, pending ones included, whatever inserts, flushes and merges are
\* under way (bm25_bulkdelete aside, between its tombstones and its refresh).
CorpusN == failures = 0 /\ NoBulkDelete => ndocs = Cardinality(Indexed)

\* Whatever fails or is cancelled, corpus N is never less than the number of
\* documents a scan reports (an idf from too small an N turns negative).
NeverUndercounted == ndocs >= Cardinality(Indexed)

\* sumdoclen counts the length of every document ever indexed exactly once:
\* neither flush nor merge adds to it, and VACUUM does not take anything off.
CountedOnce == failures = 0 =>
    sumdoclen = Lengths({d \in Docs : heap[d] \in {"live", "dead", "gone"}} \cup Indexed)

-----------------------------------------------------------------------------
(* What does not hold *)

\* After a bulkdelete that ran to its end, N reflects every deletion the
\* index has recorded ("refresh corpus N so IDF/avgdl reflect the deletions").
\* Not after a failure: a bulkdelete cancelled between its tombstones and the
\* refresh leaves N too high, and the next complete one finds nothing to
\* remove and does not correct it.
VacuumRefreshesN ==
    \A p \in Procs : pc[p] = "unlock" /\ job[p].op = "bulkdelete"
                        => ndocs = Cardinality(Indexed)
=============================================================================
