------------------------------- MODULE FtsScan -------------------------------
(***************************************************************************)
(* A scan of the fts index (pg_fts_am_scan.c) that runs while other        *)
(* backends insert, delete, flush, merge and VACUUM: the count fast path   *)
(* (dictionary df), the count through the visibility map, and the scans    *)
(* whose every TID is probed in the heap (bitmap, plain index scan).  The  *)
(* query is one plain term, which every document that is not Blank has.    *)
(*                                                                         *)
(* The write side is FtsDirectory, without failures.  Added to it: the     *)
(* heap's visibility map, deletes that a snapshot can still see, and the   *)
(* recycle gate that keeps freed pages readable for the scans that may     *)
(* still be on them.                                                       *)
(***************************************************************************)
EXTENDS FtsDirectory, Functions

CONSTANTS HeapPageOf,   \* [Tids -> heap pages]
          MaxRetries    \* gen_retries: how often a scan starts over

ASSUME RetriesAssumption == MaxRetries \in Nat

ASSUME NoSetAssumption == /\ \A D \in SUBSET Docs : D # None
                          /\ \A T \in SUBSET Tids : T # None

VARIABLES
    recent,    \* deleted documents that a running snapshot may still see
    allvis,    \* heap pages whose all-visible bit is set
    kept,      \* freed segments not yet recyclable: their postings, or None
    keptpage,  \* what the freed pending pages still contain
    scan       \* the scan's local variables

svars == <<vars, recent, allvis, kept, keptpage, scan>>

HeapPageOfDoc(d) == HeapPageOf[TidOf[d]]
HeapPages == {HeapPageOf[t] : t \in Tids}

NoScan == [pc |-> "idle", kind |-> "none", snap |-> {}, head |-> 0, dead |-> NoSegs,
           moved |-> FALSE, tries |-> 0, found |-> {}, todo |-> {}, seen |-> {},
           count |-> 0]

Scanning == scan.pc # "idle"

SInit == /\ Init
         /\ recent = {} /\ allvis = {}
         /\ kept = NoSegs /\ keptpage = [k \in Pages |-> {}]
         /\ scan = NoScan

-----------------------------------------------------------------------------
(* The heap and the writers *)

\* A transaction deletes d and commits; running snapshots still see it.
DeleteRecent(d) ==
    /\ heap[d] = "live" /\ d \notin recent
    /\ recent' = recent \cup {d}
    /\ allvis' = allvis \ {HeapPageOfDoc(d)}
    /\ UNCHANGED <<vars, kept, keptpage, scan>>

\* VACUUM marks a heap page that has only tuples every snapshot sees.
SetAllVisible(h) ==
    /\ h \notin allvis
    /\ \A d \in Docs : HeapPageOfDoc(d) = h =>
          \/ heap[d] \in {"absent", "gone"}
          \/ heap[d] = "live" /\ d \notin recent /\ (Scanning => d \in scan.snap)
    /\ allvis' = allvis \cup {h}
    /\ UNCHANGED <<vars, recent, kept, keptpage, scan>>

\* A step changed the directory or a tombstone map: generation went up.
Bumped == pos' # pos \/ \E i \in Dir : disk'[i].dead # disk[i].dead

\* bm25_free_page leaves a page as it is until no snapshot taken before can
\* refer to it (bm25_page_recyclable).
Frees(i) == i \notin FreeSegs /\ disk[i] # NoSeg /\ disk'[i] = NoSeg
KeptAfter_None(i) == None
KeptAfter(i) == IF Scanning /\ Frees(i) THEN disk[i].docs ELSE kept[i]

\* bm25_new_buffer: gated pages are not handed out.
NotRecycled == \A i \in Segs, p \in Procs : kept[i] # None =>
                  /\ job'[p].out = i => job[p].out = i
                  /\ job'[p].mout = i => job[p].mout = i

\* A step of the write side.  Storing a tuple clears its page's visibility bit.
Write ==
    /\ \/ \E d \in recent \ scan.snap : Delete(d)
       \/ \E p \in Procs : \/ \E d \in Docs : HeapInsert(p, d)
                           \/ Vacuum(p) \/ FtsMerge(p) \/ Continue(p)
    /\ NotRecycled
    /\ recent' = {d \in recent : heap'[d] = "live"}
    /\ allvis' = allvis \ {HeapPageOfDoc(d) : d \in {e \in Docs : heap'[e] = "inserting"}}
    /\ kept' = [i \in Segs |-> KeptAfter(i)]
    /\ keptpage' = [k \in Pages |-> IF Scanning /\ page'[k] = {} THEN keptpage[k] \cup page[k]
                                    ELSE keptpage[k]]
    /\ scan' = [scan EXCEPT !.moved = @ \/ (Scanning /\ Bumped)]

-----------------------------------------------------------------------------
(* The scan *)

\* A step of the scan at a changes nothing but its own variables.
At(a) == scan.pc = a /\ UNCHANGED <<vars, recent, allvis, kept, keptpage>>

\* The snapshot sees what is committed and not deleted.
Begin(k) ==
    /\ At("idle")
    /\ scan' = [NoScan EXCEPT !.pc = IF k = "count" THEN "fastmeta" ELSE "meta",
                              !.kind = k,
                              !.snap = {d \in Docs : heap[d] = "live" /\ d \notin recent}]

\* What a copy of the metapage says of each segment: its tombstones.
Descriptors == [i \in Segs |-> IF i \in Dir THEN disk[i].dead ELSE None]

\* The postings a scan finds on a segment's pages.
Postings(i) == IF kept[i] # None THEN kept[i] ELSE disk[i].docs
Listed == {i \in Segs : scan.dead[i] # None}

\* bm25_count_dictdf_fastpath: nothing pending and nothing tombstoned.
FastMeta ==
    LET fast == npending = 0 /\ \A i \in Dir : disk[i].dead = {}
    IN  /\ At("fastmeta")
        /\ scan' = IF fast THEN [scan EXCEPT !.pc = "fastdf", !.dead = Descriptors, !.moved = FALSE]
                   ELSE [scan EXCEPT !.pc = "meta"]

\* ... add up the term's df over the segments' dictionaries,
FastSum ==
    /\ At("fastdf")
    /\ scan' = [scan EXCEPT !.pc = "fastvm",
                            !.count = SumFunction([i \in Listed |-> Cardinality(Postings(i))])]

\* ... give up unless every heap page in use is all-visible,
FastVisible ==
    LET used == {HeapPageOfDoc(d) : d \in {e \in Docs : heap[e] # "absent"}}
        to == IF used \subseteq allvis THEN "fastgen" ELSE "meta"
    IN  /\ At("fastvm")
        /\ scan' = [scan EXCEPT !.pc = to]

\* ... and last, unless the generation is still the one of the first step.
FastCheck_Skipped == At("fastgen") /\ scan' = [scan EXCEPT !.pc = "fastdone"]
FastCheck ==
    LET to == IF scan.moved THEN "meta" ELSE "fastdone"
    IN  /\ At("fastgen")
        /\ scan' = [scan EXCEPT !.pc = to]

\* bm25_collect_matches_split copies the metapage,
ReadMeta ==
    /\ At("meta")
    /\ scan' = [scan EXCEPT !.pc = "segs", !.dead = Descriptors, !.head = head,
                            !.moved = FALSE, !.found = {}]

\* ... reads the segments, each without its own tombstones,
ReadSegments ==
    /\ At("segs")
    /\ scan' = [scan EXCEPT !.pc = "pending", !.found =
                   UNION {TidsOf(Postings(i)) \ scan.dead[i] : i \in Listed}]

\* The documents on the pending pages from the one the copy names onwards.
PendingWalk == {d \in Docs \ Blank : \E k \in Pages : /\ scan.head # 0 /\ k >= scan.head
                                                     /\ d \in page[k] \cup keptpage[k]}

\* ... and the pending list, to which no tombstone applies,
ReadPending_Tombstoned ==
    /\ At("pending")
    /\ scan' = [scan EXCEPT !.pc = "check", !.found =
                   @ \cup (TidsOf(PendingWalk) \ UNION {scan.dead[i] : i \in Listed})]
ReadPending ==
    /\ At("pending")
    /\ scan' = [scan EXCEPT !.pc = "check", !.found = @ \cup TidsOf(PendingWalk)]

\* ... and starts over if the generation moved, a bounded number of times.
Check ==
    LET again == scan.moved /\ scan.tries < MaxRetries
        to == IF again THEN "meta" ELSE "probe"
    IN  /\ At("check")
        /\ scan' = IF again THEN [scan EXCEPT !.pc = to, !.tries = @ + 1]
                   ELSE [scan EXCEPT !.pc = to, !.todo = {HeapPageOf[t] : t \in scan.found}]

\* One heap page: bm25_count_visible counts every match on an all-visible page
\* and probes the others under the snapshot; other scans probe always.
Probe(h) ==
    LET here == {t \in scan.found : HeapPageOf[t] = h}
        trust == scan.kind = "count" /\ h \in allvis
    IN  /\ h \in scan.todo
        /\ At("probe")
        /\ scan' = [scan EXCEPT !.todo = @ \ {h},
                       !.seen = @ \cup (IF trust THEN here ELSE here \cap TidsOf(scan.snap))]

Finish ==
    /\ scan.todo = {}
    /\ At("probe")
    /\ scan' = [scan EXCEPT !.pc = "done"]

\* The statement ends; what only its snapshot held back may be recycled.
End ==
    /\ scan.pc \in {"done", "fastdone"}
    /\ scan' = NoScan /\ kept' = NoSegs /\ keptpage' = [k \in Pages |-> {}]
    /\ UNCHANGED <<vars, recent, allvis>>

Scan ==
    \/ \E k \in {"count", "fetch"} : Begin(k)
    \/ FastMeta \/ FastSum \/ FastVisible \/ FastCheck
    \/ ReadMeta \/ ReadSegments \/ ReadPending \/ Check
    \/ \E h \in HeapPages : Probe(h)
    \/ Finish \/ End

SNext == \/ Write \/ Scan
         \/ \E d \in Docs : DeleteRecent(d)
         \/ \E h \in HeapPages : SetAllVisible(h)

SSpec == SInit /\ [][SNext]_svars

-----------------------------------------------------------------------------
(* Properties *)

\* The rows the query has under the scan's snapshot.
Answer == TidsOf(scan.snap \ Blank)

\* A count taken from dictionary df alone is exact, whatever VACUUM, flush,
\* merge, inserts and deletes do meanwhile ("provably exact",
\* pg_fts_am_scan.c:7621).
FastCountExact == scan.pc = "fastdone" => scan.count = Cardinality(Answer)

\* A count never misses a row the snapshot sees, even when the scan ran out of
\* retries, and even if the row took over the slot of a tombstoned one.
CountComplete == scan.pc = "done" /\ scan.kind = "count" => Answer \subseteq scan.seen

\* A scan that probes each TID returns exactly the rows its snapshot sees,
\* even when it ran out of retries (the recycle gate keeps what it reads).
FetchExact == scan.pc = "done" /\ scan.kind = "fetch" => scan.seen = Answer

\* bm25_count_visible: "MVCC-correct count of documents matching".
CountExact == scan.pc = "done" /\ scan.kind = "count" => scan.seen = Answer
=============================================================================
