---------------------------- MODULE FtsDirectory ----------------------------
(***************************************************************************)
(* The write side of the fts index (pg_fts_am.c): the metapage's segment   *)
(* directory and pending list, and every operation that changes them -     *)
(* aminsert, the oversized-document path, flush, leveled merge, the        *)
(* collapse of fts_merge, ambulkdelete and amvacuumcleanup - run by        *)
(* concurrent backends.  Each metapage update made under the EXCLUSIVE     *)
(* metapage lock is one step; what runs between two of them, without that  *)
(* lock, interleaves.                                                      *)
(*                                                                         *)
(* Abstractions.  A document is a heap tuple (Docs) at a slot (TidOf);     *)
(* a slot is reused once VACUUM has freed it.  A segment is an identity    *)
(* (the block its chains start at), the documents its postings name, and   *)
(* its tombstoned TIDs.  A segment whose documents are the empty set has   *)
(* no dictionary: dictstart = InvalidBlockNumber.  Pending pages carry the *)
(* order in which they were linked.  Every segment is taken to be in level *)
(* 0 of the leveled policy (fewer than FANOUT documents each).  Page       *)
(* recycling below the level of whole segments is left out here.           *)
(***************************************************************************)
EXTENDS Naturals, FiniteSets

\* An operator named X_Y is a broken variant of X, which no action uses: it is
\* there so that each property can be seen to fail on it.

CONSTANTS
    Docs,            \* heap tuples, each inserted at most once
    Tids,            \* heap slots
    TidOf,           \* [Docs -> Tids]: the slot a document is stored at
    Oversized,       \* documents too large for one pending page
    Blank,           \* documents with no term at all
    Procs,           \* backends
    Segs,            \* segment identities
    None,            \* no document, no segment, no backend
    MaxSegments,     \* BM25_MAX_SEGMENTS
    MergeFanout,     \* BM25_MERGE_FANOUT
    MergeThreshold,  \* BM25_MERGE_THRESHOLD
    FlushThreshold,  \* pg_fts.pending_flush_threshold
    MaxPage          \* bound: pending pages ever linked

ASSUME DocsAssumption ==
    /\ TidOf \in [Docs -> Tids]
    /\ Oversized \subseteq Docs
    /\ Blank \subseteq Docs \ Oversized

ASSUME NoneAssumption ==
    None \notin Docs \cup Segs \cup Procs \cup [docs : SUBSET Docs, dead : SUBSET Tids]
                \cup [pos : Nat, dead : SUBSET Tids]

ASSUME FiniteAssumption == IsFiniteSet(Segs) /\ IsFiniteSet(Docs)

ASSUME SizesAssumption ==
    /\ MaxSegments \in Nat \ {0, 1} /\ MergeFanout \in Nat \ {0, 1}
    /\ MergeThreshold \in 1..MaxSegments - 1
    /\ FlushThreshold \in Nat \ {0} /\ MaxPage \in Nat

VARIABLES
    heap,      \* external: state of each document's heap tuple
    pos,       \* position of a segment in meta.segs[]; 0: not in the directory
    disk,      \* pages of each segment: posting TIDs and tombstones
    page,      \* documents on each pending page
    head, tail, npending,   \* meta.pendinghead, pendingtail, npending
    top,       \* the last pending page linked
    mutex,     \* holder of the maintenance page lock
    pc, job    \* where each backend is, and its local variables

meta == <<pos, disk, page, head, tail, npending, top>>
vars == <<heap, meta, mutex, pc, job>>

Pages == 1..MaxPage
NoSeg == [docs |-> {}, dead |-> {}]
NoSegs == [i \in Segs |-> None]

IdleJob == [op |-> "none", doc |-> None, back |-> "none", tries |-> 0,
            first |-> 0, last |-> 0, sealed |-> 0, out |-> None,
            inp |-> NoSegs, mout |-> None,
            vac |-> {}, snap |-> NoSegs, next |-> 0]

TidsOf(D) == {TidOf[d] : d \in D}

\* nsegments, and the segments in the directory
Dir == {i \in Segs : pos[i] # 0}
NSegs == Cardinality(Dir)

\* The segments the merge selectors consider: those with a dictionary.
Candidates == {i \in Dir : disk[i].docs # {}}

\* The documents of a segment a scan reports: postings minus tombstones.
LiveDocs(s) == {d \in s.docs : TidOf[d] \notin s.dead}

\* Identities no directory entry and no running operation refers to.
FreeSegs == {i \in Segs : /\ pos[i] = 0
                          /\ \A p \in Procs : /\ i # job[p].out /\ i # job[p].mout
                                              /\ job[p].inp[i] = None}

PendingDocs == UNION {page[k] : k \in {k \in Pages : head # 0 /\ k >= head}}

Init ==
    /\ heap = [d \in Docs |-> "absent"]
    /\ pos = [i \in Segs |-> 0]
    /\ disk = [i \in Segs |-> NoSeg]
    /\ page = [k \in Pages |-> {}]
    /\ head = 0 /\ tail = 0 /\ npending = 0 /\ top = 0
    /\ mutex = None
    /\ pc = [p \in Procs |-> "idle"]
    /\ job = [p \in Procs |-> IdleJob]

\* p moves from program point a to b.
Goto(p, a, b) == pc[p] = a /\ pc' = [pc EXCEPT ![p] = b]

-----------------------------------------------------------------------------
(* The heap: the environment of the access method. *)

SlotFree(d) == \A e \in Docs : TidOf[e] = TidOf[d] => heap[e] \in {"absent", "gone"}

\* The executor stores the tuple, then calls aminsert in the same transaction.
HeapInsert(p, d) ==
    /\ heap[d] = "absent" /\ SlotFree(d)
    /\ heap' = [heap EXCEPT ![d] = "inserting"]
    /\ LET big == d \in Oversized
       IN  /\ Goto(p, "idle", IF big THEN "write" ELSE "append")
           /\ job' = [job EXCEPT ![p].doc = d,
                                 ![p].op = IF big THEN "oversized" ELSE "insert"]
    /\ UNCHANGED <<meta, mutex>>

Commit(p) ==
    /\ Goto(p, "commit", "idle")
    /\ heap' = [heap EXCEPT ![job[p].doc] = "live"]
    /\ job' = [job EXCEPT ![p] = IdleJob]
    /\ UNCHANGED <<meta, mutex>>

\* A committed delete that no snapshot needs any more.
Delete(d) ==
    /\ heap[d] = "live"
    /\ heap' = [heap EXCEPT ![d] = "dead"]
    /\ UNCHANGED <<meta, mutex, pc, job>>

\* ERROR, cancel, or the end of the backend: locks are released, the inserting
\* transaction's tuple is dead, pages not yet linked from the metapage leak.
\* A server crash is this step taken by every backend.
Abort(p) ==
    /\ pc[p] # "idle"
    /\ pc' = [pc EXCEPT ![p] = "idle"]
    /\ job' = [job EXCEPT ![p] = IdleJob]
    /\ mutex' = IF mutex = p THEN None ELSE mutex
    /\ heap' = [d \in Docs |-> IF d = job[p].doc THEN "dead" ELSE heap[d]]
    /\ UNCHANGED meta

-----------------------------------------------------------------------------
(* aminsert *)

\* bm25_insert: the metapage stays EXCLUSIVE-locked for the whole append, to
\* the tail page if the document fits there, else to a new page linked after it.
AppendPending(p) ==
    LET d == job[p].doc
        full == npending + 1 >= FlushThreshold
    IN  /\ Goto(p, "append", IF full THEN "tryflush" ELSE "commit")
        /\ npending' = npending + 1
        /\ \/ /\ tail # 0
              /\ page' = [page EXCEPT ![tail] = @ \cup {d}]
              /\ UNCHANGED <<head, tail, top>>
           \/ /\ top < MaxPage
              /\ top' = top + 1
              /\ page' = [page EXCEPT ![top + 1] = {d}]
              /\ tail' = top + 1
              /\ head' = IF tail = 0 THEN top + 1 ELSE head
        /\ UNCHANGED <<heap, pos, disk, mutex, job>>

\* bm25_insert_flush_pending: only if no one else holds the mutex.
TryFlush(p) ==
    /\ Goto(p, "tryflush", IF mutex = None THEN "seal" ELSE "commit")
    /\ mutex' = IF mutex = None THEN p ELSE mutex
    /\ UNCHANGED <<heap, meta, job>>

\* bm25_insert_oversized_as_segment: write a one-document segment.
WriteOversized(p) ==
    /\ Goto(p, "write", "publish")
    /\ \E i \in FreeSegs :
          /\ disk' = [disk EXCEPT ![i] = [docs |-> {job[p].doc}, dead |-> {}]]
          /\ job' = [job EXCEPT ![p].out = i]
    /\ UNCHANGED <<heap, pos, page, head, tail, npending, top, mutex>>

\* After publishing, merge once enough one-document segments have piled up
\* (bm25_pending_segments_worth_merging), and only if the mutex is free or ours.
Tidy(p) ==
    LET merge == Cardinality(Candidates) >= MergeFanout /\ mutex \in {None, p}
    IN  /\ Goto(p, "tidy", IF merge THEN "select"
                           ELSE IF mutex = p THEN "unlock" ELSE "commit")
        /\ mutex' = IF merge THEN p ELSE mutex
        /\ job' = [job EXCEPT ![p].back = "done"]
        /\ UNCHANGED <<heap, meta>>

-----------------------------------------------------------------------------
(* Adding a segment to the directory *)

\* What a flush leaves of the pending list: the documents that arrived after
\* the seal, on the pages from the new tail (job[p].last + 1) onwards, or
\* nothing at all if that page is still empty and the last one.
Left_OffByOne(p) == npending - job[p].sealed - 1
Left_None(p) == 0
Left(p) == npending - (IF job[p].sealed < npending THEN job[p].sealed ELSE npending)
Emptied(p) == Left(p) = 0 /\ tail = job[p].last + 1

HeadLeft_Uncleared(p) == IF Emptied(p) THEN 0 ELSE head
HeadLeft_All(p) == 0
HeadLeft(p) == IF Emptied(p) THEN 0 ELSE job[p].last + 1

\* bm25_meta_add_segment.  For a flush the same metapage update drops the
\* sealed pages from the pending list.
Publish(p) ==
    LET flush == job[p].op # "oversized"
    IN  /\ NSegs < MaxSegments
        /\ Goto(p, "publish", IF flush THEN "freepages" ELSE "tidy")
        /\ pos' = [pos EXCEPT ![job[p].out] = NSegs + 1]
        /\ job' = [job EXCEPT ![p].out = None, ![p].tries = 0]
        /\ npending' = IF flush THEN Left(p) ELSE npending
        /\ head' = IF flush THEN HeadLeft(p) ELSE head
        /\ tail' = IF flush /\ Emptied(p) THEN 0 ELSE tail
        /\ UNCHANGED <<heap, disk, page, top, mutex>>

\* bm25_add_segment_with_room: the directory is full, so merge under the
\* mutex (blocking, and re-entrant for a flush that already holds it) and retry.
MakeRoom(p) ==
    /\ NSegs >= MaxSegments
    /\ Goto(p, "publish", "makeroom")
    /\ UNCHANGED <<heap, meta, mutex, job>>

MergeForRoom_NotReentrant(p) ==
    /\ job[p].tries < MaxSegments
    /\ mutex = None
    /\ Goto(p, "makeroom", "select")
    /\ mutex' = p
    /\ job' = [job EXCEPT ![p].back = "publish", ![p].tries = @ + 1]
    /\ UNCHANGED <<heap, meta>>

MergeForRoom(p) ==
    /\ job[p].tries < MaxSegments
    /\ mutex \in {None, p}
    /\ Goto(p, "makeroom", "select")
    /\ mutex' = p
    /\ job' = [job EXCEPT ![p].back = "publish", ![p].tries = @ + 1]
    /\ UNCHANGED <<heap, meta>>

\* ... "could not free a segment-directory slot": the operation fails.
Refuse(p) == pc[p] = "makeroom" /\ job[p].tries >= MaxSegments /\ Abort(p)

-----------------------------------------------------------------------------
(* Flushing the pending list *)

Lock_NoFlush(p) ==
    /\ mutex = None
    /\ Goto(p, "lock", IF job[p].op = "bulkdelete" THEN "bulk" ELSE "seal")
    /\ mutex' = p
    /\ UNCHANGED <<heap, meta, job>>

Lock_Shared(p) ==
    /\ Goto(p, "lock", "seal")
    /\ mutex' = p
    /\ UNCHANGED <<heap, meta, job>>

\* VACUUM's phases and fts_merge wait for the mutex; all begin with a flush.
Lock(p) ==
    /\ mutex = None
    /\ Goto(p, "lock", "seal")
    /\ mutex' = p
    /\ UNCHANGED <<heap, meta, job>>

\* Where a flush hands back to: the rest of the operation that called it.
AfterFlush(op) ==
    CASE op = "insert" -> "tidy"
      [] op = "bulkdelete" -> "bulk"
      [] OTHER -> "select"       \* bm25_vacuumcleanup, fts_merge: merge again

\* The page inserters append to after the seal.
SealTail_Same == tail
SealTail == top + 1

\* bm25_flush_pending: link an empty page after the tail and make it the tail,
\* so that the pages up to the old tail are frozen.  Nothing pending: return.
Seal(p) ==
    IF npending = 0
    THEN /\ Goto(p, "seal", AfterFlush(job[p].op))
         /\ job' = [job EXCEPT ![p].back = "done"]
         /\ UNCHANGED <<heap, meta, mutex>>
    ELSE /\ top < MaxPage
         /\ Goto(p, "seal", "fold")
         /\ job' = [job EXCEPT ![p].first = head, ![p].last = tail,
                               ![p].sealed = npending]
         /\ tail' = SealTail /\ top' = top + 1
         /\ UNCHANGED <<heap, pos, disk, page, head, npending, mutex>>

SealedPages(p) == Pages \cap (job[p].first..job[p].last)

\* Read the sealed pages without the metapage lock and write their segment.
\* A document without terms leaves no posting in it.
Fold(p) ==
    /\ Goto(p, "fold", "publish")
    /\ \E i \in FreeSegs :
          /\ disk' = [disk EXCEPT ![i] =
                [docs |-> (UNION {page[k] : k \in SealedPages(p)}) \ Blank,
                 dead |-> {}]]
          /\ job' = [job EXCEPT ![p].out = i]
    /\ UNCHANGED <<heap, pos, page, head, tail, npending, top, mutex>>

\* The folded pages go to the free space map; then bm25_merge_segments.
FreePages(p) ==
    /\ Goto(p, "freepages", "select")
    /\ page' = [k \in Pages |-> IF k \in SealedPages(p) THEN {} ELSE page[k]]
    /\ job' = [job EXCEPT ![p].back = "flushed",
                          ![p].first = 0, ![p].last = 0, ![p].sealed = 0]
    /\ UNCHANGED <<heap, pos, disk, head, tail, npending, top, mutex>>

-----------------------------------------------------------------------------
(* Merging *)

\* bm25_merge_all collapses to one segment: fts_merge after its flush, and
\* every second pass that makes room.
Collapse(p) == \/ job[p].op = "fts_merge" /\ job[p].back = "done"
               \/ job[p].back = "publish" /\ job[p].tries % 2 = 0

\* bm25_merge_segments: a level over its fan-in, or too many segments in all.
MergeDue(p) ==
    /\ NSegs > 1
    /\ Cardinality(Candidates) >=
          IF Collapse(p) \/ NSegs > MergeThreshold THEN 2 ELSE MergeFanout

\* Choose the inputs (at most FANOUT) and remember their descriptors.
MergeSelect(p) ==
    /\ MergeDue(p)
    /\ Goto(p, "select", "stream")
    /\ \E S \in SUBSET Candidates :
          /\ Cardinality(S) = MergeFanout \/ (Cardinality(S) < MergeFanout /\ S = Candidates)
          /\ job' = [job EXCEPT ![p].inp = [i \in Segs |-> IF i \in S THEN disk[i] ELSE None]]
    /\ UNCHANGED <<heap, meta, mutex>>

Inputs(p) == {i \in Segs : job[p].inp[i] # None}

\* The documents of input i that the merge carries over.
Carried_All(p, i) == disk[i].docs
Carried(p, i) == {d \in disk[i].docs : TidOf[d] \notin job[p].inp[i].dead}

\* bm25_merge_segments_streaming: read the inputs' pages, holding no lock, and
\* write one segment without the documents the descriptors' tombstones name.
MergeStream(p) ==
    /\ Goto(p, "stream", "swap")
    /\ \E o \in FreeSegs :
          /\ disk' = [disk EXCEPT ![o] =
                [docs |-> UNION {Carried(p, i) : i \in Inputs(p)}, dead |-> {}]]
          /\ job' = [job EXCEPT ![p].mout = o]
    /\ UNCHANGED <<heap, pos, page, head, tail, npending, top, mutex>>

\* The chosen descriptors are all still in the directory, byte for byte.
AllFound(p) == \A i \in Inputs(p) : pos[i] # 0 /\ disk[i] = job[p].inp[i]

Rank_Old(K, i) == pos[i]

\* Rank of segment i among those of K: its position once only K is kept.
Rank(K, i) == Cardinality({k \in K : pos[k] <= pos[i]})

\* bm25_merge_selected: keep the segments not consumed, in order, and append
\* the merged one, in one metapage update.
MergeSwap(p) ==
    LET j == job[p]
        kept == Dir \ Inputs(p)
    IN  /\ AllFound(p)
        /\ Goto(p, "swap", "freeinputs")
        /\ pos' = [i \in Segs |-> IF i = j.mout THEN Cardinality(kept) + 1
                                  ELSE IF i \in kept THEN Rank(kept, i) ELSE 0]
        /\ job' = [job EXCEPT ![p].mout = None]
        /\ UNCHANGED <<heap, disk, page, head, tail, npending, top, mutex>>

\* The inputs' pages are freed and the selector runs again.
FreeInputs(p) ==
    /\ Goto(p, "freeinputs", "select")
    /\ disk' = [i \in Segs |-> IF i \in Inputs(p) THEN NoSeg ELSE disk[i]]
    /\ job' = [job EXCEPT ![p].inp = NoSegs]
    /\ UNCHANGED <<heap, pos, page, head, tail, npending, top, mutex>>

\* The merge pass is over: nothing due, or an input vanished (the output
\* leaks).  Back to publishing, to the caller of the flush, or to the end.
MergeReturn(p) ==
    LET j == job[p]
        room == j.back = "publish"
        next == IF room THEN "publish"
                ELSE IF j.back = "flushed" THEN AfterFlush(j.op) ELSE "unlock"
    IN  /\ \/ ~MergeDue(p) /\ Goto(p, "select", next)
           \/ ~AllFound(p) /\ Goto(p, "swap", next)
        /\ mutex' = IF room /\ j.op = "oversized" THEN None ELSE mutex
        /\ job' = [job EXCEPT ![p].inp = NoSegs, ![p].mout = None,
                              ![p].back = IF j.back = "flushed" THEN "done" ELSE @]
        /\ UNCHANGED <<heap, meta>>

Unlock(p) ==
    LET op == job[p].op
    IN  /\ Goto(p, "unlock", CASE op \in {"insert", "oversized"} -> "commit"
                               [] op = "bulkdelete" -> "reclaim"
                               [] OTHER -> "idle")
        /\ mutex' = None
        /\ job' = IF op \in {"cleanup", "fts_merge"}
                  THEN [job EXCEPT ![p] = IdleJob] ELSE job
        /\ UNCHANGED <<heap, meta>>

-----------------------------------------------------------------------------
(* VACUUM and fts_merge *)

\* The heap pass of VACUUM (one at a time per table) collects the dead TIDs;
\* with none there is no ambulkdelete, only amvacuumcleanup.
Vacuum(p) ==
    /\ \A q \in Procs : job[q].op \notin {"bulkdelete", "cleanup"}
    /\ Goto(p, "idle", "lock")
    /\ LET dead == TidsOf({d \in Docs : heap[d] = "dead"})
       IN  job' = [job EXCEPT ![p].op = IF dead = {} THEN "cleanup" ELSE "bulkdelete",
                              ![p].vac = dead]
    /\ UNCHANGED <<heap, meta, mutex>>

FtsMerge(p) ==
    /\ Goto(p, "idle", "lock")
    /\ job' = [job EXCEPT ![p].op = "fts_merge"]
    /\ UNCHANGED <<heap, meta, mutex>>

\* bm25_bulkdelete, after its flush: read the metapage once.
BulkSnapshot(p) ==
    /\ Goto(p, "bulk", "bulkseg")
    /\ job' = [job EXCEPT ![p].next = 1, ![p].snap = [i \in Segs |->
                 IF i \in Dir THEN [pos |-> pos[i], dead |-> disk[i].dead] ELSE None]]
    /\ UNCHANGED <<heap, meta, mutex>>

InSnapshot(p) == {i \in Segs : job[p].snap[i] # None}

\* The tombstones a segment had, plus every TID of its postings that VACUUM
\* calls dead.
Tombstones_NoCarry(p, i) == TidsOf(disk[i].docs) \cap job[p].vac
Tombstones(p, i) == job[p].snap[i].dead \cup (TidsOf(disk[i].docs) \cap job[p].vac)

\* One segment of the snapshot, written to the directory slot of that number.
BulkSegment(p) ==
    LET j == job[p]
    IN  /\ pc[p] = "bulkseg"
        /\ \E i \in InSnapshot(p) :
              /\ j.snap[i].pos = j.next
              /\ disk' = [k \in Segs |->
                    IF disk[i].docs # {} /\ pos[k] = j.next
                    THEN [disk[k] EXCEPT !.dead = Tombstones(p, i)] ELSE disk[k]]
        /\ job' = [job EXCEPT ![p].next = @ + 1]
        /\ UNCHANGED <<heap, pos, page, head, tail, npending, top, mutex, pc>>

BulkDone(p) ==
    /\ \A i \in InSnapshot(p) : job[p].snap[i].pos < job[p].next
    /\ Goto(p, "bulkseg", "unlock")
    /\ job' = [job EXCEPT ![p].snap = NoSegs, ![p].next = 0]
    /\ UNCHANGED <<heap, meta, mutex>>

\* VACUUM's second heap pass frees the slots; amvacuumcleanup follows.
Reclaim(p) ==
    /\ Goto(p, "reclaim", "lock")
    /\ heap' = [d \in Docs |-> IF heap[d] = "dead" /\ TidOf[d] \in job[p].vac
                               THEN "gone" ELSE heap[d]]
    /\ job' = [job EXCEPT ![p].op = "cleanup", ![p].vac = {}]
    /\ UNCHANGED <<meta, mutex>>

-----------------------------------------------------------------------------
Insert(p) == AppendPending(p) \/ TryFlush(p) \/ WriteOversized(p) \/ Tidy(p) \/ Commit(p)
Flush(p) == Lock(p) \/ Seal(p) \/ Fold(p) \/ FreePages(p)
AddSegment(p) == Publish(p) \/ MakeRoom(p) \/ MergeForRoom(p) \/ Refuse(p)
Merge(p) == MergeSelect(p) \/ MergeStream(p) \/ MergeSwap(p) \/ FreeInputs(p) \/ MergeReturn(p)
BulkDelete(p) == BulkSnapshot(p) \/ BulkSegment(p) \/ BulkDone(p) \/ Reclaim(p)

\* A backend carries on with the operation it is in.
Continue(p) == Insert(p) \/ Flush(p) \/ AddSegment(p) \/ Merge(p) \/ BulkDelete(p) \/ Unlock(p)

\* A backend starts an operation or carries on with one.
Serve == \E p \in Procs : \/ \E d \in Docs : HeapInsert(p, d)
                          \/ Vacuum(p) \/ FtsMerge(p)
                          \/ Continue(p)

\* Everything but failures.
Work == Serve \/ \E d \in Docs : Delete(d)

Next == Work \/ \E p \in Procs : Abort(p)

Spec == Init /\ [][Next]_vars

\* Weak fairness: a backend that is not blocked runs.  Strong fairness: the
\* lock manager queues the waiters of the maintenance lock.  (A VACUUM without
\* deletes is its flush and its merges alone.)
WorkSpec == Init /\ [][Work]_vars
FairSpec == /\ Init /\ [][Serve]_vars
            /\ \A p \in Procs : /\ WF_vars(Continue(p))
                                 /\ SF_vars(Lock(p)) /\ SF_vars(MergeForRoom(p))

-----------------------------------------------------------------------------
(* Properties *)

Ops == {"none", "insert", "oversized", "bulkdelete", "cleanup", "fts_merge"}
Points == {"idle", "append", "write", "tryflush", "tidy", "commit", "publish",
           "makeroom", "lock", "seal", "fold", "freepages", "select", "stream",
           "swap", "freeinputs", "unlock", "bulk", "bulkseg", "reclaim"}
Segment == [docs : SUBSET Docs, dead : SUBSET Tids]

Job == [op : Ops, doc : Docs \cup {None}, back : {"none", "publish", "flushed", "done"},
        tries : Nat, first : Nat, last : Nat, sealed : Nat, out : Segs \cup {None},
        inp : [Segs -> Segment \cup {None}], mout : Segs \cup {None},
        vac : SUBSET Tids,
        snap : [Segs -> [pos : Nat, dead : SUBSET Tids] \cup {None}],
        next : Nat]

\* Every variable keeps its type (the structs of pg_fts_am.h and the local
\* variables of the operations).
TypeOK ==
    /\ heap \in [Docs -> {"absent", "inserting", "live", "dead", "gone"}]
    /\ pos \in [Segs -> Nat]
    /\ disk \in [Segs -> Segment]
    /\ page \in [Pages -> SUBSET Docs]
    /\ head \in 0..top /\ tail \in 0..top /\ npending \in Nat /\ top \in 0..MaxPage
    /\ mutex \in Procs \cup {None}
    /\ pc \in [Procs -> Points]
    /\ job \in [Procs -> Job]

\* The places a fresh reading of the index reports document d from: pending
\* pages, and segments of the directory that do not have its TID tombstoned.
PlacesOf(d) == {k \in Pages : head # 0 /\ k >= head /\ d \in page[k]}
               \cup {i \in Dir : d \in LiveDocs(disk[i])}

\* The documents with terms that a fresh reading of the index reports.
Indexed == {d \in Docs \ Blank : PlacesOf(d) # {}}

\* No document of a committed transaction is ever missing from the index,
\* whatever flush, merge or VACUUM is under way, failed or cancelled
\* (bm25_flush_pending lost them before 1.11.0).
NothingLost == \A d \in Docs \ Blank : heap[d] = "live" => d \in Indexed

\* No heap slot is reported twice: not by the pending list and the segment
\* its flush published, nor by a merge's inputs and output, nor by the old and
\* the new tuple of a reused slot (a ranked scan returned rows twice before 1.15.0).
NoDuplicate ==
    \A d, e \in Indexed : TidOf[d] = TidOf[e] => d = e /\ Cardinality(PlacesOf(d)) = 1

\* Once VACUUM has freed a slot, nothing in the index reports it any more
\* (bm25_bulkdelete: a vacuumed and reused slot must not be a match).
NoReclaimed == \A d \in Indexed : heap[d] \in {"inserting", "live", "dead"}

\* npending is the number of documents on the pending pages, which decides
\* whether a publish may drop the tail page (bm25_meta_add_segment).
PendingCounted == npending = Cardinality(PendingDocs)

\* From the seal on, the sealed pages hold exactly the documents counted then:
\* inserters append elsewhere.
SealedFrozen ==
    \A p \in Procs : pc[p] \in {"fold", "publish"} /\ job[p].sealed > 0 =>
        /\ head = job[p].first
        /\ Cardinality(UNION {page[k] : k \in SealedPages(p)}) = job[p].sealed

\* A merge finds each of its inputs unchanged when it swaps them out, so its
\* output is never thrown away (bm25_merge_selected: "they are still present").
InputsFound == \A p \in Procs : pc[p] = "swap" => AllFound(p)

\* The directory is a dense array: positions 1..nsegments, each used once.
DirectoryDense == {pos[i] : i \in Dir} = 1..NSegs /\ NSegs <= MaxSegments

\* A backend that asked for room gets it within BM25_MAX_SEGMENTS merge
\* passes: a full directory never refuses a write.
NeverRefused ==
    \A p \in Procs : pc[p] = "makeroom" => job[p].tries < MaxSegments

\* A document taken out of the index never comes back into it.
NoResurrection ==
    [][\A d \in Docs \ Blank : heap[d] \in {"dead", "gone"} /\ d \notin Indexed
                                  => d \notin Indexed']_vars

\* The directory, its pending list and all its maintenance implement a plain
\* set of documents: flush and merge are invisible, and VACUUM removes dead
\* documents only (bm25_meta_add_segment publishes and clears in one update).
Store == INSTANCE FtsStore WITH indexed <- Indexed, Docs <- Docs \ Blank,
                                heap <- [d \in Docs \ Blank |-> heap[d]]
ImplementsStore == Store!Spec

\* Every operation that is not interrupted ends: no insert, flush, VACUUM or
\* merge waits for ever for the maintenance lock, its own included
\* (bm25_add_segment_with_room locks it again inside a flush).
OperationsEnd == \A p \in Procs : pc[p] # "idle" ~> pc[p] = "idle"
=============================================================================
