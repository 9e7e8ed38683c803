-------------------------- MODULE FtsTotals_proofs --------------------------
(***************************************************************************)
(* Theorems about FtsTotals, for any documents, slots, backends and        *)
(* bounds: corpus N never falls below what a scan reports, whatever fails; *)
(* without failures it is exact, and sumdoclen counts every document once. *)
(***************************************************************************)
EXTENDS FtsTotals, FtsDirectory_proofs, FtsSums_proofs

StatType ==
    /\ ndocs \in Nat /\ sumdoclen \in Nat /\ failures \in Nat
    /\ stat \in [Segs -> [ndocs : Nat, sumdoclen : Nat]]
    /\ removed \in [Procs -> Nat]

\* Tombstones name documents of their segment, and no two of its documents are
\* stored at the same slot: a tombstone takes off one document.
DeadKnown == \A i \in Dir : disk[i].dead \subseteq TidsOf(disk[i].docs)
SlotsApart == \A i \in Dir : \A d, e \in disk[i].docs : TidOf[d] = TidOf[e] => d = e

\* The segments whose descriptors will count: in the directory, or in hand.
InUse == Dir \cup {job[p].out : p \in {q \in Procs : Adding(q)}}
             \cup {job[p].mout : p \in {q \in Procs : pc[q] = "swap"}}

\* A descriptor counts at least the documents with postings, and exactly these
\* if every document has terms.
Counted(i) == /\ stat[i].ndocs >= Cardinality(disk[i].docs)
              /\ Blank = {} => stat[i].ndocs = Cardinality(disk[i].docs)
AllCounted == \A i \in InUse : Counted(i)

\* The descriptor an oversized insert is about to publish counts its document.
OneCounted ==
    \A p \in Procs : Adding(p) /\ job[p].op = "oversized" =>
        stat[job[p].out] = Stat({job[p].doc})

\* Only a bulkdelete has something removed that N does not reflect yet.
RemovedAt == \A p \in Procs : pc[p] # "bulkseg" => removed[p] = 0

\* As long as nothing failed, N is off by what bulkdeletes have removed at most.
CorpusKept ==
    Blank = {} /\ failures = 0 /\ (\A p \in Procs : removed[p] = 0) =>
        ndocs = Cardinality(Indexed)
LengthsKept == Blank = {} => CountedOnce

TotalsInv ==
    /\ UniqueInv /\ StatType /\ DeadKnown /\ SlotsApart /\ AllCounted /\ OneCounted
    /\ RemovedAt /\ NeverUndercounted /\ CorpusKept /\ LengthsKept
-----------------------------------------------------------------------------
(* Every step is a step of FtsDirectory. *)

LEMMA TStep == [TNext]_tvars => [Next]_vars
  <1>1. ASSUME NEW p \in Procs, Uncounted(p) PROVE Next
    BY <1>1 DEF Uncounted, Next, Work, Serve, Continue, Insert, Flush, AddSegment, Merge, BulkDelete
  <1>2. ASSUME NEW p \in Procs,
               \/ CountInsert(p) \/ CountOversized(p) \/ CountFold(p) \/ CountPublish(p)
               \/ CountMerge(p) \/ CountBulkSnapshot(p) \/ CountBulkSegment(p) \/ CountBulkDone(p)
        PROVE  Next
    <2>1. \/ AppendPending(p) \/ WriteOversized(p) \/ Fold(p) \/ Publish(p) \/ MergeStream(p)
          \/ BulkSnapshot(p) \/ BulkSegment(p) \/ BulkDone(p)
      BY <1>2 DEF CountInsert, CountOversized, CountFold, CountPublish, CountMerge,
                  CountBulkSnapshot, CountBulkSegment, CountBulkDone
    <2> QED BY <2>1 DEF Next, Work, Serve, Continue, Insert, Flush, AddSegment, Merge, BulkDelete
  <1>3. ASSUME NEW d \in Docs, Delete(d) PROVE Next
    BY <1>3 DEF Next, Work
  <1>4. ASSUME NEW p \in Procs, TAbort(p) PROVE Next
    BY <1>4 DEF TAbort, Next
  <1>5. ASSUME UNCHANGED tvars PROVE UNCHANGED vars BY <1>5 DEF tvars
  <1> QED BY <1>1, <1>2, <1>3, <1>4, <1>5 DEF TNext, TWork

\* A step at another program point is not a step of p.
LEMMA OnlyMover ==
    ASSUME TypeOK, NEW p \in Procs, pc'[p] # pc[p], NEW q \in Procs, NEW a, NEW b, Goto(q, a, b)
    PROVE  q = p /\ pc[p] = a
  BY DEF Goto, TypeOK

\* What a scan reports changes by an append, a publication or a bulkdelete only.
LEMMA StillIndexed ==
    ASSUME UniqueInv, Next, NEW p \in Procs, pc'[p] # pc[p], pc[p] \notin {"append", "publish"}
    PROVE  Indexed' = Indexed
  <1>0. WriteInv /\ TypeOK
    BY DEF UniqueInv, StoredInv, WriteInv, ListInv, SegmentsInv, TypeInv
  <1>1. ASSUME NEW q \in Procs, Enters(q) PROVE FALSE
    <2>1. \/ \E b : Goto(q, "append", b)
          \/ \E b : Goto(q, "publish", b)
      BY <1>1 DEF Enters, AppendPending, Publish
    <2> QED BY <1>0, <2>1, OnlyMover
  <1>2. ASSUME NEW q \in Procs, Leaves(q) PROVE FALSE
    BY <1>2 DEF Leaves, BulkSegment
  <1> QED BY <1>0, <1>1, <1>2, StepIndexed

LEMMA SameIndexed == UNCHANGED <<pos, disk, page, head>> => Indexed' = Indexed
  BY DEF Indexed, PlacesOf, LiveDocs, Dir

\* An append puts its document into the index, and so does an oversized insert
\* that publishes its segment: it was not there before.
LEMMA AppendIndexes ==
    ASSUME UniqueInv, Next, NEW p \in Procs, AppendPending(p)
    PROVE  /\ job[p].doc \in Docs \ Indexed /\ heap[job[p].doc] = "inserting" /\ heap' = heap
           /\ Indexed' = Indexed \cup ({job[p].doc} \ Blank)
  <1>0. WriteInv /\ TypeInv /\ Owners /\ Control /\ PendingInv /\ Fresh
    BY DEF UniqueInv, StoredInv, WriteInv, ListInv, SegmentsInv
  <1>1. pc[p] = "append" /\ heap' = heap /\ pos' = pos /\ disk' = disk
    BY DEF AppendPending, Goto
  <1>2. Storing(p) /\ ~Filed(p) BY <1>0, <1>1 DEF Control, OpAt, Storing, Filed
  <1>3. job[p].doc \in Docs \ Indexed BY <1>0, <1>2 DEF Fresh, Owners, DocOwned
  <1>4. heap[job[p].doc] = "inserting" BY <1>0, <1>2 DEF Owners, DocOwned
  <1>5. PendingDocs' = PendingDocs \cup {job[p].doc} BY <1>0, StepAppend
  <1>6. SegDocs' = SegDocs BY <1>1 DEF SegDocs, LiveDocs, Dir
  <1>7. \A d : d \in Indexed' <=> d \in Indexed \cup ({job[p].doc} \ Blank)
    BY <1>3, <1>5, <1>6, InIndexed, InIndexedNext
  <1> QED BY <1>1, <1>3, <1>4, <1>7

LEMMA OversizedIndexes ==
    ASSUME UniqueInv, Next, NEW p \in Procs, Publish(p), job[p].op = "oversized"
    PROVE  /\ job[p].doc \in Docs \ Indexed /\ heap[job[p].doc] = "inserting" /\ heap' = heap
           /\ Indexed' = Indexed \cup ({job[p].doc} \ Blank)
  <1>0. WriteInv /\ TypeInv /\ Owners /\ Control /\ PendingInv /\ Fresh /\ Holdings /\ Apart /\ ContentsInv
    BY DEF UniqueInv, StoredInv, WriteInv, ListInv, SegmentsInv
  <1>1. pc[p] = "publish" /\ heap' = heap
    BY DEF Publish, Goto
  <1>2. Storing(p) /\ ~Filed(p) BY <1>0, <1>1 DEF Control, OpAt, Storing, Filed, Adding
  <1>3. job[p].doc \in Docs \ Indexed BY <1>0, <1>2 DEF Fresh, Owners, DocOwned
  <1>4. heap[job[p].doc] = "inserting" BY <1>0, <1>2 DEF Owners, DocOwned
  <1>5. PendingDocs' = PendingDocs BY <1>0, StepPublishList
  <1>6. SegDocs' = SegDocs \cup {job[p].doc} BY <1>0, PublishSegDocs DEF Meant
  <1>7. \A d : d \in Indexed' <=> d \in Indexed \cup ({job[p].doc} \ Blank)
    BY <1>3, <1>5, <1>6, InIndexed, InIndexedNext
  <1> QED BY <1>1, <1>3, <1>4, <1>7

\* A flush publishes what the pending list reported.
LEMMA FlushIndexes ==
    ASSUME UniqueInv, Next, NEW p \in Procs, Publish(p), job[p].op # "oversized"
    PROVE  Indexed' = Indexed /\ heap' = heap
  <1>0. WriteInv /\ TypeInv /\ TypeOK
    BY DEF UniqueInv, StoredInv, WriteInv, ListInv, SegmentsInv, TypeInv
  <1>1. pc[p] = "publish" /\ pc'[p] # pc[p] /\ heap' = heap
    BY <1>0 DEF Publish, Goto, TypeOK
  <1>2. ASSUME NEW q \in Procs, Enters(q) PROVE FALSE
    <2>1. CASE AppendPending(q)
      BY <1>0, <1>1, <2>1, OnlyMover DEF AppendPending
    <2>2. CASE Publish(q) /\ job[q].op = "oversized"
      <3>1. q = p BY <1>0, <1>1, <2>2, OnlyMover DEF Publish
      <3> QED BY <2>2, <3>1
    <2> QED BY <1>2, <2>1, <2>2 DEF Enters
  <1>3. ASSUME NEW q \in Procs, Leaves(q) PROVE FALSE
    BY <1>1, <1>3 DEF Leaves, BulkSegment
  <1> QED BY <1>0, <1>1, <1>2, <1>3, StepIndexed
-----------------------------------------------------------------------------
(* What tombstones take off. *)

\* A segment reports as many documents as it has, less its tombstones, at most;
\* exactly as many if no two of them are stored at one slot.
LEMMA LiveSize ==
    ASSUME NEW s \in Segment, s.dead \subseteq TidsOf(s.docs)
    PROVE  /\ IsFiniteSet(s.docs) /\ IsFiniteSet(s.dead) /\ IsFiniteSet(LiveDocs(s))
           /\ Cardinality(s.docs) \in Nat /\ NDeleted(s) \in Nat
           /\ Cardinality(LiveDocs(s)) \in Nat
           /\ Cardinality(LiveDocs(s)) <= Cardinality(s.docs) - NDeleted(s)
           /\ (\A d, e \in s.docs : TidOf[d] = TidOf[e] => d = e) =>
                 Cardinality(LiveDocs(s)) = Cardinality(s.docs) - NDeleted(s)
  <1> DEFINE D == {d \in s.docs : TidOf[d] \in s.dead}
             f == [d \in D |-> TidOf[d]]
  <1>1. s.docs \in SUBSET Docs /\ LiveDocs(s) \in SUBSET Docs /\ D \in SUBSET Docs
    BY DEF Segment, LiveDocs
  <1>2. /\ IsFiniteSet(s.docs) /\ Cardinality(s.docs) \in Nat
        /\ IsFiniteSet(LiveDocs(s)) /\ Cardinality(LiveDocs(s)) \in Nat
        /\ IsFiniteSet(D) /\ Cardinality(D) \in Nat
    BY <1>1, SetOfDocs
  <1>3. s.docs = LiveDocs(s) \cup D /\ LiveDocs(s) \cap D = {}
    BY DEF LiveDocs
  <1>4. Cardinality(s.docs) = Cardinality(LiveDocs(s)) + Cardinality(D)
    BY <1>2, <1>3, UnionSize
  <1>5. f \in Surjection(D, s.dead)
    BY DEF Surjection, TidsOf
  <1>6. /\ IsFiniteSet(s.dead) /\ Cardinality(s.dead) <= Cardinality(D)
        /\ Cardinality(s.dead) = Cardinality(D) <=> f \in Injection(D, s.dead)
    BY <1>2, <1>5, FS_Surjection
  <1>7. Cardinality(s.dead) \in Nat BY <1>6, FS_CardinalityType
  <1>8. ASSUME \A d, e \in s.docs : TidOf[d] = TidOf[e] => d = e
        PROVE  f \in Injection(D, s.dead)
    <2>1. f \in [D -> s.dead] OBVIOUS
    <2>2. \A d, e \in D : f[d] = f[e] => d = e BY <1>8
    <2> HIDE DEF f, D
    <2> QED BY <2>1, <2>2 DEF Injection, IsInjective
  <1> HIDE DEF f, D
  <1> QED BY <1>2, <1>4, <1>6, <1>7, <1>8 DEF NDeleted

\* What the descriptors of some segments count, tombstones taken off, is at
\* least what the segments report.
LEMMA DescriptorsCount ==
    ASSUME UniqueInv, StatType, DeadKnown, SlotsApart, AllCounted, NEW S \in SUBSET Dir
    PROVE  LET live == UNION {LiveDocs(disk[i]) : i \in S}
               sum == SumFunction([i \in S |-> stat[i].ndocs - NDeleted(disk[i])])
           IN  /\ live \in SUBSET Docs /\ sum \in Nat
               /\ sum >= Cardinality(live)
               /\ Blank = {} => sum = Cardinality(live)
  <1> DEFINE F == [i \in S |-> stat[i].ndocs - NDeleted(disk[i])]
             L == [i \in S |-> LiveDocs(disk[i])]
             G == [i \in S |-> Cardinality(L[i])]
  <1>0. /\ disk \in [Segs -> Segment] /\ SegsApart
    BY DEF UniqueInv, StoredInv, WriteInv, ListInv, SegmentsInv, TypeInv, TypeOK
  <1>1. S \in SUBSET Segs BY DEF Dir
  <1>2. IsFiniteSet(S) BY <1>1, SetOfSegs
  <1>3. ASSUME NEW i \in S
        PROVE  /\ L[i] \in SUBSET Docs /\ IsFiniteSet(L[i]) /\ G[i] \in Nat /\ F[i] \in Nat
               /\ G[i] <= F[i] /\ (Blank = {} => G[i] = F[i])
    <2>1. i \in Dir /\ i \in InUse /\ disk[i] \in Segment BY <1>0, <1>1 DEF InUse
    <2>2. disk[i].dead \subseteq TidsOf(disk[i].docs) BY <2>1 DEF DeadKnown
    <2>3. \A d, e \in disk[i].docs : TidOf[d] = TidOf[e] => d = e BY <2>1 DEF SlotsApart
    <2>4. /\ IsFiniteSet(LiveDocs(disk[i]))
          /\ Cardinality(disk[i].docs) \in Nat /\ NDeleted(disk[i]) \in Nat
          /\ Cardinality(LiveDocs(disk[i])) \in Nat
          /\ Cardinality(LiveDocs(disk[i])) = Cardinality(disk[i].docs) - NDeleted(disk[i])
      BY <2>1, <2>2, <2>3, LiveSize
    <2>5. Counted(i) /\ stat[i].ndocs \in Nat BY <2>1, <1>1 DEF AllCounted, StatType
    <2>6. L[i] \in SUBSET Docs BY <2>1 DEF LiveDocs, Segment
    <2>7. F[i] = stat[i].ndocs - NDeleted(disk[i]) /\ G[i] = Cardinality(LiveDocs(disk[i]))
          /\ L[i] = LiveDocs(disk[i])
      OBVIOUS
    <2> HIDE DEF F, G, L
    <2> QED BY <2>4, <2>5, <2>6, <2>7 DEF Counted
  <1>4. \A i, j \in S : i # j => L[i] \cap L[j] = {}
    BY <1>0, <1>1 DEF SegsApart
  <1>5. UNION {L[i] : i \in S} = UNION {LiveDocs(disk[i]) : i \in S}
    OBVIOUS
  <1>6. SumFunction(F) = SumFunctionOnSet(F, S) BY DEF SumFunction
  <1>7. \A i \in S : G[i] = Cardinality(L[i]) OBVIOUS
  <1> HIDE DEF F, G, L
  <1>8. Counts(F, S) /\ Counts(G, S) BY <1>2, <1>3 DEF Counts
  <1>9. SumFunctionOnSet(G, S) = Cardinality(UNION {L[i] : i \in S})
    <2>1. \A i \in S : IsFiniteSet(L[i]) /\ G[i] = Cardinality(L[i]) BY <1>3, <1>7
    <2>2. Sizes(L, G, S) BY <1>2, <1>4, <2>1 DEF Sizes
    <2> QED BY <2>2, SumOfSizes DEF Whole
  <1>10. SumFunctionOnSet(G, S) <= SumFunctionOnSet(F, S) BY <1>3, <1>8, SumMonotone
  <1>11. Blank = {} => SumFunctionOnSet(G, S) = SumFunctionOnSet(F, S) BY <1>3, <1>8, SumSame
  <1>12. SumFunctionOnSet(F, S) \in Nat /\ SumFunctionOnSet(G, S) \in Nat BY <1>8, SumType
  <1>13. UNION {L[i] : i \in S} \in SUBSET Docs BY <1>3
  <1> QED BY <1>5, <1>6, <1>9, <1>10, <1>11, <1>12, <1>13 DEF F

\* The refresh of N: never less than what a scan reports.
LEMMA RefreshCount ==
    ASSUME UniqueInv, StatType, DeadKnown, SlotsApart, AllCounted
    PROVE  /\ DirDocs + npending \in Nat /\ DirDocs + npending >= Cardinality(Indexed)
           /\ Blank = {} => DirDocs + npending = Cardinality(Indexed)
  <1>0. /\ TypeInv /\ PendingInv /\ PendingApart /\ PendingCounted
    BY DEF UniqueInv, StoredInv, WriteInv, ListInv, SegmentsInv, PendingInv
  <1>1. PendingDocs \in SUBSET Docs BY <1>0, PendingTypes
  <1>2. /\ SegDocs \in SUBSET Docs /\ DirDocs \in Nat /\ DirDocs >= Cardinality(SegDocs)
        /\ Blank = {} => DirDocs = Cardinality(SegDocs)
    BY DescriptorsCount DEF DirDocs, SegDocs
  <1>3. Indexed = (PendingDocs \cup SegDocs) \ Blank
    <2>1. \A d : d \in Indexed <=> d \in (PendingDocs \cup SegDocs) \ Blank
      BY <1>1, <1>2, InIndexed
    <2> QED BY <2>1
  <1>4. /\ IsFiniteSet(PendingDocs) /\ Cardinality(PendingDocs) \in Nat
        /\ IsFiniteSet(SegDocs) /\ Cardinality(SegDocs) \in Nat
        /\ IsFiniteSet(PendingDocs \cup SegDocs) /\ Cardinality(PendingDocs \cup SegDocs) \in Nat
        /\ Cardinality(Indexed) \in Nat
    BY <1>1, <1>2, <1>3, SetOfDocs
  <1>5. Cardinality(PendingDocs \cup SegDocs) = Cardinality(PendingDocs) + Cardinality(SegDocs)
    BY <1>0, <1>4, UnionSize DEF PendingApart
  <1>6. Cardinality(Indexed) <= Cardinality(PendingDocs \cup SegDocs)
    BY <1>3, <1>4, FS_Subset
  <1>7. Blank = {} => Cardinality(Indexed) = Cardinality(PendingDocs \cup SegDocs) BY <1>3
  <1>8. npending = Cardinality(PendingDocs) BY <1>0 DEF PendingCounted
  <1>9. DirDocs + npending \in Nat /\ DirDocs + npending >= Cardinality(Indexed)
    BY <1>2, <1>4, <1>5, <1>6, <1>8
  <1>10. ASSUME Blank = {} PROVE DirDocs + npending = Cardinality(Indexed)
    BY <1>2, <1>4, <1>5, <1>7, <1>8, <1>10
  <1> QED BY <1>9, <1>10
-----------------------------------------------------------------------------
(* Which step writes which descriptor. *)

LEMMA UncountedAt ==
    ASSUME NEW p \in Procs, Uncounted(p)
    PROVE  \E a, b : Goto(p, a, b) /\ a \notin {"write", "fold", "stream", "append", "bulk", "bulkseg"}
  <1>1. ASSUME Seal(p) PROVE \E b : Goto(p, "seal", b) BY <1>1 DEF Seal
  <1>2. ASSUME MergeReturn(p) PROVE \E b : Goto(p, "select", b) \/ Goto(p, "swap", b)
    BY <1>2 DEF MergeReturn
  <1>3. ASSUME NEW d \in Docs, HeapInsert(p, d) PROVE \E b : Goto(p, "idle", b)
    BY <1>3 DEF HeapInsert
  <1>4. ASSUME TryFlush(p) \/ Tidy(p) \/ Commit(p) \/ Lock(p) \/ FreePages(p)
               \/ MakeRoom(p) \/ MergeForRoom(p) \/ MergeSelect(p) \/ MergeSwap(p)
               \/ FreeInputs(p) \/ Unlock(p) \/ Vacuum(p) \/ FtsMerge(p) \/ Reclaim(p)
        PROVE  \E a, b : Goto(p, a, b) /\ a \in {"tryflush", "tidy", "commit", "lock", "freepages",
                   "publish", "makeroom", "select", "swap", "freeinputs", "unlock", "idle", "reclaim"}
    BY <1>4 DEF TryFlush, Tidy, Commit, Lock, FreePages, MakeRoom, MergeForRoom, MergeSelect,
                MergeSwap, FreeInputs, Unlock, Vacuum, FtsMerge, Reclaim
  <1> QED BY <1>1, <1>2, <1>3, <1>4 DEF Uncounted

\* A backend that leaves one of these points writes a segment and counts it.
LEMMA WriteCounted ==
    ASSUME TypeOK, [TNext]_tvars, NEW p \in Procs, NEW a, NEW b, Goto(p, a, b),
           a \in {"write", "fold", "stream"}, b \in {"publish", "swap"}
    PROVE  CountOversized(p) \/ CountFold(p) \/ CountMerge(p)
  <1>1. pc[p] = a /\ pc'[p] = b /\ pc'[p] # pc[p] BY DEF Goto, TypeOK
  <1>2. ASSUME UNCHANGED tvars PROVE FALSE BY <1>1, <1>2 DEF tvars, vars
  <1>3. ASSUME NEW q \in Procs, TAbort(q) PROVE FALSE
    BY <1>1, <1>3 DEF TAbort, Abort, TypeOK
  <1>4. ASSUME NEW d \in Docs, Delete(d) PROVE FALSE BY <1>1, <1>4 DEF Delete
  <1>5. ASSUME NEW q \in Procs, Uncounted(q) PROVE FALSE
    <2>1. PICK c, e : Goto(q, c, e) /\ c \notin {"write", "fold", "stream"} BY <1>5, UncountedAt
    <2> QED BY <1>1, <2>1, OnlyMover
  <1>6. ASSUME NEW q \in Procs, CountInsert(q) \/ CountPublish(q) \/ CountBulkSnapshot(q)
                               \/ CountBulkDone(q)
        PROVE  FALSE
    <2>1. \E c, e : Goto(q, c, e) /\ c \in {"append", "publish", "bulk", "bulkseg"}
      BY <1>6 DEF CountInsert, CountPublish, CountBulkSnapshot, CountBulkDone,
                  AppendPending, Publish, BulkSnapshot, BulkDone
    <2> QED BY <1>1, <2>1, OnlyMover
  <1>7. ASSUME NEW q \in Procs, CountBulkSegment(q) PROVE FALSE
    BY <1>1, <1>7 DEF CountBulkSegment, BulkSegment
  <1>8. ASSUME NEW q \in Procs, CountOversized(q) \/ CountFold(q) \/ CountMerge(q) PROVE q = p
    <2>1. \E c, e : Goto(q, c, e)
      BY <1>8 DEF CountOversized, CountFold, CountMerge, WriteOversized, Fold, MergeStream
    <2> QED BY <1>1, <2>1, OnlyMover
  <1> QED BY <1>2, <1>3, <1>4, <1>5, <1>6, <1>7, <1>8 DEF TNext, TWork

\* The segments whose descriptors will count are the ones that did, with the
\* same documents, and the one just written.
LEMMA StepInUse ==
    ASSUME UniqueInv, Next, NEW i \in InUse'
    PROVE  \/ \E p \in Procs : (WriteOversized(p) \/ Fold(p)) /\ i = job'[p].out
           \/ \E p \in Procs : MergeStream(p) /\ i = job'[p].mout
           \/ i \in InUse /\ disk'[i].docs = disk[i].docs
  <1>0. /\ TypeInv /\ Control /\ Holdings /\ Apart /\ SnapKept /\ InputsKept /\ ContentsInv
        /\ disk \in [Segs -> Segment] /\ pos \in [Segs -> Nat]
    BY DEF UniqueInv, StoredInv, WriteInv, ListInv, SegmentsInv, ContentsInv, TypeInv, TypeOK
  <1>1. CASE i \in Dir'
    <2>1. CASE DirSteady
      BY <1>1, <2>1 DEF DirSteady, Dir, InUse
    <2>2. ASSUME NEW p \in Procs, Publish(p) PROVE i \in InUse /\ disk'[i].docs = disk[i].docs
      <3>1. Dir' = Dir \cup {job[p].out} /\ disk' = disk BY <1>0, <2>2, PublishDir
      <3>2. Adding(p) BY <2>2 DEF Publish, Goto, Adding
      <3> QED BY <1>1, <3>1, <3>2 DEF InUse
    <2>3. ASSUME NEW p \in Procs, MergeSwap(p) PROVE i \in InUse /\ disk'[i].docs = disk[i].docs
      <3>1. Dir' = (Dir \ Inputs(p)) \cup {job[p].mout} BY <1>0, <2>3, SwapDir
      <3>2. pc[p] = "swap" /\ disk' = disk BY <2>3 DEF MergeSwap, Goto
      <3> QED BY <1>1, <3>1, <3>2 DEF InUse
    <2>4. ASSUME NEW p \in Procs, BulkSegment(p) PROVE i \in InUse /\ disk'[i].docs = disk[i].docs
      <3>1. pos' = pos BY <2>4 DEF BulkSegment
      <3>2. i \in Dir /\ i \in Segs BY <1>1, <3>1 DEF Dir
      <3>3. disk'[i].docs = disk[i].docs BY <1>0, <2>4, <3>2 DEF BulkSegment, Segment
      <3> QED BY <3>2, <3>3 DEF InUse
    <2> QED BY <1>0, <2>1, <2>2, <2>3, <2>4, MovesOrSteady DEF DirMoves
  <1>2. ASSUME NEW q \in Procs, Adding(q)', i = job'[q].out
        PROVE  \/ \E p \in Procs : (WriteOversized(p) \/ Fold(p)) /\ i = job'[p].out
               \/ i \in InUse /\ disk'[i].docs = disk[i].docs
    <2>1. OutSteady BY <1>0, StepHands
    <2> QED BY <1>2, <2>1 DEF OutSteady, InUse
  <1>3. ASSUME NEW q \in Procs, pc'[q] = "swap", i = job'[q].mout
        PROVE  \/ \E p \in Procs : MergeStream(p) /\ i = job'[p].mout
               \/ i \in InUse /\ disk'[i].docs = disk[i].docs
    <2>1. MoutSteady BY <1>0, StepHands
    <2> QED BY <1>3, <2>1 DEF MoutSteady, InUse
  <1>4. \/ i \in Dir'
        \/ \E q \in Procs : Adding(q)' /\ i = job'[q].out
        \/ \E q \in Procs : pc'[q] = "swap" /\ i = job'[q].mout
    BY DEF InUse
  <1> QED BY <1>1, <1>2, <1>3, <1>4

\* A segment is written into a free one: the descriptors in use stay.
LEMMA StatKept ==
    ASSUME TypeOK, StatType, [TNext]_tvars, NEW i \in InUse
    PROVE  stat'[i] = stat[i]
  <1>0. /\ \A p \in Procs : Adding(p) => job[p].out \notin FreeSegs
        /\ \A p \in Procs : job[p].mout \notin FreeSegs
        /\ \A k \in Dir : k \notin FreeSegs
    BY DEF FreeSegs, Dir
  <1>1. i \notin FreeSegs BY <1>0 DEF InUse
  <1>2. job \in [Procs -> Job] BY DEF TypeOK
  <1>3. ASSUME NEW p \in Procs, CountOversized(p) PROVE stat'[i] = stat[i]
    <2>1. job'[p].out \in FreeSegs BY <1>2, <1>3 DEF CountOversized, WriteOversized, Job
    <2> QED BY <1>1, <1>3, <2>1 DEF CountOversized, StatType
  <1>4. ASSUME NEW p \in Procs, CountFold(p) PROVE stat'[i] = stat[i]
    <2>1. job'[p].out \in FreeSegs BY <1>2, <1>4 DEF CountFold, Fold, Job
    <2> QED BY <1>1, <1>4, <2>1 DEF CountFold, StatType
  <1>5. ASSUME NEW p \in Procs, CountMerge(p) PROVE stat'[i] = stat[i]
    <2>1. job'[p].mout \in FreeSegs BY <1>2, <1>5 DEF CountMerge, MergeStream, Job
    <2> QED BY <1>1, <1>5, <2>1 DEF CountMerge, StatType
  <1>6. ASSUME NEW p \in Procs, CountInsert(p) \/ CountPublish(p) \/ CountBulkSnapshot(p)
                               \/ CountBulkSegment(p) \/ CountBulkDone(p) \/ TAbort(p)
        PROVE  stat' = stat
    BY <1>6 DEF CountInsert, CountPublish, CountBulkSnapshot, CountBulkSegment, CountBulkDone, TAbort
  <1>7. ASSUME UNCHANGED totals \/ UNCHANGED tvars PROVE stat' = stat
    BY <1>7 DEF totals, tvars
  <1> QED BY <1>3, <1>4, <1>5, <1>6, <1>7 DEF TNext, TWork
-----------------------------------------------------------------------------
(* What is written. *)

LEMMA LengthsType ==
    ASSUME NEW D \in SUBSET Docs
    PROVE  /\ Counts(DocLen, D) /\ Lengths(D) \in Nat /\ Cardinality(D) \in Nat
           /\ Stat(D) \in [ndocs : Nat, sumdoclen : Nat] /\ Stat(D).ndocs = Cardinality(D)
  <1>1. IsFiniteSet(D) /\ Cardinality(D) \in Nat BY SetOfDocs
  <1>2. Counts(DocLen, D) BY <1>1, DocLenAssumption DEF Counts
  <1>3. Lengths(D) \in Nat BY <1>2, SumType DEF Lengths
  <1> QED BY <1>1, <1>2, <1>3 DEF Stat

LEMMA OversizedStat ==
    ASSUME UniqueInv, StatType, NEW p \in Procs, CountOversized(p)
    PROVE  \E o \in Segs :
               /\ o = job'[p].out /\ job[p].doc \in Docs
               /\ disk'[o] = [docs |-> {job[p].doc}, dead |-> {}]
               /\ stat' = [stat EXCEPT ![o] = Stat({job[p].doc})]
               /\ stat'[o] = Stat({job[p].doc}) /\ Counted(o)'
               /\ Stat({job[p].doc}) \in [ndocs : Nat, sumdoclen : Nat]
  <1>0. /\ TypeInv /\ job \in [Procs -> Job] /\ disk \in [Segs -> Segment]
    BY DEF UniqueInv, StoredInv, WriteInv, ListInv, SegmentsInv, TypeInv, TypeOK
  <1>1. PICK o \in FreeSegs :
          /\ disk' = [disk EXCEPT ![o] = [docs |-> {job[p].doc}, dead |-> {}]]
          /\ job' = [job EXCEPT ![p].out = o]
    BY DEF CountOversized, WriteOversized
  <1>2. o \in Segs /\ job'[p].out = o BY <1>0, <1>1 DEF FreeSegs, Job
  <1>3. job[p].doc \in Docs BY <1>0 DEF CountOversized, WriteOversized, Goto, TypeInv, DocKnown
  <1>4. disk'[o] = [docs |-> {job[p].doc}, dead |-> {}] BY <1>0, <1>1, <1>2
  <1>5. stat' = [stat EXCEPT ![o] = Stat({job[p].doc})] BY <1>2 DEF CountOversized
  <1>6. stat'[o] = Stat({job[p].doc}) BY <1>2, <1>5 DEF StatType
  <1>7. {job[p].doc} \in SUBSET Docs BY <1>3
  <1>8. /\ Stat({job[p].doc}) \in [ndocs : Nat, sumdoclen : Nat]
        /\ Stat({job[p].doc}).ndocs = Cardinality({job[p].doc}) /\ Cardinality({job[p].doc}) \in Nat
    BY <1>7, LengthsType
  <1>9. Counted(o)'
    <2>1. stat'[o].ndocs = Cardinality(disk'[o].docs) /\ stat'[o].ndocs \in Nat BY <1>4, <1>6, <1>8
    <2> QED BY <2>1 DEF Counted
  <1> QED BY <1>2, <1>3, <1>4, <1>5, <1>6, <1>8, <1>9

LEMMA FoldStat ==
    ASSUME UniqueInv, StatType, NEW p \in Procs, CountFold(p)
    PROVE  \E o \in Segs :
               /\ o = job'[p].out /\ stat'[o] \in [ndocs : Nat, sumdoclen : Nat] /\ Counted(o)'
               /\ stat' = [stat EXCEPT ![o] = stat'[o]]
  <1> DEFINE D == UNION {page[k] : k \in SealedPages(p)}
  <1>0. /\ TypeInv /\ job \in [Procs -> Job] /\ disk \in [Segs -> Segment]
        /\ page \in [Pages -> SUBSET Docs]
    BY DEF UniqueInv, StoredInv, WriteInv, ListInv, SegmentsInv, TypeInv, TypeOK
  <1>1. PICK o \in FreeSegs : /\ disk' = [disk EXCEPT ![o] = [docs |-> D \ Blank, dead |-> {}]]
                              /\ job' = [job EXCEPT ![p].out = o]
    BY DEF CountFold, Fold
  <1>2. o \in Segs /\ job'[p].out = o BY <1>0, <1>1 DEF FreeSegs, Job
  <1>3. D \in SUBSET Docs BY <1>0 DEF SealedPages
  <1>4. disk'[o].docs = D \ Blank BY <1>0, <1>1, <1>2
  <1>5. stat' = [stat EXCEPT ![o] = Stat(D)] BY <1>2 DEF CountFold
  <1> HIDE DEF D
  <1>6. stat'[o] = Stat(D) BY <1>2, <1>5 DEF StatType
  <1>8. Stat(D) \in [ndocs : Nat, sumdoclen : Nat] /\ Stat(D).ndocs = Cardinality(D)
    BY <1>3, LengthsType
  <1>9. Counted(o)'
    <2>1. IsFiniteSet(D) /\ Cardinality(D) \in Nat BY <1>3, SetOfDocs
    <2>2. Cardinality(D \ Blank) <= Cardinality(D) BY <2>1, FS_Subset
    <2>3. Blank = {} => Cardinality(D \ Blank) = Cardinality(D)
      <3>1. Blank = {} => D \ Blank = D OBVIOUS
      <3> QED BY <3>1
    <2>4. stat'[o].ndocs = Cardinality(D) /\ disk'[o].docs = D \ Blank BY <1>4, <1>6, <1>8
    <2>5. D \ Blank \in SUBSET Docs BY <1>3
    <2>6. Cardinality(D \ Blank) \in Nat BY <2>5, SetOfDocs
    <2> QED BY <2>1, <2>2, <2>3, <2>4, <2>6 DEF Counted
  <1> QED BY <1>2, <1>5, <1>6, <1>8, <1>9

\* The merge's descriptor counts what it carries over.
LEMMA MergeStat ==
    ASSUME UniqueInv, StatType, DeadKnown, SlotsApart, AllCounted, NEW p \in Procs, CountMerge(p)
    PROVE  \E o \in Segs :
               /\ o = job'[p].mout /\ stat'[o] \in [ndocs : Nat, sumdoclen : Nat] /\ Counted(o)'
               /\ stat' = [stat EXCEPT ![o] = stat'[o]]
  <1> DEFINE S == Inputs(p)
             live == UNION {LiveDocs(disk[i]) : i \in S}
             H == [i \in S |-> stat[i].sumdoclen]
  <1>0. /\ TypeInv /\ job \in [Procs -> Job] /\ disk \in [Segs -> Segment] /\ InputsKept
    BY DEF UniqueInv, StoredInv, WriteInv, ListInv, SegmentsInv, TypeInv, TypeOK
  <1>1. PICK o \in FreeSegs :
          /\ disk' = [disk EXCEPT ![o] = [docs |-> UNION {Carried(p, i) : i \in S}, dead |-> {}]]
          /\ job' = [job EXCEPT ![p].mout = o]
    BY DEF CountMerge, MergeStream
  <1>2. o \in Segs /\ job'[p].mout = o BY <1>0, <1>1 DEF FreeSegs, Job
  <1>3. AllFound(p) BY <1>0 DEF CountMerge, MergeStream, Goto, InputsKept
  <1>4. S \in SUBSET Dir /\ S \in SUBSET Segs /\ \A i \in S : job[p].inp[i] = disk[i]
    BY <1>3 DEF AllFound, Inputs, Dir
  <1>5. \A i \in S : Carried(p, i) = LiveDocs(disk[i]) BY <1>4 DEF Carried, LiveDocs
  <1>6. disk'[o].docs = live
    <2>1. disk'[o].docs = UNION {Carried(p, i) : i \in S} BY <1>0, <1>1, <1>2
    <2> QED BY <1>5, <2>1
  <1>7. stat' = [stat EXCEPT ![o] = MergedStat(p)] BY <1>2 DEF CountMerge
  <1>8. stat'[o] = MergedStat(p) BY <1>2, <1>7 DEF StatType
  <1>9. /\ MergedStat(p).ndocs = SumFunction([i \in S |-> stat[i].ndocs - NDeleted(disk[i])])
        /\ MergedStat(p) = [ndocs |-> MergedStat(p).ndocs, sumdoclen |-> SumFunctionOnSet(H, S)]
    <2>1. [i \in S |-> stat[i].ndocs - NDeleted(job[p].inp[i])]
            = [i \in S |-> stat[i].ndocs - NDeleted(disk[i])]
      BY <1>4
    <2>2. SumFunction(H) = SumFunctionOnSet(H, S) BY DEF SumFunction
    <2> QED BY <2>1, <2>2 DEF MergedStat
  <1>10. SumFunctionOnSet(H, S) \in Nat
    <2>1. IsFiniteSet(S) BY <1>4, SetOfSegs
    <2>2. Counts(H, S) BY <1>4, <2>1 DEF Counts, StatType
    <2> QED BY <2>2, SumType
  <1>11. /\ live \in SUBSET Docs /\ MergedStat(p).ndocs \in Nat
         /\ MergedStat(p).ndocs >= Cardinality(live)
         /\ Blank = {} => MergedStat(p).ndocs = Cardinality(live)
    BY <1>4, <1>9, DescriptorsCount
  <1> HIDE DEF live, H, S
  <1>12. MergedStat(p) \in [ndocs : Nat, sumdoclen : Nat] BY <1>9, <1>10, <1>11
  <1>13. Counted(o)' BY <1>6, <1>8, <1>11 DEF Counted
  <1> QED BY <1>2, <1>7, <1>8, <1>12, <1>13

LEMMA StepAllCounted ==
    ASSUME UniqueInv, StatType, DeadKnown, SlotsApart, AllCounted, [TNext]_tvars
    PROVE  AllCounted'
  <1>0. TypeOK /\ [Next]_vars
    BY TStep DEF UniqueInv, StoredInv, WriteInv, ListInv, SegmentsInv, TypeInv
  <1>1. SUFFICES ASSUME NEW i \in InUse' PROVE Counted(i)' BY DEF AllCounted
  <1>2. ASSUME i \in InUse, disk'[i].docs = disk[i].docs PROVE Counted(i)'
    <2>1. stat'[i] = stat[i] BY <1>0, <1>2, StatKept
    <2> QED BY <1>2, <2>1 DEF AllCounted, Counted
  <1>3. ASSUME UNCHANGED vars PROVE Counted(i)'
    <2>1. InUse' = InUse /\ disk' = disk
      BY <1>3 DEF vars, meta, InUse, Dir, Adding, Merging
    <2> QED BY <1>2, <2>1
  <1>5. ASSUME Next, NEW p \in Procs, WriteOversized(p) \/ Fold(p), i = job'[p].out
        PROVE  Counted(i)'
    <2>1. \E a \in {"write", "fold"} : Goto(p, a, "publish") BY <1>5 DEF WriteOversized, Fold
    <2>2. CountOversized(p) \/ CountFold(p) \/ CountMerge(p) BY <1>0, <2>1, WriteCounted
    <2>3. ~ CountMerge(p) BY <2>1 DEF CountMerge, MergeStream, Goto
    <2>4. \E o \in Segs : o = job'[p].out /\ Counted(o)' BY <2>2, <2>3, OversizedStat, FoldStat
    <2> QED BY <1>5, <2>4 DEF Counted
  <1>6. ASSUME Next, NEW p \in Procs, MergeStream(p), i = job'[p].mout
        PROVE  Counted(i)'
    <2>1. Goto(p, "stream", "swap") BY <1>6 DEF MergeStream
    <2>2. CountOversized(p) \/ CountFold(p) \/ CountMerge(p) BY <1>0, <2>1, WriteCounted
    <2>3. ~ CountOversized(p) /\ ~ CountFold(p)
      BY <2>1 DEF CountOversized, CountFold, WriteOversized, Fold, Goto
    <2>4. \E o \in Segs : o = job'[p].mout /\ Counted(o)' BY <2>2, <2>3, MergeStat
    <2> QED BY <1>6, <2>4 DEF Counted
  <1> QED BY <1>0, <1>2, <1>3, <1>5, <1>6, StepInUse
-----------------------------------------------------------------------------
(* The rest of the invariant, part by part. *)

LEMMA TidsFinite ==
    ASSUME NEW D \in SUBSET Docs
    PROVE  IsFiniteSet(TidsOf(D))
  <1> DEFINE f == [d \in D |-> TidOf[d]]
  <1>1. f \in Surjection(D, TidsOf(D)) BY DEF Surjection, TidsOf
  <1>2. IsFiniteSet(D) BY SetOfDocs
  <1> HIDE DEF f
  <1> QED BY <1>1, <1>2, FS_Surjection

\* The TIDs this step of a bulkdelete tombstones.
Newly(p, i) == (TidsOf(disk[i].docs) \cap job[p].vac) \ job[p].snap[i].dead

LEMMA NewlyCount ==
    ASSUME TypeOK, NEW p \in Procs, NEW i \in Segs
    PROVE  /\ IsFiniteSet(Newly(p, i)) /\ Cardinality(Newly(p, i)) \in Nat
           /\ Cardinality(Newly(p, i)) = 0 => Newly(p, i) = {}
  <1>1. disk[i].docs \in SUBSET Docs BY DEF TypeOK, Segment
  <1>2. IsFiniteSet(TidsOf(disk[i].docs)) BY <1>1, TidsFinite
  <1>3. Newly(p, i) \in SUBSET TidsOf(disk[i].docs) BY DEF Newly
  <1>4. IsFiniteSet(Newly(p, i)) BY <1>2, <1>3, FS_Subset
  <1> QED BY <1>4, FS_CardinalityType, FS_EmptySet

LEMMA StepStatType ==
    ASSUME UniqueInv, StatType, DeadKnown, SlotsApart, AllCounted, [TNext]_tvars
    PROVE  StatType'
  <1>0. /\ TypeInv /\ TypeOK /\ Holdings /\ job \in [Procs -> Job] /\ DocKnown
    BY DEF UniqueInv, StoredInv, WriteInv, ListInv, SegmentsInv, TypeInv, TypeOK
  <1>s. /\ ndocs \in Nat /\ sumdoclen \in Nat /\ failures \in Nat
        /\ stat \in [Segs -> [ndocs : Nat, sumdoclen : Nat]] /\ removed \in [Procs -> Nat]
    BY DEF StatType
  <1>1. ASSUME NEW p \in Procs, CountInsert(p), failures' = failures PROVE StatType'
    <2>1. job[p].doc \in Docs BY <1>0, <1>1 DEF CountInsert, AppendPending, Goto, DocKnown
    <2>2. DocLen[job[p].doc] \in Nat BY <2>1, DocLenAssumption
    <2> QED BY <1>1, <1>s, <2>2 DEF CountInsert, StatType
  <1>2. ASSUME NEW p \in Procs, CountOversized(p), failures' = failures PROVE StatType'
    <2>1. PICK o \in Segs : /\ stat' = [stat EXCEPT ![o] = Stat({job[p].doc})]
                            /\ Stat({job[p].doc}) \in [ndocs : Nat, sumdoclen : Nat]
      BY <1>2, OversizedStat
    <2> QED BY <1>2, <1>s, <2>1 DEF CountOversized, StatType
  <1>3. ASSUME NEW p \in Procs, CountFold(p), failures' = failures PROVE StatType'
    <2>1. PICK o \in Segs : /\ stat' = [stat EXCEPT ![o] = stat'[o]]
                            /\ stat'[o] \in [ndocs : Nat, sumdoclen : Nat]
      BY <1>3, FoldStat
    <2>2. stat' \in [Segs -> [ndocs : Nat, sumdoclen : Nat]] BY <1>s, <2>1
    <2> QED BY <1>3, <1>s, <2>2 DEF CountFold, StatType
  <1>4. ASSUME NEW p \in Procs, CountMerge(p), failures' = failures PROVE StatType'
    <2>1. PICK o \in Segs : /\ stat' = [stat EXCEPT ![o] = stat'[o]]
                            /\ stat'[o] \in [ndocs : Nat, sumdoclen : Nat]
      BY <1>4, MergeStat
    <2>2. stat' \in [Segs -> [ndocs : Nat, sumdoclen : Nat]] BY <1>s, <2>1
    <2> QED BY <1>4, <1>s, <2>2 DEF CountMerge, StatType
  <1>5. ASSUME NEW p \in Procs, CountPublish(p), failures' = failures PROVE StatType'
    <2>1. job[p].out \in Segs
      BY <1>0, <1>5 DEF CountPublish, Publish, Goto, Holdings, OutAt, Adding
    <2>2. Added(p) \in [ndocs : Nat, sumdoclen : Nat] BY <1>s, <2>1 DEF Added
    <2> HIDE DEF Added
    <2>3. Added(p).ndocs \in Nat /\ Added(p).sumdoclen \in Nat BY <2>2
    <2> QED BY <1>5, <1>s, <2>3 DEF CountPublish, StatType
  <1>6. ASSUME NEW p \in Procs, CountBulkSnapshot(p), failures' = failures PROVE StatType'
    BY <1>6, <1>s DEF CountBulkSnapshot, StatType
  <1>7. ASSUME NEW p \in Procs, CountBulkSegment(p), failures' = failures PROVE StatType'
    <2>1. PICK i \in InSnapshot(p) : removed' = [removed EXCEPT ![p] = @ + Cardinality(Newly(p, i))]
      BY <1>7 DEF CountBulkSegment, Newly
    <2>2. Cardinality(Newly(p, i)) \in Nat BY <1>0, NewlyCount DEF InSnapshot
    <2>3. removed' \in [Procs -> Nat] BY <1>s, <2>1, <2>2
    <2> QED BY <1>7, <1>s, <2>3 DEF CountBulkSegment, StatType
  <1>8. ASSUME NEW p \in Procs, CountBulkDone(p), failures' = failures PROVE StatType'
    <2>1. DirDocs + npending \in Nat BY RefreshCount
    <2>2. ndocs' \in Nat BY <1>8, <1>s, <2>1 DEF CountBulkDone
    <2> QED BY <1>8, <1>s, <2>2 DEF CountBulkDone, StatType
  <1>9. ASSUME NEW p \in Procs, TAbort(p) PROVE StatType'
    BY <1>9, <1>s DEF TAbort, StatType
  <1>10. ASSUME UNCHANGED totals, failures' = failures PROVE StatType'
    BY <1>10, <1>s DEF totals, StatType
  <1>11. CASE UNCHANGED tvars BY <1>10, <1>11 DEF tvars
  <1> QED BY <1>1, <1>2, <1>3, <1>4, <1>5, <1>6, <1>7, <1>8, <1>9, <1>10, <1>11 DEF TNext, TWork

LEMMA StepOneCounted ==
    ASSUME UniqueInv, StatType, OneCounted, [TNext]_tvars
    PROVE  OneCounted'
  <1>0. /\ TypeInv /\ TypeOK /\ Control /\ Holdings /\ Apart /\ SnapKept
        /\ job \in [Procs -> Job] /\ [Next]_vars
    BY TStep DEF UniqueInv, StoredInv, WriteInv, ListInv, SegmentsInv, ContentsInv, TypeInv, TypeOK
  <1>1. SUFFICES ASSUME NEW p \in Procs, Adding(p)', job'[p].op = "oversized"
                 PROVE  stat'[job'[p].out] = Stat({job'[p].doc})
    BY DEF OneCounted, Stat, Lengths
  <1>2. ASSUME Adding(p), job'[p].out = job[p].out, job'[p].op = job[p].op, job'[p].doc = job[p].doc
        PROVE  stat'[job'[p].out] = Stat({job'[p].doc})
    <2>1. job[p].out \in InUse BY <1>2 DEF InUse
    <2>2. stat'[job[p].out] = stat[job[p].out] BY <1>0, <2>1, StatKept
    <2> QED BY <1>1, <1>2, <2>2 DEF OneCounted
  <1>3. ASSUME WriteOversized(p) PROVE stat'[job'[p].out] = Stat({job'[p].doc})
    <2>1. Goto(p, "write", "publish") BY <1>3 DEF WriteOversized
    <2>2. CountOversized(p) \/ CountFold(p) \/ CountMerge(p) BY <1>0, <2>1, WriteCounted
    <2>3. ~ CountMerge(p) /\ ~ CountFold(p)
      BY <2>1 DEF CountMerge, MergeStream, CountFold, Fold, Goto
    <2>4. stat'[job'[p].out] = Stat({job[p].doc}) BY <2>2, <2>3, OversizedStat
    <2>5. job'[p].doc = job[p].doc BY <1>0, <1>3 DEF WriteOversized, Job
    <2> QED BY <2>4, <2>5
  <1>4. ASSUME Fold(p) PROVE FALSE
    <2>1. pc[p] = "fold" BY <1>4 DEF Fold, Goto
    <2>2. job[p].op # "oversized" BY <1>0, <2>1 DEF Control, OpAt
    <2>3. job'[p].op = job[p].op BY <1>0, <1>4 DEF Fold, Job
    <2> QED BY <1>1, <2>2, <2>3
  <1>5. CASE Next
    <2>1. OutSteady BY <1>0, <1>5, StepHands
    <2> QED BY <1>1, <1>2, <1>3, <1>4, <2>1 DEF OutSteady
  <1>6. CASE UNCHANGED vars
    <2>1. Adding(p) BY <1>1, <1>6 DEF vars, Adding, Merging
    <2> QED BY <1>2, <1>6, <2>1 DEF vars
  <1> QED BY <1>0, <1>5, <1>6

\* What a step does to a segment of the directory.
LEMMA StepDir ==
    ASSUME UniqueInv, Next, NEW k \in Dir'
    PROVE  \/ k \in Dir /\ disk'[k] = disk[k]
           \/ disk'[k].dead = {}
           \/ /\ k \in Dir /\ disk'[k].docs = disk[k].docs
              /\ disk'[k].dead \subseteq disk[k].dead \cup TidsOf(disk[k].docs)
  <1>0. /\ TypeInv /\ Control /\ Holdings /\ Apart /\ Dense /\ SnapKept /\ InputsKept /\ ContentsInv
        /\ disk \in [Segs -> Segment] /\ pos \in [Segs -> Nat] /\ job \in [Procs -> Job]
    BY DEF UniqueInv, StoredInv, WriteInv, ListInv, SegmentsInv, ContentsInv, TypeInv, TypeOK
  <1>1. CASE DirSteady BY <1>1 DEF DirSteady, Dir
  <1>2. ASSUME NEW p \in Procs, Publish(p)
        PROVE  (k \in Dir /\ disk'[k] = disk[k]) \/ disk'[k].dead = {}
    <2>1. Dir' = Dir \cup {job[p].out} /\ disk' = disk BY <1>0, <1>2, PublishDir
    <2>2. Adding(p) BY <1>2 DEF Publish, Goto, Adding
    <2>3. disk[job[p].out].dead = {}
      <3>1. disk[job[p].out] = [docs |-> Meant(p), dead |-> {}]
        BY <1>0, <2>2 DEF ContentsInv, OutHolds
      <3> QED BY <3>1
    <2> QED BY <2>1, <2>3
  <1>3. ASSUME NEW p \in Procs, MergeSwap(p)
        PROVE  (k \in Dir /\ disk'[k] = disk[k]) \/ disk'[k].dead = {}
    <2>1. Dir' = (Dir \ Inputs(p)) \cup {job[p].mout} BY <1>0, <1>3, SwapDir
    <2>2. pc[p] = "swap" /\ disk' = disk BY <1>3 DEF MergeSwap, Goto
    <2>3. disk[job[p].mout].dead = {}
      <3>1. disk[job[p].mout] = [docs |-> MergedDocs(p), dead |-> {}]
        BY <1>0, <2>2 DEF ContentsInv, MoutHolds
      <3> QED BY <3>1
    <2> QED BY <2>1, <2>2, <2>3
  <1>4. ASSUME NEW p \in Procs, BulkSegment(p)
        PROVE  /\ k \in Dir /\ disk'[k].docs = disk[k].docs
               /\ disk'[k].dead \subseteq disk[k].dead \cup TidsOf(disk[k].docs)
    <2>1. PICK i \in InSnapshot(p) :
             /\ job[p].snap[i].pos = job[p].next
             /\ disk' = [l \in Segs |-> IF disk[i].docs # {} /\ pos[l] = job[p].next
                            THEN [disk[l] EXCEPT !.dead = Tombstones(p, i)] ELSE disk[l]]
      BY <1>4 DEF BulkSegment
    <2>2. pos' = pos /\ pc[p] = "bulkseg" BY <1>4 DEF BulkSegment
    <2>3. k \in Dir /\ k \in Segs BY <2>2 DEF Dir
    <2>4. /\ pos[i] = job[p].next /\ pos[i] # 0 /\ job[p].snap[i].dead = disk[i].dead
          /\ i \in Dir
      BY <1>0, <2>1, <2>2 DEF ContentsInv, SnapKept, InSnapshot, Dir
    <2>5. pos[k] = job[p].next => k = i BY <1>0, <2>3, <2>4 DEF Dense
    <2>6. Tombstones(p, i) \subseteq disk[i].dead \cup TidsOf(disk[i].docs)
      BY <2>4 DEF Tombstones
    <2>7. disk[k] \in Segment BY <1>0, <2>3
    <2> HIDE DEF Tombstones
    <2>8. disk'[k].docs = disk[k].docs /\ disk'[k].dead \in {disk[k].dead, Tombstones(p, i)}
          /\ (disk'[k].dead # disk[k].dead => k = i)
      BY <2>1, <2>3, <2>5, <2>7 DEF Segment
    <2> QED BY <2>3, <2>6, <2>8
  <1> QED BY <1>0, <1>1, <1>2, <1>3, <1>4, MovesOrSteady DEF DirMoves

LEMMA StepTombstones ==
    ASSUME UniqueInv, DeadKnown, SlotsApart, [Next]_vars
    PROVE  DeadKnown' /\ SlotsApart'
  <1>1. CASE UNCHANGED vars
    BY <1>1 DEF vars, meta, DeadKnown, SlotsApart, Dir, TidsOf
  <1>2. CASE Next
    <2>1. UniqueInv' BY StepUniqueInv
    <2>2. SlotOnce' /\ IndexedKnown' /\ NoBlankSegs'
      BY <2>1 DEF UniqueInv, StoredInv, HeapInv
    <2>3. ASSUME NEW k \in Dir', disk'[k].dead = {}, NEW d \in disk'[k].docs
          PROVE  d \in Docs /\ Present(d)'
      <3>1. d \in LiveDocs(disk[k])' BY <2>3 DEF LiveDocs
      <3>2. d \in SegDocs' BY <3>1 DEF SegDocs
      <3>3. d \in Docs \ Blank BY <2>2, <3>2 DEF NoBlankSegs
      <3>4. d \in Indexed' BY <3>2, <3>3, InIndexedNext
      <3> QED BY <2>2, <3>3, <3>4 DEF IndexedKnown
    <2>4. ASSUME NEW k \in Dir'
          PROVE  /\ disk'[k].dead \subseteq TidsOf(disk'[k].docs)
                 /\ \A d, e \in disk'[k].docs : TidOf[d] = TidOf[e] => d = e
      <3>1. CASE disk'[k].dead = {}
        BY <2>2, <2>3, <3>1 DEF SlotOnce, Present
      <3>2. CASE disk'[k].dead # {}
        <4>1. /\ k \in Dir /\ disk'[k].docs = disk[k].docs
              /\ disk'[k].dead \subseteq disk[k].dead \cup TidsOf(disk[k].docs)
          BY <1>2, <3>2, StepDir
        <4> QED BY <4>1 DEF DeadKnown, SlotsApart
      <3> QED BY <3>1, <3>2
    <2> QED BY <2>4 DEF DeadKnown, SlotsApart, TidsOf
  <1> QED BY <1>1, <1>2
LEMMA StepRemovedAt ==
    ASSUME TypeOK, StatType, RemovedAt, [TNext]_tvars
    PROVE  RemovedAt'
  <1>0. pc \in [Procs -> Points] /\ removed \in [Procs -> Nat] BY DEF TypeOK, StatType
  <1>1. ASSUME removed' = removed, NEW p \in Procs, NEW a, NEW b, Goto(p, a, b), a # "bulkseg"
        PROVE  RemovedAt'
    BY <1>0, <1>1 DEF RemovedAt, Goto
  <1>2. ASSUME removed' = removed, pc' = pc PROVE RemovedAt'
    BY <1>2 DEF RemovedAt
  <1>3. ASSUME NEW p \in Procs,
               CountInsert(p) \/ CountOversized(p) \/ CountFold(p) \/ CountPublish(p) \/ CountMerge(p)
        PROVE  RemovedAt'
    <2>1. removed' = removed /\ \E a, b : Goto(p, a, b) /\ a # "bulkseg"
      BY <1>3 DEF CountInsert, CountOversized, CountFold, CountPublish, CountMerge,
                  AppendPending, WriteOversized, Fold, Publish, MergeStream
    <2> QED BY <1>1, <2>1
  <1>4. ASSUME NEW p \in Procs, CountBulkSnapshot(p) PROVE RemovedAt'
    BY <1>0, <1>4 DEF CountBulkSnapshot, BulkSnapshot, Goto, RemovedAt
  <1>5. ASSUME NEW p \in Procs, CountBulkSegment(p) PROVE RemovedAt'
    BY <1>0, <1>5 DEF CountBulkSegment, BulkSegment, RemovedAt
  <1>6. ASSUME NEW p \in Procs, CountBulkDone(p) PROVE RemovedAt'
    BY <1>0, <1>6 DEF CountBulkDone, BulkDone, Goto, RemovedAt
  <1>7. ASSUME NEW p \in Procs, TAbort(p) PROVE RemovedAt'
    BY <1>0, <1>7 DEF TAbort, Abort, RemovedAt
  <1>8. ASSUME NEW p \in Procs, Uncounted(p), UNCHANGED totals PROVE RemovedAt'
    <2>1. \E a, b : Goto(p, a, b) /\ a # "bulkseg" BY <1>8, UncountedAt
    <2> QED BY <1>1, <1>8, <2>1 DEF totals
  <1>9. ASSUME NEW d \in Docs, Delete(d), UNCHANGED totals PROVE RemovedAt'
    BY <1>2, <1>9 DEF Delete, totals
  <1>10. CASE UNCHANGED tvars BY <1>2, <1>10 DEF tvars, vars, totals
  <1> QED BY <1>3, <1>4, <1>5, <1>6, <1>7, <1>8, <1>9, <1>10 DEF TNext, TWork

-----------------------------------------------------------------------------
(* What the totals have to follow. *)

\* The documents whose lengths count: every document ever indexed.
Ever == {d \in Docs : heap[d] \in {"live", "dead", "gone"}} \cup Indexed

\* A step that counts nothing, in which no document enters the index.
Neutral == Indexed' = Indexed /\ (Blank = {} => Ever' = Ever)

\* A step in which document d enters it.
Entering(d) ==
    /\ d \in Docs \ Indexed /\ d \notin Ever
    /\ Indexed' = Indexed \cup ({d} \ Blank)
    /\ Blank = {} => Ever' = Ever \cup {d}

LEMMA EnteringDoc ==
    ASSUME NEW d \in Docs \ Indexed, heap[d] = "inserting", heap' = heap,
           Indexed' = Indexed \cup ({d} \ Blank)
    PROVE  Entering(d)
  BY DEF Entering, Ever

\* Inserting, committing, deleting and reclaiming a tuple leave what was ever
\* indexed alone, and so does a step that changes nothing of the two.
LEMMA NeutralSteps ==
    ASSUME UniqueInv,
           \/ \E p \in Procs : Uncounted(p) \/ CountOversized(p) \/ CountFold(p) \/ CountMerge(p)
           \/ \E p \in Procs : CountBulkSnapshot(p) \/ CountBulkDone(p)
           \/ \E d \in Docs : Delete(d)
           \/ UNCHANGED vars
    PROVE  Neutral
  <1>0. /\ TypeInv /\ TypeOK /\ Control /\ Owners /\ StoredInv
        /\ heap \in [Docs -> {"absent", "inserting", "live", "dead", "gone"}]
        /\ pc \in [Procs -> Points]
    BY DEF UniqueInv, StoredInv, WriteInv, ListInv, SegmentsInv, TypeInv, TypeOK
  <1>1. ASSUME heap' = heap, Indexed' = Indexed PROVE Neutral BY <1>1 DEF Neutral, Ever
  <1>2. ASSUME UNCHANGED <<heap, meta>> PROVE Neutral
    BY <1>1, <1>2, SameIndexed DEF meta
  <1>3. ASSUME NEW p \in Procs, Next, heap' = heap, NEW a, NEW b, Goto(p, a, b), a # b,
               a \notin {"append", "publish"}
        PROVE  Neutral
    <2>1. pc[p] = a /\ pc'[p] # pc[p] BY <1>0, <1>3 DEF Goto
    <2> QED BY <1>1, <1>3, <2>1, StillIndexed
  <1>4. ASSUME NEW d \in Docs, Delete(d) PROVE Neutral
    <2>1. Indexed' = Indexed BY <1>4, SameIndexed DEF Delete, meta
    <2>2. \A e \in Docs : heap'[e] \in {"live", "dead", "gone"} <=> heap[e] \in {"live", "dead", "gone"}
      BY <1>0, <1>4 DEF Delete
    <2> QED BY <2>1, <2>2 DEF Neutral, Ever
  <1>5. ASSUME NEW p \in Procs, NEW d \in Docs, HeapInsert(p, d) PROVE Neutral
    <2>1. Indexed' = Indexed BY <1>5, SameIndexed DEF HeapInsert, meta
    <2>2. \A e \in Docs : heap'[e] \in {"live", "dead", "gone"} <=> heap[e] \in {"live", "dead", "gone"}
      BY <1>0, <1>5 DEF HeapInsert
    <2> QED BY <2>1, <2>2 DEF Neutral, Ever
  <1>6. ASSUME NEW p \in Procs, Commit(p) PROVE Neutral
    <2>1. Indexed' = Indexed BY <1>6, SameIndexed DEF Commit, meta
    <2>2. pc[p] = "commit" /\ heap' = [heap EXCEPT ![job[p].doc] = "live"]
      BY <1>6 DEF Commit, Goto
    <2>3. Filed(p) /\ job[p].doc \in Docs
      BY <1>0, <2>2 DEF Control, OpAt, Owners, DocOwned, Filed, Adding, Merging, Storing
    <2>4. Blank = {} => job[p].doc \in Indexed BY <1>0, <2>3 DEF StoredInv, Placed
    <2>5. \A e \in Docs : e # job[p].doc => heap'[e] = heap[e] BY <1>0, <2>2
    <2> QED BY <2>1, <2>4, <2>5 DEF Neutral, Ever
  <1>7. ASSUME NEW p \in Procs, Reclaim(p) PROVE Neutral
    <2>1. Indexed' = Indexed BY <1>7, SameIndexed DEF Reclaim, meta
    <2>2. \A e \in Docs : heap'[e] \in {"live", "dead", "gone"} <=> heap[e] \in {"live", "dead", "gone"}
      BY <1>0, <1>7 DEF Reclaim
    <2> QED BY <2>1, <2>2 DEF Neutral, Ever
  <1>8. ASSUME NEW p \in Procs,
               TryFlush(p) \/ Tidy(p) \/ Lock(p) \/ MakeRoom(p) \/ MergeForRoom(p)
               \/ MergeSelect(p) \/ MergeReturn(p) \/ Unlock(p) \/ Vacuum(p) \/ FtsMerge(p)
        PROVE  Neutral
    BY <1>2, <1>8 DEF TryFlush, Tidy, Lock, MakeRoom, MergeForRoom, MergeSelect, MergeReturn,
                      Unlock, Vacuum, FtsMerge
  <1>9. ASSUME NEW p \in Procs, Seal(p) PROVE Neutral
    BY <1>0, <1>1, <1>9, SealLocals, SameIndexed
  <1>10. ASSUME NEW p \in Procs, FreePages(p) \/ MergeSwap(p) \/ FreeInputs(p) PROVE Neutral
    <2>1. Next
      BY <1>10 DEF Next, Work, Serve, Continue, Flush, Merge
    <2>2. heap' = heap BY <1>10 DEF FreePages, MergeSwap, FreeInputs
    <2>3. \E a, b : Goto(p, a, b) /\ a # b /\ a \notin {"append", "publish"}
      BY <1>10 DEF FreePages, MergeSwap, FreeInputs
    <2> QED BY <1>3, <2>1, <2>2, <2>3
  <1>11. ASSUME NEW p \in Procs, CountOversized(p) \/ CountFold(p) \/ CountMerge(p) PROVE Neutral
    <2>1. WriteOversized(p) \/ Fold(p) \/ MergeStream(p)
      BY <1>11 DEF CountOversized, CountFold, CountMerge
    <2>2. Next
      BY <2>1 DEF Next, Work, Serve, Continue, Insert, Flush, Merge
    <2>3. heap' = heap BY <2>1 DEF WriteOversized, Fold, MergeStream
    <2>4. \E a, b : Goto(p, a, b) /\ a # b /\ a \notin {"append", "publish"}
      BY <2>1 DEF WriteOversized, Fold, MergeStream
    <2> QED BY <1>3, <2>2, <2>3, <2>4
  <1>12. ASSUME NEW p \in Procs, CountBulkSnapshot(p) \/ CountBulkDone(p) PROVE Neutral
    BY <1>2, <1>12 DEF CountBulkSnapshot, CountBulkDone, BulkSnapshot, BulkDone
  <1>13. CASE UNCHANGED vars BY <1>2, <1>13 DEF vars
  <1> QED BY <1>4, <1>5, <1>6, <1>7, <1>8, <1>9, <1>10, <1>11, <1>12, <1>13 DEF Uncounted

\* A step of a bulkdelete takes documents out that are dead, and leaves the
\* index alone if it finds nothing to tombstone.
LEMMA BulkStep ==
    ASSUME UniqueInv, NEW p \in Procs, BulkSegment(p)
    PROVE  /\ Indexed' \subseteq Indexed /\ Ever' = Ever
           /\ \A i \in InSnapshot(p) :
                 job[p].snap[i].pos = job[p].next /\ Newly(p, i) = {} => Indexed' = Indexed
  <1>0. /\ TypeInv /\ Dense /\ ContentsInv /\ SnapKept /\ StoredInv /\ HeapInv /\ IndexedKnown
        /\ WriteInv
    BY DEF UniqueInv, StoredInv, WriteInv, ListInv, SegmentsInv, ContentsInv
  <1>1. /\ Dir' = Dir
        /\ \A k \in Dir : LiveDocs(disk[k])' =
              IF pos[k] = job[p].next
              THEN {d \in LiveDocs(disk[k]) : TidOf[d] \notin job[p].vac}
              ELSE LiveDocs(disk[k])
    BY <1>0, BulkSegDocs
  <1>2. PendingDocs' = PendingDocs /\ heap' = heap /\ pc[p] = "bulkseg"
    BY DEF BulkSegment, PendingDocs
  <1>3. /\ SegDocs' \subseteq SegDocs
        /\ \A d \in SegDocs : d \in SegDocs' \/ TidOf[d] \in job[p].vac
    <2>1. SegDocs' = UNION {LiveDocs(disk[k])' : k \in Dir} BY <1>1 DEF SegDocs
    <2>2. \A k \in Dir : /\ LiveDocs(disk[k])' \subseteq LiveDocs(disk[k])
                         /\ \A d \in LiveDocs(disk[k]) :
                               d \in LiveDocs(disk[k])' \/ TidOf[d] \in job[p].vac
      BY <1>1
    <2> QED BY <2>1, <2>2 DEF SegDocs
  <1>4. Indexed' \subseteq Indexed BY <1>2, <1>3, InIndexed, InIndexedNext
  <1>5. \A d \in Indexed : d \in Indexed' \/ TidOf[d] \in job[p].vac
    BY <1>2, <1>3, InIndexed, InIndexedNext
  <1>6. \A d \in Indexed : d \in Docs /\ Present(d) BY <1>0 DEF IndexedKnown, Indexed
  <1>7. \A d \in Indexed : d \in Indexed' \/ heap[d] = "dead" BY <1>0, <1>5, <1>6, VacDocs
  <1>8. Ever' = Ever BY <1>2, <1>4, <1>6, <1>7 DEF Ever
  <1>9. ASSUME NEW i \in InSnapshot(p), job[p].snap[i].pos = job[p].next, Newly(p, i) = {}
        PROVE  Indexed' = Indexed
    <2>1. /\ pos[i] = job[p].next /\ i \in Dir /\ job[p].snap[i].dead = disk[i].dead
      BY <1>0, <1>2, <1>9 DEF SnapKept, InSnapshot, Dir, TypeInv, TypeOK
    <2>2. \A k \in Dir : pos[k] = job[p].next => k = i BY <1>0, <2>1 DEF Dense
    <2>3. \A d \in LiveDocs(disk[i]) : TidOf[d] \notin job[p].vac
      BY <1>9, <2>1 DEF LiveDocs, Newly, TidsOf
    <2>4. \A k \in Dir : LiveDocs(disk[k])' = LiveDocs(disk[k]) BY <1>1, <2>2, <2>3
    <2>5. SegDocs' = SegDocs BY <1>1, <2>4 DEF SegDocs
    <2>6. \A d : d \in Indexed' <=> d \in Indexed BY <1>2, <2>5, InIndexed, InIndexedNext
    <2> QED BY <2>6
  <1> QED BY <1>4, <1>8, <1>9
LEMMA EverType ==
    /\ Indexed \in SUBSET Docs /\ IsFiniteSet(Indexed) /\ Cardinality(Indexed) \in Nat
    /\ Ever \in SUBSET Docs /\ Lengths(Ever) \in Nat
  <1>1. Indexed \in SUBSET Docs /\ Ever \in SUBSET Docs BY DEF Indexed, Ever
  <1> QED BY <1>1, SetOfDocs, LengthsType

\* One more document: N grows by one, sumdoclen by its length.
LEMMA StepEntering ==
    ASSUME StatType, NeverUndercounted, CorpusKept, LengthsKept, NEW d \in Docs, Entering(d),
           ndocs' = ndocs + 1, sumdoclen' = sumdoclen + DocLen[d],
           removed' = removed, failures' = failures
    PROVE  NeverUndercounted' /\ CorpusKept' /\ LengthsKept'
  <1>0. ndocs \in Nat /\ sumdoclen \in Nat BY DEF StatType
  <1>1. /\ IsFiniteSet(Indexed) /\ Cardinality(Indexed) \in Nat /\ Indexed \in SUBSET Docs
        /\ Ever \in SUBSET Docs
    BY EverType
  <1>2. /\ IsFiniteSet(Indexed \cup {d}) /\ Cardinality(Indexed \cup {d}) = Cardinality(Indexed) + 1
    BY <1>1, FS_AddElement DEF Entering
  <1>3. Indexed' \subseteq Indexed \cup {d} BY DEF Entering
  <1>4. Cardinality(Indexed') <= Cardinality(Indexed \cup {d}) /\ IsFiniteSet(Indexed')
    BY <1>2, <1>3, FS_Subset
  <1>5. Cardinality(Indexed') \in Nat BY <1>4, FS_CardinalityType
  <1>6. NeverUndercounted' BY <1>0, <1>1, <1>2, <1>4, <1>5 DEF NeverUndercounted
  <1>7. CorpusKept'
    <2>1. Blank = {} => Indexed' = Indexed \cup {d} BY DEF Entering
    <2>2. Blank = {} => Cardinality(Indexed') = Cardinality(Indexed) + 1 BY <1>2, <2>1
    <2> QED BY <2>2 DEF CorpusKept
  <1>8. LengthsKept'
    <2>1. Counts(DocLen, Ever \cup {d}) BY <1>1, LengthsType
    <2>2. Lengths(Ever \cup {d}) = Lengths(Ever) + DocLen[d]
      BY <2>1, SumAdd DEF Lengths, Entering
    <2>3. Blank = {} => Lengths(Ever') = Lengths(Ever) + DocLen[d] BY <2>2 DEF Entering
    <2>4. CountedOnce = (failures = 0 => sumdoclen = Lengths(Ever)) BY DEF CountedOnce, Ever
    <2>5. CountedOnce' = (failures' = 0 => sumdoclen' = Lengths(Ever'))
      BY DEF CountedOnce, Ever, Lengths
    <2> QED BY <2>3, <2>4, <2>5 DEF LengthsKept
  <1> QED BY <1>6, <1>7, <1>8

\* Nothing enters: N and sumdoclen stay.
LEMMA StepNeutral ==
    ASSUME NeverUndercounted, CorpusKept, LengthsKept, Neutral,
           ndocs' = ndocs, sumdoclen' = sumdoclen, failures' = failures,
           (\A p \in Procs : removed'[p] = 0) => \A p \in Procs : removed[p] = 0
    PROVE  NeverUndercounted' /\ CorpusKept' /\ LengthsKept'
  <1>1. Indexed' = Indexed /\ (Blank = {} => Ever' = Ever) BY DEF Neutral
  <1>2. NeverUndercounted' /\ CorpusKept' BY <1>1 DEF NeverUndercounted, CorpusKept
  <1>3. CountedOnce = (failures = 0 => sumdoclen = Lengths(Ever)) BY DEF CountedOnce, Ever
  <1>4. CountedOnce' = (failures' = 0 => sumdoclen' = Lengths(Ever'))
    BY DEF CountedOnce, Ever, Lengths
  <1>5. LengthsKept' BY <1>1, <1>3, <1>4 DEF LengthsKept
  <1> QED BY <1>2, <1>5

LEMMA StepTotals ==
    ASSUME TotalsInv, [TNext]_tvars
    PROVE  NeverUndercounted' /\ CorpusKept' /\ LengthsKept'
  <1> DEFINE Goal == NeverUndercounted' /\ CorpusKept' /\ LengthsKept'
  <1>0. /\ UniqueInv /\ StatType /\ DeadKnown /\ SlotsApart /\ AllCounted /\ OneCounted
        /\ RemovedAt /\ NeverUndercounted /\ CorpusKept /\ LengthsKept
        /\ TypeInv /\ TypeOK /\ Control /\ Owners /\ Holdings /\ [Next]_vars
        /\ removed \in [Procs -> Nat] /\ ndocs \in Nat
    BY TStep DEF TotalsInv, UniqueInv, StoredInv, WriteInv, ListInv, SegmentsInv, TypeInv, StatType
  <1>1. ASSUME NEW p \in Procs, CountInsert(p), failures' = failures PROVE Goal
    <2>1. Next /\ AppendPending(p)
      BY <1>1 DEF CountInsert, Next, Work, Serve, Continue, Insert
    <2>2. Entering(job[p].doc) /\ job[p].doc \in Docs BY <1>0, <2>1, AppendIndexes, EnteringDoc
    <2> QED BY <1>0, <1>1, <2>2, StepEntering DEF CountInsert
  <1>2. ASSUME NEW p \in Procs, CountPublish(p), failures' = failures PROVE Goal
    <2>1. Next /\ Publish(p)
      BY <1>2 DEF CountPublish, Next, Work, Serve, Continue, AddSegment
    <2>2. CASE job[p].op = "oversized"
      <3>1. Entering(job[p].doc) /\ job[p].doc \in Docs
        BY <1>0, <2>1, <2>2, OversizedIndexes, EnteringDoc
      <3>2. Adding(p) BY <2>1 DEF Publish, Goto, Adding
      <3>3. Added(p) = Stat({job[p].doc}) BY <1>0, <2>2, <3>2 DEF Added, OneCounted
      <3>4. Cardinality({job[p].doc}) = 1 BY FS_Singleton
      <3>5. Lengths({job[p].doc}) = DocLen[job[p].doc]
        <4>1. {} \cup {job[p].doc} = {job[p].doc} OBVIOUS
        <4>2. {job[p].doc} \in SUBSET Docs BY <3>1
        <4>3. Counts(DocLen, {} \cup {job[p].doc}) BY <4>1, <4>2, LengthsType
        <4>4. SumFunctionOnSet(DocLen, {} \cup {job[p].doc})
                = SumFunctionOnSet(DocLen, {}) + DocLen[job[p].doc]
          BY <4>3, SumAdd
        <4>5. DocLen[job[p].doc] \in Nat BY <3>1, DocLenAssumption
        <4> QED BY <4>1, <4>4, <4>5, SumEmpty DEF Lengths
      <3>6. ndocs' = ndocs + 1 /\ sumdoclen' = sumdoclen + DocLen[job[p].doc] /\ removed' = removed
        BY <1>2, <3>3, <3>4, <3>5 DEF CountPublish, Stat
      <3> QED BY <1>0, <1>2, <3>1, <3>6, StepEntering
    <2>3. CASE job[p].op # "oversized"
      <3>1. Neutral BY <1>0, <2>1, <2>3, FlushIndexes DEF Neutral, Ever
      <3>2. Added(p).ndocs = 0 /\ Added(p).sumdoclen = 0 BY <2>3 DEF Added
      <3>3. ndocs' = ndocs /\ sumdoclen' = sumdoclen /\ removed' = removed
        BY <1>0, <1>2, <3>2 DEF CountPublish, StatType
      <3> QED BY <1>0, <1>2, <3>1, <3>3, StepNeutral
    <2> QED BY <2>2, <2>3
  <1>3. ASSUME NEW p \in Procs, CountOversized(p) \/ CountFold(p) \/ CountMerge(p), failures' = failures
        PROVE  Goal
    <2>1. Neutral BY <1>0, <1>3, NeutralSteps
    <2>2. UNCHANGED <<ndocs, sumdoclen, removed>>
      BY <1>3 DEF CountOversized, CountFold, CountMerge
    <2> QED BY <1>0, <1>3, <2>1, <2>2, StepNeutral
  <1>4. ASSUME NEW p \in Procs, CountBulkSnapshot(p), failures' = failures PROVE Goal
    <2>1. Neutral BY <1>0, <1>4, NeutralSteps
    <2>2. removed[p] = 0
      BY <1>0, <1>4 DEF CountBulkSnapshot, BulkSnapshot, Goto, RemovedAt
    <2>3. UNCHANGED <<ndocs, sumdoclen, removed>>
      BY <1>0, <1>4, <2>2 DEF CountBulkSnapshot
    <2> QED BY <1>0, <1>4, <2>1, <2>3, StepNeutral
  <1>5. ASSUME NEW p \in Procs, CountBulkSegment(p), failures' = failures PROVE Goal
    <2>1. BulkSegment(p) /\ UNCHANGED <<ndocs, sumdoclen>> BY <1>5 DEF CountBulkSegment
    <2>2. PICK i \in InSnapshot(p) :
             /\ job[p].snap[i].pos = job[p].next
             /\ removed' = [removed EXCEPT ![p] = @ + Cardinality(Newly(p, i))]
      BY <1>5 DEF CountBulkSegment, Newly
    <2>3. Cardinality(Newly(p, i)) \in Nat /\ (Cardinality(Newly(p, i)) = 0 => Newly(p, i) = {})
      BY <1>0, NewlyCount DEF InSnapshot
    <2>4. /\ Indexed' \subseteq Indexed /\ Ever' = Ever /\ (Newly(p, i) = {} => Indexed' = Indexed)
      BY <1>0, <2>1, <2>2, BulkStep
    <2>5. ASSUME \A q \in Procs : removed'[q] = 0
          PROVE  Indexed' = Indexed /\ \A q \in Procs : removed[q] = 0
      <3>1. removed'[p] = removed[p] + Cardinality(Newly(p, i)) /\ removed[p] \in Nat
        BY <1>0, <2>2
      <3>2. removed[p] = 0 /\ Cardinality(Newly(p, i)) = 0 BY <2>3, <2>5, <3>1
      <3>3. \A q \in Procs : q # p => removed'[q] = removed[q] BY <1>0, <2>2
      <3> QED BY <2>3, <2>4, <2>5, <3>2, <3>3
    <2>6. Cardinality(Indexed') <= Cardinality(Indexed) /\ Cardinality(Indexed') \in Nat
          /\ Cardinality(Indexed) \in Nat
      <3>1. IsFiniteSet(Indexed) BY EverType
      <3>2. IsFiniteSet(Indexed') /\ Cardinality(Indexed') <= Cardinality(Indexed)
        BY <2>4, <3>1, FS_Subset
      <3> QED BY <3>1, <3>2, FS_CardinalityType
    <2>7. NeverUndercounted' BY <1>0, <2>1, <2>6 DEF NeverUndercounted
    <2>8. CorpusKept' BY <1>0, <1>5, <2>1, <2>5 DEF CorpusKept
    <2>9. LengthsKept'
      <3>1. CountedOnce = (failures = 0 => sumdoclen = Lengths(Ever)) BY DEF CountedOnce, Ever
      <3>2. CountedOnce' = (failures' = 0 => sumdoclen' = Lengths(Ever'))
        BY DEF CountedOnce, Ever, Lengths
      <3> QED BY <1>0, <1>5, <2>1, <2>4, <3>1, <3>2 DEF LengthsKept
    <2> QED BY <2>7, <2>8, <2>9
  <1>6. ASSUME NEW p \in Procs, CountBulkDone(p), failures' = failures PROVE Goal
    <2>1. Neutral BY <1>0, <1>6, NeutralSteps
    <2>2. sumdoclen' = sumdoclen /\ removed' = [removed EXCEPT ![p] = 0] BY <1>6 DEF CountBulkDone
    <2>3. CASE removed[p] > 0
      <3>1. ndocs' = DirDocs + npending BY <1>6, <2>3 DEF CountBulkDone
      <3>2. Indexed' = Indexed BY <2>1 DEF Neutral
      <3>3. NeverUndercounted' BY <1>0, <3>1, <3>2, RefreshCount DEF NeverUndercounted
      <3>4. CorpusKept' BY <1>0, <3>1, <3>2, RefreshCount DEF CorpusKept
      <3>5. LengthsKept'
        <4>1. CountedOnce = (failures = 0 => sumdoclen = Lengths(Ever)) BY DEF CountedOnce, Ever
        <4>2. CountedOnce' = (failures' = 0 => sumdoclen' = Lengths(Ever'))
          BY DEF CountedOnce, Ever, Lengths
        <4> QED BY <1>0, <1>6, <2>1, <2>2, <4>1, <4>2 DEF LengthsKept, Neutral
      <3> QED BY <3>3, <3>4, <3>5
    <2>4. CASE ~ (removed[p] > 0)
      <3>1. ndocs' = ndocs BY <1>6, <2>4 DEF CountBulkDone
      <3>2. removed[p] = 0 BY <1>0, <2>4
      <3>3. removed' = removed BY <1>0, <2>2, <3>2
      <3> QED BY <1>0, <1>6, <2>1, <2>2, <3>1, <3>3, StepNeutral
    <2> QED BY <2>3, <2>4
  <1>7. ASSUME NEW p \in Procs, TAbort(p) PROVE Goal
    <2>1. Indexed' = Indexed BY <1>7, SameIndexed DEF TAbort, Abort, meta
    <2>2. failures' # 0 /\ ndocs' = ndocs BY <1>0, <1>7 DEF TAbort, StatType
    <2>3. NeverUndercounted' BY <1>0, <2>1, <2>2 DEF NeverUndercounted
    <2> QED BY <2>2, <2>3 DEF CorpusKept, LengthsKept, CountedOnce
  <1>8. ASSUME UNCHANGED totals, failures' = failures, Neutral PROVE Goal
    BY <1>0, <1>8, StepNeutral DEF totals
  <1>9. ASSUME NEW p \in Procs, Uncounted(p) PROVE Neutral BY <1>0, <1>9, NeutralSteps
  <1>10. ASSUME NEW d \in Docs, Delete(d) PROVE Neutral BY <1>0, <1>10, NeutralSteps
  <1>11. CASE UNCHANGED tvars
    <2>1. UNCHANGED vars /\ UNCHANGED totals /\ failures' = failures BY <1>11 DEF tvars
    <2> QED BY <1>0, <1>8, <2>1, NeutralSteps
  <1> HIDE DEF Goal
  <1> QED BY <1>1, <1>2, <1>3, <1>4, <1>5, <1>6, <1>7, <1>8, <1>9, <1>10, <1>11
          DEF TNext, TWork, Goal

-----------------------------------------------------------------------------
LEMMA InitTotals == TInit => TotalsInv
  <1> SUFFICES ASSUME TInit PROVE TotalsInv OBVIOUS
  <1>1. UniqueInv BY InitUniqueInv DEF TInit
  <1>2. StatType BY DEF TInit, StatType
  <1>3. Dir = {} BY DEF TInit, Init, Dir
  <1>4. InUse = {}
    BY <1>3 DEF TInit, Init, InUse, Adding, Merging
  <1>5. DeadKnown /\ SlotsApart /\ AllCounted
    BY <1>3, <1>4 DEF DeadKnown, SlotsApart, AllCounted
  <1>6. OneCounted /\ RemovedAt
    BY DEF TInit, Init, OneCounted, RemovedAt, Adding, Merging
  <1>7. Indexed = {} /\ Ever = {}
    BY <1>3 DEF Indexed, PlacesOf, Ever, TInit, Init
  <1>8. Cardinality(Indexed) = 0 BY <1>7, FS_EmptySet
  <1>9. NeverUndercounted /\ CorpusKept BY <1>8 DEF TInit, NeverUndercounted, CorpusKept
  <1>10. LengthsKept
    <2>1. Lengths(Ever) = 0 BY <1>7, SumEmpty DEF Lengths
    <2>2. CountedOnce = (failures = 0 => sumdoclen = Lengths(Ever)) BY DEF CountedOnce, Ever
    <2> QED BY <2>1, <2>2 DEF LengthsKept, TInit
  <1> QED BY <1>1, <1>2, <1>5, <1>6, <1>9, <1>10 DEF TotalsInv

LEMMA StepTotalsInv == TotalsInv /\ [TNext]_tvars => TotalsInv'
  <1> SUFFICES ASSUME TotalsInv, [TNext]_tvars PROVE TotalsInv' OBVIOUS
  <1>0. /\ UniqueInv /\ StatType /\ DeadKnown /\ SlotsApart /\ AllCounted /\ OneCounted
        /\ RemovedAt /\ TypeOK /\ [Next]_vars
    BY TStep DEF TotalsInv, UniqueInv, StoredInv, WriteInv, ListInv, SegmentsInv, TypeInv
  <1>1. UniqueInv' BY <1>0, StepUniqueInv
  <1>2. StatType' BY <1>0, StepStatType
  <1>3. DeadKnown' /\ SlotsApart' BY <1>0, StepTombstones
  <1>4. AllCounted' BY <1>0, StepAllCounted
  <1>5. OneCounted' BY <1>0, StepOneCounted
  <1>6. RemovedAt' BY <1>0, StepRemovedAt
  <1>7. NeverUndercounted' /\ CorpusKept' /\ LengthsKept' BY StepTotals
  <1> QED BY <1>1, <1>2, <1>3, <1>4, <1>5, <1>6, <1>7 DEF TotalsInv

LEMMA TotalsHold == TSpec => []TotalsInv
  BY InitTotals, StepTotalsInv, PTL DEF TSpec

\* Corpus N is never less than the number of documents a scan reports, whatever
\* fails or is cancelled between which steps (bm25_insert, bm25_meta_add_segment,
\* bm25_bulkdelete): an idf computed from it is never negative.
THEOREM NeverTooFew == TSpec => []NeverUndercounted
  <1>1. TotalsInv => NeverUndercounted BY DEF TotalsInv
  <1> QED BY <1>1, TotalsHold, PTL

\* If every document has terms, then the descriptor of each segment counts its
\* documents exactly, through every merge of tombstoned segments
\* (bm25_merge_segments_streaming: ndocs - ndeleted).
THEOREM DescriptorsExact ==
    ASSUME Blank = {}
    PROVE  TSpec => []SegmentCounts
  <1>1. TotalsInv => SegmentCounts
    BY DEF TotalsInv, AllCounted, Counted, InUse, SegmentCounts
  <1> QED BY <1>1, TotalsHold, PTL

\* If every document has terms and nothing has failed, corpus N is exactly the
\* number of documents a scan reports, but for a bulkdelete under way
\* (bm25_insert, bm25_meta_add_segment, "refresh corpus N").
THEOREM CorpusExact ==
    ASSUME Blank = {}
    PROVE  TSpec => []CorpusN
  <1>1. TotalsInv => CorpusN
    BY DEF TotalsInv, CorpusKept, RemovedAt, CorpusN, NoBulkDelete
  <1> QED BY <1>1, TotalsHold, PTL

\* And sumdoclen counts the length of every document ever indexed once: neither
\* a flush nor a merge adds to it (bm25_meta_add_segment is told to count a
\* segment only if its documents are new).
THEOREM LengthsCountedOnce ==
    ASSUME Blank = {}
    PROVE  TSpec => []CountedOnce
  <1>1. TotalsInv => CountedOnce BY DEF TotalsInv, LengthsKept
  <1> QED BY <1>1, TotalsHold, PTL
=============================================================================
