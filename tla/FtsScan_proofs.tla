--------------------------- MODULE FtsScan_proofs ---------------------------
(***************************************************************************)
(* Theorems about FtsScan, for any documents, slots, heap pages, backends  *)
(* and bounds: whatever is written while a scan runs, a scan that probes   *)
(* each TID returns exactly the rows of its snapshot, a count through the  *)
(* visibility map misses none, and the dictionary count is exact.          *)
(***************************************************************************)
EXTENDS FtsScan, FtsDirectory_proofs, FtsSums_proofs

ScanPoints == {"idle", "fastmeta", "fastdf", "fastvm", "fastgen", "fastdone",
               "meta", "segs", "pending", "check", "probe", "done"}

ScanType ==
    /\ scan \in [pc : ScanPoints, kind : {"none", "count", "fetch"}, snap : SUBSET Docs,
                 head : Nat, dead : [Segs -> (SUBSET Tids) \cup {None}], moved : BOOLEAN,
                 tries : Nat, found : SUBSET Tids, todo : SUBSET HeapPages,
                 seen : SUBSET Tids, count : Nat]
    /\ recent \in SUBSET Docs
    /\ kept \in [Segs -> (SUBSET Docs) \cup {None}]
    /\ keptpage \in [Pages -> SUBSET Docs]

\* Between two statements there is no scan.
Resting == scan.pc = "idle" => scan = NoScan

\* What a snapshot sees stays in the heap as long as the snapshot is in use.
SnapLive == \A d \in scan.snap : heap[d] = "live"

\* On an all-visible page there is nothing that some snapshot does not see.
VisibleToAll ==
    \A d \in Docs : HeapPageOfDoc(d) \in allvis =>
        \/ heap[d] \in {"absent", "gone"}
        \/ heap[d] = "live" /\ d \notin recent /\ (Scanning => d \in scan.snap)

\* A freed segment whose pages are kept is in nobody's hands.
KeptApart ==
    \A i \in Segs : kept[i] # None =>
        /\ pos[i] = 0 /\ disk[i] = NoSeg
        /\ \A p \in Procs : job[p].out # i /\ job[p].mout # i

\* Pending pages that are kept are off the list for good.
KeptOff == \A k \in Pages : keptpage[k] # {} => k <= top /\ (head # 0 => k < head)

\* Only segments with postings are merged.
InputsFull ==
    \A p \in Procs : pc[p] \in {"stream", "swap", "freeinputs"} =>
        \A i \in Inputs(p) : disk[i].docs # {}

\* A segment the scan has yet to read is in the directory, or on its way out
\* with its pages still there, or kept.
ListedKept ==
    \A i \in Listed : \/ i \in Dir
                      \/ kept[i] # None
                      \/ \E p \in Procs : pc[p] = "freeinputs" /\ i \in Inputs(p)

\* What the scan reads of segment i.
Entries(i) == {d \in Postings(i) : TidOf[d] \notin scan.dead[i]}

\* The copy of the metapage leads to every row of the snapshot, and to no other
\* row at the slot of one.
SegsComplete ==
    scan.pc = "segs" =>
        /\ \A d \in scan.snap \ Blank : d \in PendingWalk \/ \E i \in Listed : d \in Entries(i)
        /\ \A i \in Listed : \A e \in Entries(i) :
              e \in Docs /\ (TidOf[e] \in TidsOf(scan.snap) => e \in scan.snap \ Blank)
WalkSound ==
    scan.pc \in {"segs", "pending"} =>
        \A e \in PendingWalk : TidOf[e] \in TidsOf(scan.snap) => e \in scan.snap

\* So do the TIDs found.
FoundPending ==
    scan.pc = "pending" => \A d \in scan.snap \ Blank : d \in PendingWalk \/ TidOf[d] \in scan.found
FoundAll == scan.pc \in {"check", "probe", "done"} => Answer \subseteq scan.found
FoundSound ==
    scan.pc \in {"pending", "check", "probe", "done"} =>
        scan.found \cap TidsOf(scan.snap) \subseteq Answer

\* Each of them is counted, or on a heap page still to be looked at.
SeenAll ==
    scan.pc \in {"probe", "done"} => \A t \in Answer : HeapPageOf[t] \in scan.todo \/ t \in scan.seen
SeenSound == scan.kind = "fetch" => scan.seen \subseteq Answer
SeenLater == scan.pc \notin {"probe", "done"} => scan.seen = {}
DoneAt == scan.pc = "done" => scan.todo = {}

\* The dictionary count, as long as the generation is still the one of its
\* first step: the directory is the one it read, without tombstones, and it
\* has every row of the snapshot.
FastRead ==
    scan.pc \in {"fastdf", "fastvm", "fastgen"} /\ ~scan.moved =>
        /\ Listed = Dir /\ \A i \in Dir : disk[i].dead = {}
        /\ scan.snap \ Blank \subseteq SegDocs
        /\ scan.pc \in {"fastvm", "fastgen"} => scan.count = Cardinality(SegDocs)
        /\ scan.pc = "fastgen" => SegDocs \subseteq scan.snap

Kept == KeptApart /\ KeptOff /\ InputsFull /\ ListedKept
Reading == SegsComplete /\ WalkSound /\ FoundPending /\ FoundAll /\ FoundSound
Probing == SeenAll /\ SeenSound /\ SeenLater /\ DoneAt
ScanInv ==
    /\ UniqueInv /\ ScanType /\ Resting /\ SnapLive /\ VisibleToAll /\ Kept /\ Reading /\ Probing
    /\ FastRead /\ FastCountExact

-----------------------------------------------------------------------------
(* A write is a step of FtsDirectory; a step of the scan is none. *)

LEMMA WriteNext ==
    ASSUME ScanType, Write
    PROVE  Next
  <1>1. recent \subseteq Docs BY DEF ScanType
  <1>2. \/ \E d \in recent \ scan.snap : Delete(d)
        \/ \E p \in Procs : \/ \E d \in Docs : HeapInsert(p, d)
                            \/ Vacuum(p) \/ FtsMerge(p) \/ Continue(p)
    BY DEF Write
  <1> QED BY <1>1, <1>2 DEF Next, Work, Serve

LEMMA ScanIdles ==
    Scan \/ (\E d \in Docs : DeleteRecent(d)) \/ (\E h \in HeapPages : SetAllVisible(h))
      => UNCHANGED vars
  BY DEF Scan, Begin, FastMeta, FastSum, FastVisible, FastCheck, ReadMeta, ReadSegments,
         ReadPending, Check, Probe, Finish, End, At, DeleteRecent, SetAllVisible

LEMMA SStep == ScanType /\ [SNext]_svars => [Next]_vars
  BY WriteNext, ScanIdles DEF SNext, svars

\* A write leaves the scan alone, but for what the generation tells it.
LEMMA WriteScan ==
    ASSUME ScanType, Write
    PROVE  /\ scan'.pc = scan.pc /\ scan'.kind = scan.kind /\ scan'.snap = scan.snap
           /\ scan'.head = scan.head /\ scan'.dead = scan.dead /\ scan'.tries = scan.tries
           /\ scan'.found = scan.found /\ scan'.todo = scan.todo /\ scan'.seen = scan.seen
           /\ scan'.count = scan.count
           /\ ~scan'.moved => ~scan.moved /\ (Scanning => ~Bumped)
  <1> DEFINE m == scan.moved \/ (Scanning /\ Bumped)
  <1>1. scan' = [scan EXCEPT !.moved = m] BY DEF Write
  <1>2. ~m => ~scan.moved /\ (Scanning => ~Bumped) OBVIOUS
  <1> HIDE DEF m
  <1> QED BY <1>1, <1>2 DEF ScanType

\* What a write does to a document's tuple.
Ages(d) ==
    \/ heap[d] = "absent" /\ heap'[d] = "inserting"
    \/ heap[d] = "inserting" /\ heap'[d] \in {"live", "dead"}
    \/ heap[d] = "live" /\ heap'[d] = "dead" /\ d \in recent \ scan.snap
    \/ heap[d] = "dead" /\ heap'[d] = "gone"

LEMMA WriteHeap ==
    ASSUME UniqueInv, Write
    PROVE  \A d \in Docs : heap'[d] = heap[d] \/ Ages(d)
  <1>0. /\ heap \in [Docs -> {"absent", "inserting", "live", "dead", "gone"}]
        /\ Owners /\ Control
    BY DEF UniqueInv, StoredInv, WriteInv, ListInv, SegmentsInv, TypeInv, TypeOK
  <1>1. ASSUME NEW e \in recent \ scan.snap, Delete(e)
        PROVE  \A d \in Docs : heap'[d] = heap[d] \/ Ages(d)
    BY <1>0, <1>1 DEF Delete, Ages
  <1>2. ASSUME NEW p \in Procs, NEW e \in Docs, HeapInsert(p, e)
        PROVE  \A d \in Docs : heap'[d] = heap[d] \/ Ages(d)
    BY <1>0, <1>2 DEF HeapInsert, Ages
  <1>3. ASSUME NEW p \in Procs, Commit(p)
        PROVE  \A d \in Docs : heap'[d] = heap[d] \/ Ages(d)
    <2>1. pc[p] = "commit" /\ heap' = [heap EXCEPT ![job[p].doc] = "live"]
      BY <1>3 DEF Commit, Goto
    <2>2. job[p].doc \in Docs /\ heap[job[p].doc] = "inserting"
      BY <1>0, <2>1 DEF Control, OpAt, Owners, DocOwned
    <2> QED BY <1>0, <2>1, <2>2 DEF Ages
  <1>4. ASSUME NEW p \in Procs, Abort(p)
        PROVE  \A d \in Docs : heap'[d] = heap[d] \/ Ages(d)
    <2>1. heap' = [d \in Docs |-> IF d = job[p].doc THEN "dead" ELSE heap[d]] BY <1>4 DEF Abort
    <2>2. job[p].doc \in Docs => heap[job[p].doc] = "inserting"
      BY <1>0, NoneAssumption DEF Owners, DocOwned
    <2> QED BY <1>0, <2>1, <2>2 DEF Ages
  <1>5. ASSUME NEW p \in Procs, Reclaim(p)
        PROVE  \A d \in Docs : heap'[d] = heap[d] \/ Ages(d)
    BY <1>0, <1>5 DEF Reclaim, Ages
  <1>6. ASSUME NEW p \in Procs,
               \/ AppendPending(p) \/ TryFlush(p) \/ WriteOversized(p) \/ Tidy(p)
               \/ Lock(p) \/ Seal(p) \/ Fold(p) \/ FreePages(p)
               \/ Publish(p) \/ MakeRoom(p) \/ MergeForRoom(p)
        PROVE  heap' = heap
    BY <1>6 DEF AppendPending, TryFlush, WriteOversized, Tidy, Lock, Seal, Fold, FreePages,
                Publish, MakeRoom, MergeForRoom
  <1>7. ASSUME NEW p \in Procs,
               \/ MergeSelect(p) \/ MergeStream(p) \/ MergeSwap(p) \/ FreeInputs(p)
               \/ MergeReturn(p) \/ BulkSnapshot(p) \/ BulkSegment(p) \/ BulkDone(p)
               \/ Unlock(p) \/ Vacuum(p) \/ FtsMerge(p)
        PROVE  heap' = heap
    BY <1>7 DEF MergeSelect, MergeStream, MergeSwap, FreeInputs, MergeReturn, BulkSnapshot,
                BulkSegment, BulkDone, Unlock, Vacuum, FtsMerge
  <1> QED BY <1>1, <1>2, <1>3, <1>4, <1>5, <1>6, <1>7
          DEF Write, Continue, Insert, Flush, AddSegment, Merge, BulkDelete, Refuse

\* The snapshot's documents are present, and the only ones at their slots.
LEMMA SnapSlots ==
    ASSUME UniqueInv, SnapLive, ScanType, NEW d \in scan.snap,
           NEW e \in Docs, Present(e), TidOf[e] = TidOf[d]
    PROVE  e = d
  BY DEF UniqueInv, StoredInv, HeapInv, SlotOnce, SnapLive, Present, ScanType

LEMMA StepSnapLive ==
    ASSUME UniqueInv, ScanType, SnapLive, Write
    PROVE  SnapLive'
  <1>1. scan'.snap = scan.snap BY WriteScan
  <1>2. \A d \in scan.snap : d \in Docs /\ heap[d] = "live" BY DEF SnapLive, ScanType
  <1> QED BY <1>1, <1>2, WriteHeap DEF SnapLive, Ages

LEMMA StepVisibleToAll ==
    ASSUME UniqueInv, ScanType, VisibleToAll, Write
    PROVE  VisibleToAll'
  <1>1. scan'.snap = scan.snap /\ scan'.pc = scan.pc BY WriteScan
  <1>2. recent' \subseteq recent BY DEF Write
  <1>3. allvis' \subseteq allvis
    /\ \A d \in Docs : heap'[d] = "inserting" => HeapPageOfDoc(d) \notin allvis'
    BY DEF Write
  <1> SUFFICES ASSUME NEW d \in Docs, HeapPageOfDoc(d) \in allvis'
      PROVE  \/ heap'[d] \in {"absent", "gone"}
             \/ heap'[d] = "live" /\ d \notin recent' /\ (Scanning' => d \in scan'.snap)
    BY DEF VisibleToAll, HeapPageOfDoc
  <1>4. \/ heap[d] \in {"absent", "gone"}
        \/ heap[d] = "live" /\ d \notin recent /\ (Scanning => d \in scan.snap)
    BY <1>3 DEF VisibleToAll
  <1>5. heap'[d] = heap[d] \/ Ages(d) BY WriteHeap
  <1> QED BY <1>1, <1>2, <1>3, <1>4, <1>5 DEF Ages, Scanning

-----------------------------------------------------------------------------
(* What a step does to segments, positions, inputs and pages. *)

\* p has just taken segment i to write to.
Takes(p, i) == \/ job'[p].out = i /\ job[p].out # i
               \/ job'[p].mout = i /\ job[p].mout # i

DiskStep(i) ==
    \/ disk'[i] = disk[i]
    \/ i \in FreeSegs /\ \E p \in Procs : Takes(p, i)
    \/ i \in Dir /\ disk[i].docs # {} /\ disk'[i].docs = disk[i].docs
    \/ disk'[i] = NoSeg /\ \E p \in Procs : FreeInputs(p) /\ i \in Inputs(p)

LEMMA DiskMoves ==
    ASSUME UniqueInv, Next
    PROVE  \A i \in Segs : DiskStep(i)
  <1>t. /\ pos \in [Segs -> Nat] /\ disk \in [Segs -> Segment] /\ job \in [Procs -> Job]
        /\ TypeInv /\ Apart /\ Dense /\ SnapKept
    BY DEF UniqueInv, StoredInv, WriteInv, ListInv, SegmentsInv, ContentsInv, TypeInv, TypeOK
  <1>1. ASSUME NEW p \in Procs, WriteOversized(p) PROVE \A i \in Segs : DiskStep(i)
    <2>1. PICK i \in FreeSegs : /\ disk' = [disk EXCEPT ![i] = [docs |-> {job[p].doc}, dead |-> {}]]
                                /\ job' = [job EXCEPT ![p].out = i]
      BY <1>1 DEF WriteOversized
    <2>2. job[p].out # i BY DEF FreeSegs
    <2>3. job'[p].out = i BY <1>t, <2>1 DEF Job
    <2> QED BY <1>t, <2>1, <2>2, <2>3 DEF DiskStep, Takes
  <1>2. ASSUME NEW p \in Procs, Fold(p) PROVE \A i \in Segs : DiskStep(i)
    <2>1. PICK i \in FreeSegs : /\ \A k \in Segs \ {i} : disk'[k] = disk[k]
                                /\ job' = [job EXCEPT ![p].out = i]
      BY <1>2, <1>t DEF Fold
    <2>2. job[p].out # i BY DEF FreeSegs
    <2>3. job'[p].out = i BY <1>t, <2>1 DEF Job
    <2> QED BY <1>t, <2>1, <2>2, <2>3 DEF DiskStep, Takes
  <1>3. ASSUME NEW p \in Procs, MergeStream(p) PROVE \A i \in Segs : DiskStep(i)
    <2>1. PICK i \in FreeSegs : /\ \A k \in Segs \ {i} : disk'[k] = disk[k]
                                /\ job' = [job EXCEPT ![p].mout = i]
      BY <1>3, <1>t DEF MergeStream
    <2>2. job[p].mout # i BY DEF FreeSegs
    <2>3. job'[p].mout = i BY <1>t, <2>1 DEF Job
    <2> QED BY <1>t, <2>1, <2>2, <2>3 DEF DiskStep, Takes
  <1>4. ASSUME NEW p \in Procs, BulkSegment(p) PROVE \A i \in Segs : DiskStep(i)
    <2>1. PICK k \in InSnapshot(p) :
             /\ job[p].snap[k].pos = job[p].next
             /\ disk' = [i \in Segs |->
                           IF disk[k].docs # {} /\ pos[i] = job[p].next
                           THEN [disk[i] EXCEPT !.dead = Tombstones(p, k)] ELSE disk[i]]
      BY <1>4 DEF BulkSegment
    <2>2. k \in Dir /\ pos[k] = job[p].next
      BY <1>4, <1>t, <2>1 DEF BulkSegment, SnapKept, Dir, InSnapshot
    <2>3. \A i \in Segs : pos[i] = job[p].next => i = k
      BY <1>t, <2>2 DEF Dense, Dir
    <2>4. disk'[k].docs = disk[k].docs BY <1>t, <2>1, <2>2 DEF Segment, Dir
    <2>5. \A i \in Segs : i # k \/ disk[k].docs = {} => disk'[i] = disk[i] BY <2>1, <2>3
    <2> QED BY <2>2, <2>4, <2>5 DEF DiskStep
  <1>5. ASSUME NEW p \in Procs, FreeInputs(p) PROVE \A i \in Segs : DiskStep(i)
    BY <1>5 DEF FreeInputs, DiskStep
  <1>6. ASSUME NEW p \in Procs,
               \/ \E d \in Docs : HeapInsert(p, d)
               \/ Vacuum(p) \/ FtsMerge(p) \/ Abort(p)
               \/ AppendPending(p) \/ TryFlush(p) \/ Tidy(p) \/ Commit(p)
               \/ Lock(p) \/ FreePages(p) \/ Publish(p) \/ MakeRoom(p) \/ MergeForRoom(p)
        PROVE  disk' = disk
    BY <1>6 DEF HeapInsert, Vacuum, FtsMerge, Abort, AppendPending, TryFlush, Tidy, Commit, Lock,
                FreePages, Publish, MakeRoom, MergeForRoom, meta
  <1>7. ASSUME NEW p \in Procs,
               \/ MergeSelect(p) \/ MergeSwap(p) \/ MergeReturn(p)
               \/ BulkSnapshot(p) \/ BulkDone(p) \/ Reclaim(p) \/ Unlock(p)
        PROVE  disk' = disk
    BY <1>7 DEF MergeSelect, MergeSwap, MergeReturn, BulkSnapshot, BulkDone, Reclaim, Unlock, meta
  <1>8. ASSUME NEW p \in Procs, Seal(p) PROVE disk' = disk BY <1>8, <1>t, SealLocals
  <1>9. ASSUME NEW d \in Docs, Delete(d) PROVE disk' = disk BY <1>9 DEF Delete, meta
  <1> QED BY <1>1, <1>2, <1>3, <1>4, <1>5, <1>6, <1>7, <1>8, <1>9
          DEF DiskStep, Next, Work, Serve, Continue, Insert, Flush, AddSegment, Merge, BulkDelete,
              Refuse

\* Whose position changes between none and some.
PosStep(i) ==
    \/ (pos'[i] = 0) <=> (pos[i] = 0)
    \/ \E p \in Procs : i = job[p].out \/ i = job[p].mout
    \/ \E p \in Procs : pos[i] # 0 /\ pos'[i] = 0 /\ MergeSwap(p) /\ i \in Inputs(p)

LEMMA PosMoves ==
    ASSUME UniqueInv, Next
    PROVE  \A i \in Segs : PosStep(i)
  <1>t. /\ pos \in [Segs -> Nat] /\ TypeInv /\ Holdings /\ Apart
    BY DEF UniqueInv, StoredInv, WriteInv, ListInv, SegmentsInv, TypeInv, TypeOK
  <1>1. ASSUME NEW p \in Procs, Publish(p) PROVE \A i \in Segs : PosStep(i)
    <2> DEFINE n == NSegs + 1
    <2>1. pos' = [pos EXCEPT ![job[p].out] = n] BY <1>1 DEF Publish
    <2> HIDE DEF n
    <2> QED BY <2>1, <1>t DEF PosStep
  <1>2. ASSUME NEW p \in Procs, MergeSwap(p) PROVE \A i \in Segs : PosStep(i)
    <2> DEFINE stays == Dir \ Inputs(p)
    <2>1. job[p].mout \in Segs /\ Dir' = stays \cup {job[p].mout} BY <1>2, <1>t, SwapDir
    <2>2. \A i \in Segs : pos'[i] = 0 <=> i \notin stays /\ i # job[p].mout
      BY <2>1 DEF Dir
    <2> SUFFICES ASSUME NEW i \in Segs PROVE PosStep(i) OBVIOUS
    <2>3. CASE i = job[p].mout BY <2>3 DEF PosStep
    <2>4. CASE i \in stays BY <2>2, <2>4 DEF PosStep, Dir
    <2>5. CASE i \notin stays /\ i # job[p].mout /\ pos[i] = 0 BY <2>2, <2>5 DEF PosStep
    <2>6. CASE i \notin stays /\ i # job[p].mout /\ pos[i] # 0
      <3>1. i \in Inputs(p) BY <2>6 DEF Dir
      <3>2. pos'[i] = 0 BY <2>2, <2>6
      <3> QED BY <1>2, <2>6, <3>1, <3>2 DEF PosStep
    <2> QED BY <2>3, <2>4, <2>5, <2>6
  <1>3. CASE \A p \in Procs : ~Publish(p) /\ ~MergeSwap(p)
    <2>1. DirMoves \/ DirSteady BY <1>t, MovesOrSteady
    <2>2. pos' = pos BY <1>3, <2>1 DEF DirMoves, DirSteady, BulkSegment
    <2> QED BY <2>2 DEF PosStep
  <1> QED BY <1>1, <1>2, <1>3

\* A backend's inputs are those it selected, and stay to be freed until it
\* frees them.
InputsStep(p) ==
    /\ pc'[p] \in {"stream", "swap", "freeinputs"} =>
          \/ MergeSelect(p)
          \/ pc[p] \in {"stream", "swap", "freeinputs"} /\ job'[p].inp = job[p].inp
    /\ pc[p] = "freeinputs" =>
          \/ FreeInputs(p)
          \/ pc'[p] = "freeinputs" /\ job'[p].inp = job[p].inp

LEMMA InputsMove ==
    ASSUME UniqueInv, ScanType, Write
    PROVE  \A p \in Procs : InputsStep(p)
  <1>t. /\ pc \in [Procs -> Points] /\ job \in [Procs -> Job] /\ TypeInv
    BY DEF UniqueInv, StoredInv, WriteInv, ListInv, SegmentsInv, TypeInv, TypeOK
  <1>1. ASSUME NEW q \in Procs, \/ \E d \in Docs : HeapInsert(q, d)
                                \/ Vacuum(q) \/ FtsMerge(q)
        PROVE \A p \in Procs : InputsStep(p)
    BY <1>1, <1>t DEF HeapInsert, Vacuum, FtsMerge, Goto, InputsStep, Job
  <1>2. ASSUME NEW q \in Procs, AppendPending(q) \/ TryFlush(q) \/ WriteOversized(q) \/ Tidy(q) \/ Commit(q)
        PROVE \A p \in Procs : InputsStep(p)
    BY <1>2, <1>t DEF AppendPending, TryFlush, WriteOversized, Tidy, Commit, Goto, InputsStep, Job
  <1>3. ASSUME NEW q \in Procs, Lock(q) \/ Fold(q) \/ FreePages(q)
        PROVE \A p \in Procs : InputsStep(p)
    BY <1>3, <1>t DEF Lock, Fold, FreePages, Goto, InputsStep, Job
  <1>4. ASSUME NEW q \in Procs, Seal(q)
        PROVE \A p \in Procs : InputsStep(p)
    BY <1>4, <1>t, SealLocals DEF InputsStep
  <1>5. ASSUME NEW q \in Procs, MakeRoom(q) \/ MergeForRoom(q)
        PROVE \A p \in Procs : InputsStep(p)
    BY <1>5, <1>t DEF MakeRoom, MergeForRoom, Goto, InputsStep, Job
  <1>6. ASSUME NEW q \in Procs, Publish(q)
        PROVE \A p \in Procs : InputsStep(p)
    BY <1>6, <1>t DEF Publish, Goto, InputsStep, Job
  <1>7. ASSUME NEW q \in Procs, Refuse(q)
        PROVE \A p \in Procs : InputsStep(p)
    BY <1>7, <1>t DEF Refuse, Abort, InputsStep
  <1>8. ASSUME NEW q \in Procs, MergeSelect(q) PROVE \A p \in Procs : InputsStep(p)
    <2>1. \A p \in Procs : p # q => pc'[p] = pc[p] /\ job'[p] = job[p]
      BY <1>8, <1>t DEF MergeSelect, Goto
    <2>2. pc[q] = "select" BY <1>8 DEF MergeSelect, Goto
    <2> QED BY <1>8, <2>1, <2>2 DEF InputsStep
  <1>9. ASSUME NEW q \in Procs, MergeStream(q) \/ MergeSwap(q)
        PROVE \A p \in Procs : InputsStep(p)
    BY <1>9, <1>t DEF MergeStream, MergeSwap, Goto, InputsStep, Job
  <1>10. ASSUME NEW q \in Procs, FreeInputs(q) PROVE \A p \in Procs : InputsStep(p)
    <2>1. \A p \in Procs : p # q => pc'[p] = pc[p] /\ job'[p] = job[p]
      BY <1>10, <1>t DEF FreeInputs, Goto
    <2>2. pc'[q] = "select" BY <1>10, <1>t DEF FreeInputs, Goto
    <2> QED BY <1>10, <2>1, <2>2 DEF InputsStep
  <1>11. ASSUME NEW q \in Procs, MergeReturn(q) PROVE \A p \in Procs : InputsStep(p)
    <2>1. \A p \in Procs : p # q => pc'[p] = pc[p] /\ job'[p] = job[p]
      BY <1>11, <1>t DEF MergeReturn, Goto
    <2>2. pc[q] \in {"select", "swap"} /\ pc'[q] \notin {"stream", "swap", "freeinputs"}
      BY <1>11, <1>t DEF MergeReturn, Goto, AfterFlush
    <2> QED BY <2>1, <2>2 DEF InputsStep
  <1>12. ASSUME NEW q \in Procs, BulkSnapshot(q) \/ BulkSegment(q) \/ BulkDone(q) \/ Reclaim(q)
        PROVE \A p \in Procs : InputsStep(p)
    BY <1>12, <1>t DEF BulkSnapshot, BulkSegment, BulkDone, Reclaim, Goto, InputsStep, Job
  <1>13. ASSUME NEW q \in Procs, Unlock(q)
        PROVE \A p \in Procs : InputsStep(p)
    BY <1>13, <1>t DEF Unlock, Goto, InputsStep, IdleJob
  <1>14. ASSUME NEW d \in Docs, Delete(d) PROVE \A p \in Procs : InputsStep(p)
    BY <1>14 DEF Delete, InputsStep
  <1> QED BY <1>1, <1>2, <1>3, <1>4, <1>5, <1>6, <1>7, <1>8, <1>9, <1>10, <1>11, <1>12, <1>13,
             <1>14
          DEF Write, ScanType, Continue, Insert, Flush, AddSegment, Merge, BulkDelete

-----------------------------------------------------------------------------
(* What the recycle gate keeps. *)

LEMMA Gate ==
    ASSUME ScanType, Write
    PROVE  /\ \A i \in Segs : kept'[i] = IF Scanning /\ Frees(i) THEN disk[i].docs ELSE kept[i]
           /\ \A k \in Pages : keptpage'[k] = IF Scanning /\ page'[k] = {} THEN keptpage[k] \cup page[k]
                                               ELSE keptpage[k]
           /\ NotRecycled
  BY DEF Write, KeptAfter

\* Only the inputs of a merge are freed.
LEMMA FreesInput ==
    ASSUME UniqueInv, Next, NEW i \in Segs, Frees(i)
    PROVE  \E p \in Procs : FreeInputs(p) /\ i \in Inputs(p)
  <1>1. disk \in [Segs -> Segment]
    BY DEF UniqueInv, StoredInv, WriteInv, ListInv, SegmentsInv, TypeInv, TypeOK
  <1>2. DiskStep(i) BY DiskMoves
  <1> QED BY <1>1, <1>2 DEF DiskStep, Frees, NoSeg

LEMMA StepKeptApart ==
    ASSUME UniqueInv, ScanType, KeptApart, Write
    PROVE  KeptApart'
  <1>0. Next BY WriteNext
  <1>t. /\ pos \in [Segs -> Nat] /\ job \in [Procs -> Job] /\ Apart
    BY DEF UniqueInv, StoredInv, WriteInv, ListInv, SegmentsInv, TypeInv, TypeOK
  <1> SUFFICES ASSUME NEW i \in Segs, kept'[i] # None
      PROVE  /\ pos'[i] = 0 /\ disk'[i] = NoSeg
             /\ \A p \in Procs : job'[p].out # i /\ job'[p].mout # i
    BY DEF KeptApart
  <1>1. CASE Frees(i)
    <2>1. PICK p \in Procs : FreeInputs(p) /\ i \in Inputs(p) BY <1>0, <1>1, FreesInput
    <2>2. pos' = pos /\ \A q \in Procs : job'[q].out = job[q].out /\ job'[q].mout = job[q].mout
      BY <2>1, <1>t DEF FreeInputs, Job
    <2>3. pos[i] = 0 BY <2>1, <1>t DEF FreeInputs, Goto, Apart, InputsGone
    <2>4. \A q \in Procs : job[q].out # i /\ job[q].mout # i
      BY <2>1, <1>t, NoneAssumption DEF Apart, OutApart, MoutApart, Inputs
    <2> QED BY <1>1, <2>2, <2>3, <2>4 DEF Frees
  <1>2. CASE ~Frees(i)
    <2>1. kept[i] # None BY <1>2, Gate
    <2>2. pos[i] = 0 /\ disk[i] = NoSeg /\ \A p \in Procs : job[p].out # i /\ job[p].mout # i
      BY <2>1 DEF KeptApart
    <2>3. \A p \in Procs : job'[p].out # i /\ job'[p].mout # i
      BY <2>1, <2>2, Gate DEF NotRecycled
    <2>4. disk'[i] = NoSeg
      <3>1. DiskStep(i) BY <1>0, DiskMoves
      <3> QED BY <2>2, <2>3, <3>1 DEF DiskStep, Takes, Dir
    <2>5. pos'[i] = 0
      <3>1. PosStep(i) BY <1>0, PosMoves
      <3> QED BY <2>2, <3>1 DEF PosStep
    <2> QED BY <2>3, <2>4, <2>5
  <1> QED BY <1>1, <1>2

LEMMA StepInputsFull ==
    ASSUME UniqueInv, ScanType, InputsFull, Write
    PROVE  InputsFull'
  <1>0. Next BY WriteNext
  <1>t. /\ pc \in [Procs -> Points] /\ job \in [Procs -> Job] /\ disk \in [Segs -> Segment]
        /\ Apart /\ Exclusion
    BY DEF UniqueInv, StoredInv, WriteInv, ListInv, SegmentsInv, TypeInv, TypeOK
  <1> SUFFICES ASSUME NEW p \in Procs, pc'[p] \in {"stream", "swap", "freeinputs"},
                      NEW i \in Segs, job'[p].inp[i] # None
               PROVE  disk'[i].docs # {}
    BY DEF InputsFull, Inputs
  <1>1. InputsStep(p) BY InputsMove
  <1>2. CASE MergeSelect(p)
    <2>1. PICK S \in SUBSET Candidates :
             job' = [job EXCEPT ![p].inp = [k \in Segs |-> IF k \in S THEN disk[k] ELSE None]]
      BY <1>2 DEF MergeSelect
    <2>2. i \in S BY <2>1, <1>t DEF Job
    <2>3. disk' = disk BY <1>2 DEF MergeSelect, meta
    <2> QED BY <2>2, <2>3 DEF Candidates
  <1>3. CASE /\ pc[p] \in {"stream", "swap", "freeinputs"} /\ job'[p].inp = job[p].inp
             /\ ~MergeSelect(p)
    <2>1. i \in Inputs(p) /\ disk[i].docs # {} BY <1>3 DEF Inputs, InputsFull
    <2>2. i \notin FreeSegs BY <2>1 DEF FreeSegs, Inputs
    <2>3. DiskStep(i) BY <1>0, DiskMoves
    <2>4. ASSUME NEW q \in Procs, FreeInputs(q) PROVE FALSE
      <3>1. pc[q] = "freeinputs" /\ pc'[q] = "select" BY <2>4, <1>t DEF FreeInputs, Goto
      <3>2. q = p BY <3>1, <1>3, <1>t DEF Exclusion, Maintaining
      <3> QED BY <3>1, <3>2
    <2> QED BY <2>1, <2>2, <2>3, <2>4 DEF DiskStep
  <1> QED BY <1>1, <1>2, <1>3 DEF InputsStep

\* A segment the scan has yet to read keeps its postings, wherever it is.
LEMMA PostingsKept ==
    ASSUME UniqueInv, ScanType, Resting, KeptApart, InputsFull, ListedKept, Write, NEW i \in Listed
    PROVE  Postings(i)' = Postings(i)
  <1>0. Next /\ i \in Segs BY WriteNext DEF Listed
  <1>t. disk \in [Segs -> Segment]
    BY DEF UniqueInv, StoredInv, WriteInv, ListInv, SegmentsInv, TypeInv, TypeOK
  <1>1. Scanning BY DEF Listed, Resting, Scanning, NoScan, NoSegs
  <1>2. DiskStep(i) BY <1>0, DiskMoves
  <1>3. CASE kept[i] # None
    <2>1. disk[i] = NoSeg BY <1>0, <1>3 DEF KeptApart
    <2>2. kept'[i] = kept[i] BY <1>0, <2>1, Gate DEF Frees
    <2> QED BY <1>3, <2>2 DEF Postings
  <1>4. CASE kept[i] = None /\ Frees(i)
    <2>1. kept'[i] = disk[i].docs BY <1>0, <1>1, <1>4, Gate
    <2>2. disk[i].docs # None BY <1>0, <1>t, NoSetAssumption DEF Segment
    <2> QED BY <1>4, <2>1, <2>2 DEF Postings
  <1>5. CASE kept[i] = None /\ ~Frees(i)
    <2>1. kept'[i] = None BY <1>0, <1>5, Gate
    <2>2. /\ i \notin FreeSegs
          /\ i \in Dir => pos[i] # 0
          /\ i \in Dir \/ \E p \in Procs : pc[p] = "freeinputs" /\ i \in Inputs(p)
      BY <1>5 DEF ListedKept, FreeSegs, Inputs, Dir
    <2>3. disk'[i].docs = disk[i].docs
      <3>1. ASSUME NEW p \in Procs, FreeInputs(p), i \in Inputs(p) PROVE disk[i].docs # {}
        BY <3>1 DEF FreeInputs, Goto, InputsFull
      <3>2. disk'[i] = NoSeg => disk[i] = NoSeg BY <1>5, <2>2 DEF Frees
      <3> QED BY <1>2, <2>2, <3>1, <3>2 DEF DiskStep, NoSeg
    <2> QED BY <1>5, <2>1, <2>3 DEF Postings
  <1> QED BY <1>3, <1>4, <1>5

LEMMA StepListedKept ==
    ASSUME UniqueInv, ScanType, Resting, KeptApart, InputsFull, ListedKept, Write
    PROVE  ListedKept'
  <1>0. Next BY WriteNext
  <1>t. /\ pc \in [Procs -> Points] /\ job \in [Procs -> Job] /\ disk \in [Segs -> Segment]
        /\ kept \in [Segs -> (SUBSET Docs) \cup {None}]
        /\ pos \in [Segs -> Nat] /\ Apart
    BY DEF UniqueInv, StoredInv, WriteInv, ListInv, SegmentsInv, TypeInv, TypeOK, ScanType
  <1> SUFFICES ASSUME NEW i \in Segs, scan'.dead[i] # None
      PROVE  \/ pos'[i] # 0
             \/ kept'[i] # None
             \/ \E p \in Procs : pc'[p] = "freeinputs" /\ job'[p].inp[i] # None
    BY DEF ListedKept, Listed, Dir, Inputs
  <1>1. i \in Listed BY WriteScan DEF Listed
  <1>2. Scanning BY <1>1 DEF Listed, Resting, Scanning, NoScan, NoSegs
  <1>3. CASE i \in Dir
    <2>1. PosStep(i) BY <1>0, PosMoves
    <2>2. CASE pos'[i] # 0 BY <2>2
    <2>3. CASE pos'[i] = 0
      <3>1. pos[i] # 0 BY <1>3 DEF Dir
      <3>2. \A p \in Procs : i # job[p].out /\ i # job[p].mout
        BY <3>1, <1>t, NoneAssumption DEF Apart, OutApart, MoutApart
      <3>3. PICK p \in Procs : MergeSwap(p) /\ i \in Inputs(p)
        BY <2>1, <2>3, <3>1, <3>2 DEF PosStep
      <3>4. pc'[p] = "freeinputs" /\ job'[p].inp = job[p].inp
        BY <3>3, <1>t DEF MergeSwap, Goto, Job
      <3> QED BY <3>3, <3>4 DEF Inputs
    <2> QED BY <2>2, <2>3
  <1>4. CASE kept[i] # None
    <2>1. disk[i] = NoSeg BY <1>4 DEF KeptApart
    <2> QED BY <1>4, <2>1, Gate DEF Frees
  <1>5. ASSUME NEW p \in Procs, pc[p] = "freeinputs", i \in Inputs(p)
        PROVE  \/ kept'[i] # None
               \/ \E q \in Procs : pc'[q] = "freeinputs" /\ job'[q].inp[i] # None
    <2>1. InputsStep(p) BY InputsMove
    <2>2. CASE FreeInputs(p)
      <3>1. disk'[i] = NoSeg BY <2>2, <1>5 DEF FreeInputs
      <3>2. disk[i].docs # {} BY <1>5 DEF InputsFull
      <3>3. i \notin FreeSegs BY <1>5 DEF FreeSegs, Inputs
      <3>4. Frees(i) BY <3>1, <3>2, <3>3 DEF Frees, NoSeg
      <3>5. kept'[i] = disk[i].docs BY <1>2, <3>4, Gate
      <3>6. disk[i].docs # None BY <1>t, NoSetAssumption DEF Segment
      <3> QED BY <3>5, <3>6
    <2>3. CASE pc'[p] = "freeinputs" /\ job'[p].inp = job[p].inp
      BY <2>3, <1>5 DEF Inputs
    <2> QED BY <2>1, <2>2, <2>3, <1>5 DEF InputsStep
  <1> QED BY <1>1, <1>3, <1>4, <1>5 DEF ListedKept

-----------------------------------------------------------------------------
(* The pending pages. *)

\* A page gains the document of an append, and is emptied by a flush only.
PageStep(k) ==
    /\ \/ page[k] \subseteq page'[k]
       \/ page'[k] = {} /\ \E p \in Procs : FreePages(p) /\ k \in SealedPages(p)
    /\ \A e \in page'[k] \ page[k] : \E p \in Procs : AppendPending(p) /\ e = job[p].doc

\* The list never grows at its front.
HeadStep ==
    /\ top <= top'
    /\ head' # 0 => IF head = 0 THEN head' = top + 1 ELSE head <= head'

LEMMA ListMoves ==
    ASSUME UniqueInv, Next
    PROVE  HeadStep /\ \A k \in Pages : PageStep(k)
  <1>t. /\ page \in [Pages -> SUBSET Docs] /\ head \in Nat /\ top \in Nat /\ tail \in Nat
        /\ TypeInv /\ Control /\ Owners /\ PendingInv
    BY DEF UniqueInv, StoredInv, WriteInv, ListInv, SegmentsInv, TypeInv, TypeOK
  <1>1. ASSUME Quiet PROVE HeadStep /\ \A k \in Pages : PageStep(k)
    BY <1>1, <1>t DEF Quiet, HeadStep, PageStep
  <1>2. ASSUME NEW p \in Procs, NEW d \in Docs, HeapInsert(p, d)
        PROVE HeadStep /\ \A k \in Pages : PageStep(k)
    BY <1>2, <1>t DEF HeapInsert, meta, HeadStep, PageStep
  <1>3. ASSUME NEW p \in Procs, AppendPending(p)
        PROVE HeadStep /\ \A k \in Pages : PageStep(k)
    <2>1. /\ head # 0 => head' = head
          /\ top <= top' /\ (head = 0 => head' = 0 \/ head' = top + 1)
      BY <1>3, <1>t, StepAppend
    <2>2. HeadStep BY <2>1, <1>t DEF HeadStep
    <2>3. \A k \in Pages : page'[k] = page[k] \/ page'[k] = page[k] \cup {job[p].doc}
      <3>1. CASE tail # 0 /\ page' = [page EXCEPT ![tail] = @ \cup {job[p].doc}]
        BY <3>1, <1>t
      <3>2. CASE top < MaxPage /\ page' = [page EXCEPT ![top + 1] = {job[p].doc}]
        <4>1. \A k \in Pages : k = top + 1 => page[k] = {}
          BY <1>t DEF PendingInv, PagesBlank
        <4> DEFINE n == top + 1
        <4>2. page' = [page EXCEPT ![n] = {job[p].doc}] BY <3>2
        <4>3. \A k \in Pages : k = n => page[k] = {} BY <4>1
        <4> HIDE DEF n
        <4> QED BY <4>2, <4>3, <1>t
      <3> QED BY <3>1, <3>2, <1>3 DEF AppendPending
    <2> QED BY <1>3, <2>2, <2>3 DEF PageStep
  <1>4. ASSUME NEW p \in Procs, Seal(p) PROVE HeadStep /\ \A k \in Pages : PageStep(k)
    <2>1. page' = page /\ head' = head BY <1>4, <1>t, SealLocals
    <2>2. top' = top \/ top' = top + 1
      <3>1. CASE npending = 0 BY <1>4, <3>1 DEF Seal, meta
      <3>2. CASE npending # 0 BY <1>4, <3>2 DEF Seal
      <3> QED BY <3>1, <3>2
    <2> QED BY <2>1, <2>2, <1>t DEF HeadStep, PageStep
  <1>5. ASSUME NEW p \in Procs, Publish(p) PROVE HeadStep /\ \A k \in Pages : PageStep(k)
    <2>1. page' = page /\ top' = top BY <1>5 DEF Publish
    <2>2. head' # 0 => head # 0 /\ head <= head'
      <3>1. CASE job[p].op = "oversized" BY <1>5, <3>1, <1>t DEF Publish
      <3>2. CASE job[p].op # "oversized"
        <4>1. Sealed(p) BY <1>5, <3>2 DEF Publish, Goto, Sealed
        <4>2. 1 <= job[p].first /\ job[p].first <= job[p].last /\ head = job[p].first
          BY <4>1, <1>t DEF PendingInv, SealKept
        <4>3. head' = 0 \/ head' = job[p].last + 1 BY <1>5, <1>t, <3>2, StepPublishList
        <4>4. job[p].last \in Nat BY <1>t DEF TypeInv, TypeOK, Job
        <4> QED BY <4>2, <4>3, <4>4, <1>t
      <3> QED BY <3>1, <3>2
    <2> QED BY <2>1, <2>2, <1>t DEF HeadStep, PageStep
  <1>6. ASSUME NEW p \in Procs, FreePages(p) PROVE HeadStep /\ \A k \in Pages : PageStep(k)
    <2>1. /\ page' = [k \in Pages |-> IF k \in SealedPages(p) THEN {} ELSE page[k]]
          /\ head' = head /\ top' = top
      BY <1>6 DEF FreePages
    <2> QED BY <1>6, <2>1, <1>t DEF HeadStep, PageStep
  <1>7. Stores \/ Quiet BY <1>t, StoresOrQuiet
  <1> QED BY <1>1, <1>2, <1>3, <1>4, <1>5, <1>6, <1>7 DEF Stores, OnList

LEMMA StepKeptOff ==
    ASSUME UniqueInv, ScanType, KeptOff, Write
    PROVE  KeptOff'
  <1>0. Next BY WriteNext
  <1>t. /\ head \in Nat /\ top \in Nat /\ head' \in Nat /\ top' \in Nat /\ PendingInv
        /\ job \in [Procs -> Job] /\ page \in [Pages -> SUBSET Docs]
    <2>1. UniqueInv' BY <1>0, StepUniqueInv
    <2> QED BY <2>1 DEF UniqueInv, StoredInv, WriteInv, ListInv, SegmentsInv, TypeInv, TypeOK
  <1> SUFFICES ASSUME NEW k \in Pages, keptpage'[k] # {}
      PROVE  k <= top' /\ (head' # 0 => k < head')
    BY DEF KeptOff, Pages
  <1>k. k \in Nat BY DEF Pages
  <1>1. HeadStep /\ PageStep(k) BY <1>0, ListMoves
  <1>2. k <= top /\ (head # 0 => k < head)
    <2>1. CASE keptpage[k] # {} BY <2>1 DEF KeptOff
    <2>2. CASE keptpage[k] = {}
      <3>1. page[k] # {} /\ page'[k] = {} BY <2>2, Gate
      <3>2. PICK p \in Procs : FreePages(p) /\ k \in SealedPages(p)
        BY <3>1 , <1>1 DEF PageStep
      <3>3. job[p].last < top /\ (head = 0 \/ job[p].last < head)
        BY <3>2, <1>t DEF FreePages, Goto, PendingInv, SealKept
      <3>4. k <= job[p].last /\ job[p].last \in Nat
        BY <3>2, <1>t DEF SealedPages, Job
      <3> QED BY <3>3, <3>4, <1>k, <1>t
    <2> QED BY <2>1, <2>2
  <1> QED BY <1>1, <1>2, <1>k, <1>t DEF HeadStep

LEMMA InWalk ==
    ASSUME NEW d
    PROVE  d \in PendingWalk <=>
             d \in Docs \ Blank /\ \E k \in Pages : scan.head # 0 /\ k >= scan.head
                                            /\ d \in page[k] \cup keptpage[k]
  BY DEF PendingWalk

\* The walk along the pending pages loses nothing, and what is added to it is
\* the document of an append.
LEMMA WalkKept ==
    ASSUME UniqueInv, ScanType, Write, Scanning
    PROVE  /\ PendingWalk \subseteq PendingWalk'
           /\ \A e \in PendingWalk' \ PendingWalk :
                 \E p \in Procs : AppendPending(p) /\ e = job[p].doc
  <1>0. Next BY WriteNext
  <1>1. scan'.head = scan.head BY WriteScan
  <1>2. \A k \in Pages : /\ page[k] \cup keptpage[k] \subseteq page'[k] \cup keptpage'[k]
                         /\ page'[k] \cup keptpage'[k] \subseteq page[k] \cup keptpage[k] \cup page'[k]
                         /\ PageStep(k)
    <2> SUFFICES ASSUME NEW k \in Pages
                 PROVE  /\ page[k] \cup keptpage[k] \subseteq page'[k] \cup keptpage'[k]
                        /\ page'[k] \cup keptpage'[k] \subseteq page[k] \cup keptpage[k] \cup page'[k]
                        /\ PageStep(k)
      OBVIOUS
    <2>1. PageStep(k) BY <1>0, ListMoves
    <2>2. keptpage'[k] = IF page'[k] = {} THEN keptpage[k] \cup page[k] ELSE keptpage[k] BY Gate
    <2>3. page[k] \subseteq page'[k] \/ page'[k] = {} BY <2>1 DEF PageStep
    <2> QED BY <2>1, <2>2, <2>3
  <1>3. ASSUME NEW e
        PROVE  e \in PendingWalk' <=>
                 e \in Docs \ Blank /\ \E k \in Pages : scan.head # 0 /\ k >= scan.head
                                                /\ e \in page'[k] \cup keptpage'[k]
    BY <1>1 DEF PendingWalk, Pages
  <1>5. PendingWalk \subseteq PendingWalk'
    <2> SUFFICES ASSUME NEW e \in PendingWalk PROVE e \in PendingWalk' OBVIOUS
    <2>1. PICK k \in Pages : scan.head # 0 /\ k >= scan.head /\ e \in page[k] \cup keptpage[k]
      BY InWalk
    <2>2. e \in page'[k] \cup keptpage'[k] BY <1>2, <2>1
    <2> QED BY <1>3, <2>1, <2>2, InWalk
  <1>6. ASSUME NEW e \in PendingWalk', e \notin PendingWalk
        PROVE  \E p \in Procs : AppendPending(p) /\ e = job[p].doc
    <2>1. e \in Docs \ Blank BY <1>3, <1>6
    <2>2. PICK k \in Pages : scan.head # 0 /\ k >= scan.head /\ e \in page'[k] \cup keptpage'[k]
      BY <1>3, <1>6
    <2>3. e \notin page[k] \cup keptpage[k] BY <1>6, <2>1, <2>2, InWalk
    <2>4. e \in page'[k] \ page[k] BY <1>2, <2>2, <2>3
    <2>5. PageStep(k) BY <1>2
    <2> QED BY <2>4, <2>5 DEF PageStep
  <1> QED BY <1>5, <1>6

\* ... which no row of the snapshot is, nor at the slot of one.
LEMMA AppendedApart ==
    ASSUME UniqueInv, ScanType, SnapLive, NEW p \in Procs, AppendPending(p)
    PROVE  TidOf[job[p].doc] \notin TidsOf(scan.snap)
  <1>0. Owners /\ Control
    BY DEF UniqueInv, StoredInv, WriteInv, ListInv, SegmentsInv
  <1>1. job[p].doc \in Docs /\ heap[job[p].doc] = "inserting"
    BY <1>0 DEF AppendPending, Goto, Control, OpAt, Storing, Owners, DocOwned
  <1>2. \A d \in scan.snap : heap[d] = "live" BY DEF SnapLive
  <1> QED BY <1>1, <1>2, SnapSlots DEF TidsOf, Present

-----------------------------------------------------------------------------
(* A write does not change what the scan still has to read. *)

LEMMA StepReading ==
    ASSUME UniqueInv, ScanType, Resting, SnapLive, Kept, Reading, Write
    PROVE  Reading'
  <1>0. KeptApart /\ KeptOff /\ InputsFull /\ ListedKept BY DEF Kept
  <1>s. /\ scan'.pc = scan.pc /\ scan'.snap = scan.snap /\ scan'.dead = scan.dead
        /\ scan'.found = scan.found
    BY WriteScan
  <1>a. Answer' = Answer BY <1>s DEF Answer
  <1>1. CASE scan.pc = "segs"
    <2>1. Scanning BY <1>1 DEF Scanning
    <2>2. Listed' = Listed BY <1>s DEF Listed
    <2>3. \A i \in Listed : Entries(i)' = Entries(i)
      <3> SUFFICES ASSUME NEW i \in Listed PROVE Entries(i)' = Entries(i) OBVIOUS
      <3>1. Postings(i)' = Postings(i) BY <1>0, PostingsKept
      <3> QED BY <3>1, <1>s DEF Entries
    <2>4. PendingWalk \subseteq PendingWalk' BY <2>1, WalkKept
    <2>5. SegsComplete'
      <3>1. \A d \in scan.snap \ Blank : d \in PendingWalk \/ \E i \in Listed : d \in Entries(i)
        BY <1>1 DEF Reading, SegsComplete
      <3>2. \A i \in Listed : \A e \in Entries(i) :
              e \in Docs /\ (TidOf[e] \in TidsOf(scan.snap) => e \in scan.snap \ Blank)
        BY <1>1 DEF Reading, SegsComplete
      <3>3. \A d \in scan'.snap \ Blank : d \in PendingWalk' \/ \E i \in Listed' : d \in Entries(i)'
        BY <3>1, <1>s, <2>2, <2>3, <2>4
      <3>4. \A i \in Listed' : \A e \in Entries(i)' :
              e \in Docs /\ (TidOf[e] \in TidsOf(scan'.snap) => e \in scan'.snap \ Blank)
        BY <3>2, <1>s, <2>2, <2>3
      <3> QED BY <3>3, <3>4 DEF SegsComplete, TidsOf
    <2>6. FoundPending' /\ FoundAll' /\ FoundSound'
      BY <1>1, <1>s DEF FoundPending, FoundAll, FoundSound
    <2>7. WalkSound'
      <3>1. \A e \in PendingWalk' : TidOf[e] \in TidsOf(scan.snap) => e \in scan.snap
        BY <1>1, <2>1, WalkKept, AppendedApart DEF Reading, WalkSound
      <3> QED BY <3>1, <1>s DEF WalkSound, TidsOf
    <2> QED BY <2>5, <2>6, <2>7 DEF Reading
  <1>2. CASE scan.pc = "pending"
    <2>1. Scanning BY <1>2 DEF Scanning
    <2>2. PendingWalk \subseteq PendingWalk' BY <2>1, WalkKept
    <2>3. WalkSound'
      <3>1. \A e \in PendingWalk' : TidOf[e] \in TidsOf(scan.snap) => e \in scan.snap
        BY <1>2, <2>1, WalkKept, AppendedApart DEF Reading, WalkSound
      <3> QED BY <3>1, <1>s DEF WalkSound, TidsOf
    <2>4. FoundPending' BY <1>2, <1>s, <2>2 DEF Reading, FoundPending
    <2>5. FoundSound'
      BY <1>s, <1>a, <1>2 DEF Reading, FoundSound, TidsOf
    <2>6. SegsComplete' /\ FoundAll' BY <1>2, <1>s DEF SegsComplete, FoundAll
    <2> QED BY <2>3, <2>4, <2>5, <2>6 DEF Reading
  <1>3. CASE scan.pc \notin {"segs", "pending"}
    <2>1. SegsComplete' /\ WalkSound' /\ FoundPending'
      BY <1>3, <1>s DEF SegsComplete, WalkSound, FoundPending
    <2>2. FoundAll' /\ FoundSound'
      BY <1>s, <1>a DEF Reading, FoundAll, FoundSound, TidsOf
    <2> QED BY <2>1, <2>2 DEF Reading
  <1> QED BY <1>1, <1>2, <1>3

\* As long as the generation stands, so do the segments.
LEMMA SegDocsSame ==
    ASSUME UniqueInv, Next, ~Bumped
    PROVE  /\ Dir' = Dir /\ SegDocs' = SegDocs
           /\ \A i \in Dir : disk'[i].dead = disk[i].dead
  <1>t. /\ disk \in [Segs -> Segment] /\ disk' \in [Segs -> Segment] /\ Apart
    <2>1. UniqueInv' BY StepUniqueInv
    <2> QED BY <2>1 DEF UniqueInv, StoredInv, WriteInv, ListInv, SegmentsInv, TypeInv, TypeOK
  <1>1. pos' = pos /\ \A i \in Dir : disk'[i].dead = disk[i].dead BY DEF Bumped
  <1>2. Dir' = Dir BY <1>1 DEF Dir
  <1>3. \A i \in Dir : disk'[i].docs = disk[i].docs
    <2> SUFFICES ASSUME NEW i \in Dir PROVE disk'[i].docs = disk[i].docs OBVIOUS
    <2>0. i \in Segs /\ pos[i] # 0 BY DEF Dir
    <2>1. DiskStep(i) BY <2>0, DiskMoves
    <2>2. i \notin FreeSegs BY <2>0 DEF FreeSegs
    <2>3. \A p \in Procs : FreeInputs(p) => i \notin Inputs(p)
      BY <2>0, <1>t DEF FreeInputs, Goto, Apart, InputsGone
    <2> QED BY <2>1, <2>2, <2>3 DEF DiskStep
  <1>4. \A i \in Dir : LiveDocs(disk[i])' = LiveDocs(disk[i]) BY <1>1, <1>3 DEF LiveDocs
  <1>5. SegDocs' = SegDocs BY <1>2, <1>4 DEF SegDocs
  <1> QED BY <1>1, <1>2, <1>5

LEMMA StepFastRead ==
    ASSUME UniqueInv, ScanType, FastRead, Write
    PROVE  FastRead'
  <1>0. Next BY WriteNext
  <1>s. /\ scan'.pc = scan.pc /\ scan'.snap = scan.snap /\ scan'.dead = scan.dead
        /\ scan'.count = scan.count /\ (~scan'.moved => ~scan.moved /\ (Scanning => ~Bumped))
    BY WriteScan
  <1> SUFFICES ASSUME scan.pc \in {"fastdf", "fastvm", "fastgen"}, ~scan'.moved PROVE FastRead'
    BY <1>s DEF FastRead
  <1>1. ~Bumped /\ ~scan.moved BY <1>s DEF Scanning
  <1>2. /\ Dir' = Dir /\ SegDocs' = SegDocs /\ \A i \in Dir : disk'[i].dead = disk[i].dead
    BY <1>0, <1>1, SegDocsSame
  <1>3. Listed' = Listed BY <1>s DEF Listed
  <1>4. /\ Listed = Dir /\ \A i \in Dir : disk[i].dead = {}
        /\ scan.snap \ Blank \subseteq SegDocs
        /\ scan.pc \in {"fastvm", "fastgen"} => scan.count = Cardinality(SegDocs)
        /\ scan.pc = "fastgen" => SegDocs \subseteq scan.snap
    BY <1>1 DEF FastRead
  <1>5. Listed' = Dir' /\ \A i \in Dir' : disk'[i].dead = {} BY <1>2, <1>3, <1>4
  <1>6. scan'.snap \ Blank \subseteq SegDocs' BY <1>2, <1>4, <1>s
  <1>7. scan'.pc \in {"fastvm", "fastgen"} => scan'.count = Cardinality(SegDocs') BY <1>2, <1>4, <1>s
  <1>8. scan'.pc = "fastgen" => SegDocs' \subseteq scan'.snap BY <1>2, <1>4, <1>s
  <1> QED BY <1>5, <1>6, <1>7, <1>8 DEF FastRead

LEMMA StepScanType ==
    ASSUME UniqueInv, ScanType, Write
    PROVE  ScanType'
  <1>t. disk \in [Segs -> Segment] /\ page \in [Pages -> SUBSET Docs]
    BY DEF UniqueInv, StoredInv, WriteInv, ListInv, SegmentsInv, TypeInv, TypeOK
  <1> DEFINE m == scan.moved \/ (Scanning /\ Bumped)
  <1>1. scan' = [scan EXCEPT !.moved = m] /\ m \in BOOLEAN BY DEF Write, Scanning, Bumped, ScanType
  <1> HIDE DEF m
  <1>2. scan' \in [pc : ScanPoints, kind : {"none", "count", "fetch"}, snap : SUBSET Docs,
                 head : Nat, dead : [Segs -> (SUBSET Tids) \cup {None}], moved : BOOLEAN,
                 tries : Nat, found : SUBSET Tids, todo : SUBSET HeapPages,
                 seen : SUBSET Tids, count : Nat]
    BY <1>1 DEF ScanType
  <1>3. recent' \in SUBSET Docs BY DEF Write, ScanType
  <1>4. kept' \in [Segs -> (SUBSET Docs) \cup {None}]
    <2>1. kept' = [i \in Segs |-> KeptAfter(i)] BY DEF Write
    <2>2. \A i \in Segs : KeptAfter(i) \in (SUBSET Docs) \cup {None}
      BY <1>t DEF KeptAfter, ScanType, Segment
    <2> QED BY <2>1, <2>2
  <1>5. keptpage' \in [Pages -> SUBSET Docs]
    <2>1. keptpage' = [k \in Pages |-> IF Scanning /\ page'[k] = {} THEN keptpage[k] \cup page[k]
                                    ELSE keptpage[k]]
      BY DEF Write
    <2>2. \A k \in Pages : page[k] \subseteq Docs /\ keptpage[k] \subseteq Docs BY <1>t DEF ScanType
    <2> QED BY <2>1, <2>2
  <1>6. Pages' = Pages /\ HeapPages' = HeapPages BY DEF Pages, HeapPages
  <1> QED BY <1>2, <1>3, <1>4, <1>5, <1>6 DEF ScanType

LEMMA StepWrite ==
    ASSUME ScanInv, Write
    PROVE  ScanInv'
  <1>0. /\ UniqueInv /\ ScanType /\ Resting /\ SnapLive /\ VisibleToAll /\ Kept /\ Reading
        /\ Probing /\ FastRead /\ FastCountExact
    BY DEF ScanInv
  <1>s. /\ scan'.pc = scan.pc /\ scan'.kind = scan.kind /\ scan'.snap = scan.snap
        /\ scan'.found = scan.found /\ scan'.todo = scan.todo /\ scan'.seen = scan.seen
        /\ scan'.count = scan.count
    BY <1>0, WriteScan
  <1>a. Answer' = Answer BY <1>s DEF Answer
  <1>1. UniqueInv' BY <1>0, WriteNext, StepUniqueInv
  <1>2. ScanType' BY <1>0, StepScanType
  <1>3. SnapLive' /\ VisibleToAll' BY <1>0, StepSnapLive, StepVisibleToAll
  <1>4. Kept' BY <1>0, StepKeptApart, StepKeptOff, StepInputsFull, StepListedKept DEF Kept
  <1>5. Reading' BY <1>0, StepReading
  <1>6. Probing'
    <2>1. SeenAll' BY <1>0, <1>s, <1>a DEF Probing, SeenAll
    <2>2. SeenSound' /\ SeenLater' /\ DoneAt'
      BY <1>0, <1>s, <1>a DEF Probing, SeenSound, SeenLater, DoneAt
    <2> QED BY <2>1, <2>2 DEF Probing
  <1>7. FastRead' BY <1>0, StepFastRead
  <1>8. FastCountExact' BY <1>0, <1>s, <1>a DEF FastCountExact
  <1>9. Resting'
    <2> SUFFICES ASSUME scan'.pc = "idle" PROVE scan' = NoScan BY DEF Resting, NoScan
    <2>1. scan = NoScan /\ ~Scanning BY <1>0, <1>s DEF Resting, Scanning
    <2>2. scan' = [scan EXCEPT !.moved = FALSE]
      BY <2>1 DEF Write, NoScan
    <2> QED BY <2>1, <2>2 DEF NoScan
  <1> QED BY <1>1, <1>2, <1>3, <1>4, <1>5, <1>6, <1>7, <1>8, <1>9 DEF ScanInv

-----------------------------------------------------------------------------
(* The steps of the scan itself. *)

ScanRecord ==
    [pc : ScanPoints, kind : {"none", "count", "fetch"}, snap : SUBSET Docs,
     head : Nat, dead : [Segs -> (SUBSET Tids) \cup {None}], moved : BOOLEAN,
     tries : Nat, found : SUBSET Tids, todo : SUBSET HeapPages,
     seen : SUBSET Tids, count : Nat]

\* They write nothing.
LEMMA ScanWritesNothing ==
    ASSUME ScanInv, UNCHANGED <<vars, recent, allvis, kept, keptpage>>
    PROVE  /\ UniqueInv' /\ KeptApart' /\ KeptOff' /\ InputsFull'
           /\ heap' = heap /\ page' = page /\ Dir' = Dir /\ SegDocs' = SegDocs
           /\ \A i \in Segs : Postings(i)' = Postings(i) /\ disk'[i] = disk[i]
           /\ scan' \in ScanRecord => ScanType'
  <1>1. UniqueInv' BY StepUniqueInv DEF ScanInv
  <1>2. UNCHANGED <<heap, pos, disk, page, head, tail, npending, top, mutex, pc, job>>
    BY DEF vars, meta
  <1>3. KeptApart' /\ KeptOff' /\ InputsFull'
    BY <1>2 DEF ScanInv, Kept, KeptApart, KeptOff, InputsFull, Pages, Inputs
  <1>4. Dir' = Dir /\ SegDocs' = SegDocs BY <1>2 DEF Dir, SegDocs, LiveDocs
  <1>5. \A i \in Segs : Postings(i)' = Postings(i) /\ disk'[i] = disk[i] BY <1>2 DEF Postings
  <1>6. scan' \in ScanRecord => ScanType'
    BY DEF ScanInv, ScanType, ScanRecord, Pages, HeapPages
  <1> QED BY <1>1, <1>2, <1>3, <1>4, <1>5, <1>6

\* They keep the snapshot, and most of them the copy of the metapage.
LEMMA Onward ==
    ASSUME ScanInv, NEW a, a # "idle", At(a), scan' \in ScanRecord, scan'.pc # "idle",
           scan'.snap = scan.snap
    PROVE  /\ UniqueInv' /\ ScanType' /\ Resting' /\ SnapLive' /\ VisibleToAll' /\ Answer' = Answer
           /\ scan'.dead = scan.dead => Kept'
           /\ scan'.dead = scan.dead =>
                 Listed' = Listed /\ \A i \in Listed : Entries(i)' = Entries(i)
           /\ scan'.head = scan.head => PendingWalk' = PendingWalk
  <1>1. UNCHANGED <<vars, recent, allvis, kept, keptpage>> /\ scan.pc = a BY DEF At
  <1>2. /\ UniqueInv' /\ KeptApart' /\ KeptOff' /\ InputsFull' /\ ScanType'
        /\ heap' = heap /\ page' = page /\ Dir' = Dir
        /\ \A i \in Segs : Postings(i)' = Postings(i)
    BY <1>1, ScanWritesNothing
  <1>3. Resting' BY DEF Resting
  <1>4. SnapLive' /\ VisibleToAll'
    BY <1>1, <1>2 DEF ScanInv, SnapLive, VisibleToAll, HeapPageOfDoc, Scanning
  <1>5. Answer' = Answer BY DEF Answer
  <1>6. ASSUME scan'.dead = scan.dead
        PROVE  Kept' /\ Listed' = Listed /\ \A i \in Listed : Entries(i)' = Entries(i)
    <2>1. Listed' = Listed BY <1>6 DEF Listed
    <2>2. pc' = pc /\ job' = job BY <1>1 DEF vars
    <2>3. ListedKept'
      BY <2>1, <2>2, <1>1, <1>2 DEF ScanInv, Kept, ListedKept, Inputs
    <2>4. \A i \in Listed : Entries(i)' = Entries(i) BY <1>2, <1>6 DEF Entries, Listed
    <2> QED BY <1>2, <2>1, <2>3, <2>4 DEF Kept
  <1>7. ASSUME scan'.head = scan.head PROVE PendingWalk' = PendingWalk
    BY <1>1, <1>2, <1>7 DEF PendingWalk, Pages
  <1> QED BY <1>2, <1>3, <1>4, <1>5, <1>6, <1>7

LEMMA ScanTyped == ScanInv => scan \in ScanRecord
  BY DEF ScanInv, ScanType, ScanRecord

\* An index without a pending list and tombstones, and one with them: what the
\* metapage says is where the snapshot's rows are.
LEMMA SnapIndexed ==
    ASSUME ScanInv
    PROVE  \A d \in scan.snap \ Blank : d \in Docs \ Blank /\ (d \in PendingDocs \/ d \in SegDocs)
  <1> SUFFICES ASSUME NEW d \in scan.snap, d \notin Blank
      PROVE  d \in Docs \ Blank /\ (d \in PendingDocs \/ d \in SegDocs)
    OBVIOUS
  <1>1. heap[d] = "live" /\ d \in Docs BY DEF ScanInv, SnapLive, ScanType
  <1>2. d \in Indexed BY <1>1 DEF ScanInv, UniqueInv, StoredInv, Placed
  <1> QED BY <1>1, <1>2, InIndexed

\* A document an index page holds, at the slot of a row of the snapshot, is
\* that row.
LEMMA IndexedSnap ==
    ASSUME ScanInv, NEW e, e \in Docs \ Blank, e \in PendingDocs \/ e \in SegDocs,
           TidOf[e] \in TidsOf(scan.snap)
    PROVE  e \in scan.snap
  <1>1. e \in Indexed BY InIndexed
  <1>2. Present(e) BY <1>1 DEF ScanInv, UniqueInv, StoredInv, IndexedKnown
  <1>3. PICK d \in scan.snap : TidOf[e] = TidOf[d] BY DEF TidsOf
  <1>4. e = d BY <1>2, <1>3, SnapSlots DEF ScanInv
  <1> QED BY <1>4

\* A segment in the directory is read where it is.
LEMMA DirPostings ==
    ASSUME ScanInv, NEW i \in Dir
    PROVE  /\ kept[i] = None /\ Postings(i) = disk[i].docs
           /\ disk[i].dead \in SUBSET Tids /\ disk[i].dead # None
  <1>1. disk \in [Segs -> Segment] /\ i \in Segs /\ pos[i] # 0
    BY DEF ScanInv, UniqueInv, StoredInv, WriteInv, ListInv, SegmentsInv, TypeInv, TypeOK, Dir
  <1>2. kept[i] = None BY <1>1 DEF ScanInv, Kept, KeptApart
  <1> QED BY <1>1, <1>2, NoSetAssumption DEF Postings, Segment

LEMMA DescriptorsDir ==
    ASSUME ScanInv
    PROVE  /\ Descriptors \in [Segs -> (SUBSET Tids) \cup {None}]
           /\ \A i \in Segs : Descriptors[i] # None <=> i \in Dir
           /\ \A i \in Dir : Descriptors[i] = disk[i].dead
  <1>1. \A i \in Dir : disk[i].dead \in SUBSET Tids /\ disk[i].dead # None BY DirPostings
  <1>2. \A i \in Dir : i \in Segs BY DEF Dir
  <1> QED BY <1>1, <1>2 DEF Descriptors

LEMMA StepBegin ==
    ASSUME ScanInv, NEW k \in {"count", "fetch"}, Begin(k)
    PROVE  ScanInv'
  <1> DEFINE a == IF k = "count" THEN "fastmeta" ELSE "meta"
             S == {d \in Docs : heap[d] = "live" /\ d \notin recent}
  <1>1. scan' = [NoScan EXCEPT !.pc = a, !.kind = k, !.snap = S] BY DEF Begin
  <1>2. a \in {"fastmeta", "meta"} /\ S \in SUBSET Docs OBVIOUS
  <1>3. \A d \in S : heap[d] = "live" OBVIOUS
  <1>4. \A d \in Docs : heap[d] = "live" /\ d \notin recent => d \in S OBVIOUS
  <1> HIDE DEF a, S
  <1>5. UNCHANGED <<vars, recent, allvis, kept, keptpage>> BY DEF Begin, At
  <1>6. /\ scan'.pc = a /\ scan'.kind = k /\ scan'.snap = S /\ scan'.dead = NoSegs
        /\ scan'.seen = {} /\ scan' \in ScanRecord
    BY <1>1, <1>2 DEF NoScan, ScanRecord, ScanPoints, NoSegs
  <1>7. UniqueInv' /\ KeptApart' /\ KeptOff' /\ InputsFull' /\ ScanType' /\ heap' = heap
    BY <1>5, <1>6, ScanWritesNothing
  <1>8. Resting' BY <1>2, <1>6 DEF Resting
  <1>9. SnapLive' BY <1>3, <1>6, <1>7 DEF SnapLive
  <1>10. VisibleToAll'
    BY <1>4, <1>5, <1>6, <1>7 DEF ScanInv, VisibleToAll, HeapPageOfDoc
  <1>11. Listed' = {} BY <1>6 DEF Listed, NoSegs
  <1>12. Kept' BY <1>7, <1>11 DEF Kept, ListedKept
  <1>13. Reading' BY <1>2, <1>6 DEF Reading, SegsComplete, WalkSound, FoundPending, FoundAll, FoundSound
  <1>14. Probing' BY <1>2, <1>6 DEF Probing, SeenAll, SeenSound, SeenLater, DoneAt
  <1>15. FastRead' /\ FastCountExact' BY <1>2, <1>6 DEF FastRead, FastCountExact
  <1> QED BY <1>7, <1>8, <1>9, <1>10, <1>12, <1>13, <1>14, <1>15 DEF ScanInv

LEMMA StepReadMeta ==
    ASSUME ScanInv, ReadMeta
    PROVE  ScanInv'
  <1>1. /\ scan' = [scan EXCEPT !.pc = "segs", !.dead = Descriptors, !.head = head,
                                !.moved = FALSE, !.found = {}]
        /\ At("meta") /\ scan.pc = "meta"
    BY DEF ReadMeta, At
  <1>2. Descriptors \in [Segs -> (SUBSET Tids) \cup {None}] BY DescriptorsDir
  <1>h. head \in Nat
    BY DEF ScanInv, UniqueInv, StoredInv, WriteInv, ListInv, SegmentsInv, TypeInv, TypeOK
  <1>3. /\ scan' \in ScanRecord /\ scan'.pc = "segs" /\ scan'.snap = scan.snap
        /\ scan'.dead = Descriptors /\ scan'.head = head /\ scan'.seen = scan.seen
    BY <1>1, <1>2, <1>h, ScanTyped DEF ScanRecord, ScanPoints
  <1>4. UniqueInv' /\ ScanType' /\ Resting' /\ SnapLive' /\ VisibleToAll' /\ Answer' = Answer
    BY <1>1, <1>3, Onward
  <1>5. /\ KeptApart' /\ KeptOff' /\ InputsFull' /\ Dir' = Dir /\ page' = page
        /\ \A i \in Segs : Postings(i)' = Postings(i)
        /\ keptpage' = keptpage
    BY <1>1, ScanWritesNothing DEF At
  <1>6. Listed' = Dir BY <1>3, DescriptorsDir DEF Listed, Dir
  <1>7. Kept' BY <1>5, <1>6 DEF Kept, ListedKept
  <1>8. \A i \in Dir : Entries(i)' = LiveDocs(disk[i])
    <2> SUFFICES ASSUME NEW i \in Dir PROVE Entries(i)' = LiveDocs(disk[i]) OBVIOUS
    <2>1. i \in Segs BY DEF Dir
    <2>2. Postings(i)' = disk[i].docs BY <1>5, <2>1, DirPostings
    <2>3. scan'.dead[i] = disk[i].dead BY <1>3, DescriptorsDir
    <2> QED BY <2>2, <2>3 DEF Entries, LiveDocs
  <1>9. \A d \in Docs \ Blank : d \in PendingDocs <=> d \in PendingWalk'
    <2> SUFFICES ASSUME NEW d \in Docs \ Blank
                 PROVE  d \in PendingDocs <=> d \in PendingWalk'
      OBVIOUS
    <2>1. d \in PendingDocs <=> \E k \in Pages : head # 0 /\ k >= head /\ d \in page[k]
      BY InPending
    <2>2. d \in PendingWalk' <=> \E k \in Pages : head # 0 /\ k >= head
                                                  /\ d \in page[k] \cup keptpage[k]
      BY <1>3, <1>5 DEF PendingWalk, Pages
    <2>3. \A k \in Pages : head # 0 /\ k >= head => keptpage[k] = {}
      <3>1. \A k \in Pages : keptpage[k] # {} /\ head # 0 => k < head
        BY DEF ScanInv, Kept, KeptOff
      <3> QED BY <3>1, <1>h DEF Pages
    <2> QED BY <2>1, <2>2, <2>3
  <1>10. SegsComplete'
    <2>1. \A d \in scan.snap \ Blank : d \in PendingWalk' \/ \E i \in Dir : d \in Entries(i)'
      <3> SUFFICES ASSUME NEW d \in scan.snap \ Blank, d \notin PendingWalk'
                   PROVE  \E i \in Dir : d \in Entries(i)'
        OBVIOUS
      <3>1. d \in SegDocs BY <1>9, SnapIndexed
      <3>2. PICK i \in Dir : d \in LiveDocs(disk[i]) BY <3>1 DEF SegDocs
      <3> QED BY <1>8, <3>2
    <2>2. ASSUME NEW i \in Dir, NEW e \in Entries(i)'
          PROVE  e \in Docs /\ (TidOf[e] \in TidsOf(scan.snap) => e \in scan.snap \ Blank)
      <3>1. e \in SegDocs BY <1>8, <2>2 DEF SegDocs
      <3>2. e \in Docs \ Blank BY <3>1 DEF ScanInv, UniqueInv, NoBlankSegs
      <3> QED BY <3>1, <3>2, IndexedSnap
    <2>3. \A i \in Dir : \A e \in Entries(i)' :
              e \in Docs /\ (TidOf[e] \in TidsOf(scan.snap) => e \in scan.snap \ Blank)
      BY <2>2
    <2> QED BY <1>3, <1>6, <2>1, <2>3 DEF SegsComplete, TidsOf
  <1>11. WalkSound'
    <2>1. \A e \in PendingWalk' : e \in Docs \ Blank BY DEF PendingWalk
    <2>2. \A e \in PendingWalk' : TidOf[e] \in TidsOf(scan.snap) => e \in scan.snap
      BY <1>9, <2>1, IndexedSnap
    <2> QED BY <1>3, <2>2 DEF WalkSound, TidsOf
  <1>12. FoundPending' /\ FoundAll' /\ FoundSound'
    BY <1>3 DEF FoundPending, FoundAll, FoundSound
  <1>13. Probing'
    <2>1. scan.seen = {} BY <1>1 DEF ScanInv, Probing, SeenLater
    <2> QED BY <1>3, <2>1 DEF Probing, SeenAll, SeenSound, SeenLater, DoneAt
  <1>14. FastRead' /\ FastCountExact' BY <1>3 DEF FastRead, FastCountExact
  <1> QED BY <1>4, <1>7, <1>10, <1>11, <1>12, <1>13, <1>14 DEF ScanInv, Reading

LEMMA StepReadSegments ==
    ASSUME ScanInv, ReadSegments
    PROVE  ScanInv'
  <1> DEFINE F == UNION {TidsOf(Postings(i)) \ scan.dead[i] : i \in Listed}
  <1>1. scan' = [scan EXCEPT !.pc = "pending", !.found = F] /\ At("segs") /\ scan.pc = "segs"
    BY DEF ReadSegments, At
  <1>2. \A t : t \in F <=> \E i \in Listed : \E e \in Postings(i) : t = TidOf[e] /\ t \notin scan.dead[i]
    <2> DEFINE T(i) == TidsOf(Postings(i)) \ scan.dead[i]
    <2>1. \A t : \A i \in Listed :
             t \in T(i) <=> \E e \in Postings(i) : t = TidOf[e] /\ t \notin scan.dead[i]
      BY DEF TidsOf
    <2> HIDE DEF T
    <2>2. \A t : t \in UNION {T(i) : i \in Listed} <=> \E i \in Listed : t \in T(i) OBVIOUS
    <2>3. \A t : t \in UNION {T(i) : i \in Listed} <=>
             \E i \in Listed : \E e \in Postings(i) : t = TidOf[e] /\ t \notin scan.dead[i]
      BY <2>1, <2>2
    <2> QED BY <2>3 DEF T
  <1> HIDE DEF F
  <1>3. \A t : t \in F <=> \E i \in Listed : \E e \in Entries(i) : t = TidOf[e]
    BY <1>2 DEF Entries
  <1>4. SegsComplete /\ WalkSound BY DEF ScanInv, Reading
  <1>5. F \in SUBSET Tids
    BY <1>1, <1>3, <1>4, DocsAssumption DEF SegsComplete
  <1>6. /\ scan' \in ScanRecord /\ scan'.pc = "pending" /\ scan'.snap = scan.snap
        /\ scan'.dead = scan.dead /\ scan'.head = scan.head /\ scan'.found = F
        /\ scan'.seen = scan.seen
    BY <1>1, <1>5, ScanTyped DEF ScanRecord, ScanPoints
  <1>7. /\ UniqueInv' /\ ScanType' /\ Resting' /\ SnapLive' /\ VisibleToAll' /\ Answer' = Answer
        /\ Kept' /\ PendingWalk' = PendingWalk
    BY <1>1, <1>6, Onward
  <1>8. FoundPending'
    <2>1. \A d \in scan.snap \ Blank : d \in PendingWalk \/ TidOf[d] \in F
      BY <1>1, <1>3, <1>4 DEF SegsComplete
    <2> QED BY <2>1, <1>6, <1>7 DEF FoundPending
  <1>9. FoundSound'
    <2> SUFFICES ASSUME NEW t \in F, t \in TidsOf(scan.snap) PROVE t \in Answer
      BY <1>6, <1>7 DEF FoundSound, TidsOf
    <2>1. PICK i \in Listed : \E e \in Entries(i) : t = TidOf[e] BY <1>3
    <2>2. PICK e \in Entries(i) : t = TidOf[e] BY <2>1
    <2>3. e \in scan.snap \ Blank BY <1>1, <1>4, <2>2 DEF SegsComplete
    <2> QED BY <2>2, <2>3 DEF Answer, TidsOf
  <1>10. WalkSound'
    BY <1>1, <1>4, <1>6, <1>7 DEF WalkSound, TidsOf
  <1>11. SegsComplete' /\ FoundAll' BY <1>6 DEF SegsComplete, FoundAll
  <1>12. Probing'
    <2>1. scan.seen = {} BY <1>1 DEF ScanInv, Probing, SeenLater
    <2> QED BY <1>6, <2>1 DEF Probing, SeenAll, SeenSound, SeenLater, DoneAt
  <1>13. FastRead' /\ FastCountExact' BY <1>6 DEF FastRead, FastCountExact
  <1> QED BY <1>7, <1>8, <1>9, <1>10, <1>11, <1>12, <1>13 DEF ScanInv, Reading

LEMMA StepReadPending ==
    ASSUME ScanInv, ReadPending
    PROVE  ScanInv'
  <1> DEFINE F == scan.found \cup TidsOf(PendingWalk)
  <1>1. scan' = [scan EXCEPT !.pc = "check", !.found = F] /\ At("pending") /\ scan.pc = "pending"
    BY DEF ReadPending, At
  <1>2. FoundPending /\ FoundSound /\ WalkSound /\ ScanType BY DEF ScanInv, Reading
  <1>3. F \in SUBSET Tids BY <1>2, DocsAssumption DEF ScanType, PendingWalk, TidsOf
  <1>4. Answer \subseteq F
    BY <1>1, <1>2 DEF Answer, FoundPending, TidsOf
  <1>5. F \cap TidsOf(scan.snap) \subseteq Answer
    <2>1. scan.found \cap TidsOf(scan.snap) \subseteq Answer BY <1>1, <1>2 DEF FoundSound
    <2>2. ASSUME NEW e \in PendingWalk, TidOf[e] \in TidsOf(scan.snap) PROVE TidOf[e] \in Answer
      <3>1. e \in scan.snap /\ e \notin Blank
        BY <1>1, <1>2, <2>2, InWalk DEF WalkSound
      <3> QED BY <3>1 DEF Answer, TidsOf
    <2>3. ASSUME NEW t \in TidsOf(PendingWalk), t \in TidsOf(scan.snap) PROVE t \in Answer
      <3>1. PICK e \in PendingWalk : t = TidOf[e] BY <2>3 DEF TidsOf
      <3> QED BY <2>2, <2>3, <3>1
    <2> QED BY <2>1, <2>3
  <1> HIDE DEF F
  <1>6. /\ scan' \in ScanRecord /\ scan'.pc = "check" /\ scan'.snap = scan.snap
        /\ scan'.dead = scan.dead /\ scan'.found = F /\ scan'.seen = scan.seen
    BY <1>1, <1>3, ScanTyped DEF ScanRecord, ScanPoints
  <1>7. /\ UniqueInv' /\ ScanType' /\ Resting' /\ SnapLive' /\ VisibleToAll' /\ Answer' = Answer
        /\ Kept'
    BY <1>1, <1>6, Onward
  <1>8. FoundAll' /\ FoundSound'
    BY <1>4, <1>5, <1>6, <1>7 DEF FoundAll, FoundSound, TidsOf
  <1>9. SegsComplete' /\ WalkSound' /\ FoundPending'
    BY <1>6 DEF SegsComplete, WalkSound, FoundPending
  <1>10. Probing'
    <2>1. scan.seen = {} BY <1>1 DEF ScanInv, Probing, SeenLater
    <2> QED BY <1>6, <2>1 DEF Probing, SeenAll, SeenSound, SeenLater, DoneAt
  <1>11. FastRead' /\ FastCountExact' BY <1>6 DEF FastRead, FastCountExact
  <1> QED BY <1>7, <1>8, <1>9, <1>10, <1>11 DEF ScanInv, Reading

LEMMA StepCheck ==
    ASSUME ScanInv, Check
    PROVE  ScanInv'
  <1> DEFINE again == scan.moved /\ scan.tries < MaxRetries
             H == {HeapPageOf[t] : t \in scan.found}
             n == scan.tries + 1
  <1>1. /\ At("check") /\ scan.pc = "check"
        /\ scan' = IF again THEN [scan EXCEPT !.pc = "meta", !.tries = n]
                   ELSE [scan EXCEPT !.pc = "probe", !.todo = H]
    BY DEF Check, At
  <1>2. /\ ScanType /\ FoundAll /\ FoundSound /\ SeenLater /\ SeenSound
    BY DEF ScanInv, Reading, Probing
  <1>3. H \in SUBSET HeapPages BY <1>2 DEF ScanType, HeapPages
  <1>4. n \in Nat BY <1>2 DEF ScanType
  <1>5. \A t \in scan.found : HeapPageOf[t] \in H OBVIOUS
  <1> HIDE DEF again, H, n
  <1>6. /\ scan' \in ScanRecord /\ scan'.pc \in {"meta", "probe"} /\ scan'.snap = scan.snap
        /\ scan'.dead = scan.dead /\ scan'.found = scan.found /\ scan'.seen = scan.seen
        /\ scan'.pc = "probe" => scan'.todo = H
    BY <1>1, <1>3, <1>4, ScanTyped DEF ScanRecord, ScanPoints
  <1>7. /\ UniqueInv' /\ ScanType' /\ Resting' /\ SnapLive' /\ VisibleToAll' /\ Answer' = Answer
        /\ Kept'
    BY <1>1, <1>6, Onward
  <1>8. FoundAll' /\ FoundSound'
    BY <1>1, <1>2, <1>6, <1>7 DEF FoundAll, FoundSound, TidsOf
  <1>9. SegsComplete' /\ WalkSound' /\ FoundPending'
    BY <1>6 DEF SegsComplete, WalkSound, FoundPending
  <1>10. scan.seen = {} BY <1>1, <1>2 DEF SeenLater
  <1>11. SeenAll'
    <2>1. Answer \subseteq scan.found BY <1>1, <1>2 DEF FoundAll
    <2>2. scan'.pc = "probe" => \A t \in Answer : HeapPageOf[t] \in scan'.todo
      BY <1>5, <1>6, <2>1
    <2> QED BY <2>2, <1>6, <1>7 DEF SeenAll
  <1>12. SeenSound' /\ SeenLater' /\ DoneAt' BY <1>6, <1>10 DEF SeenSound, SeenLater, DoneAt
  <1>13. FastRead' /\ FastCountExact' BY <1>6 DEF FastRead, FastCountExact
  <1> QED BY <1>7, <1>8, <1>9, <1>11, <1>12, <1>13 DEF ScanInv, Reading, Probing

LEMMA StepProbe ==
    ASSUME ScanInv, NEW h \in HeapPages, Probe(h)
    PROVE  ScanInv'
  <1> DEFINE here == {t \in scan.found : HeapPageOf[t] = h}
             trust == scan.kind = "count" /\ h \in allvis
             more == IF trust THEN here ELSE here \cap TidsOf(scan.snap)
             T == scan.todo \ {h}
             S == scan.seen \cup more
  <1>1. /\ At("probe") /\ scan.pc = "probe" /\ scan' = [scan EXCEPT !.todo = T, !.seen = S]
    BY DEF Probe, At
  <1>2. ScanType /\ FoundAll /\ FoundSound /\ SeenAll /\ SeenSound
    BY DEF ScanInv, Reading, Probing
  <1>3. T \in SUBSET HeapPages /\ S \in SUBSET Tids BY <1>2 DEF ScanType
  <1>4. \A t \in Answer : HeapPageOf[t] \in T \/ t \in S
    <2> SUFFICES ASSUME NEW t \in Answer, HeapPageOf[t] \notin T PROVE t \in S OBVIOUS
    <2>1. t \in scan.found /\ t \in TidsOf(scan.snap)
      BY <1>1, <1>2 DEF FoundAll, Answer, TidsOf
    <2>2. HeapPageOf[t] = h \/ t \in scan.seen BY <1>1, <1>2 DEF SeenAll
    <2> QED BY <2>1, <2>2
  <1>5. scan.kind = "fetch" => S \subseteq Answer
    <2>1. scan.found \cap TidsOf(scan.snap) \subseteq Answer BY <1>1, <1>2 DEF FoundSound
    <2> QED BY <1>2, <2>1 DEF SeenSound
  <1> HIDE DEF T, S
  <1>6. /\ scan' \in ScanRecord /\ scan'.pc = "probe" /\ scan'.snap = scan.snap
        /\ scan'.dead = scan.dead /\ scan'.found = scan.found /\ scan'.kind = scan.kind
        /\ scan'.todo = T /\ scan'.seen = S
    BY <1>1, <1>3, ScanTyped DEF ScanRecord
  <1>7. /\ UniqueInv' /\ ScanType' /\ Resting' /\ SnapLive' /\ VisibleToAll' /\ Answer' = Answer
        /\ Kept'
    BY <1>1, <1>6, Onward
  <1>8. FoundAll' /\ FoundSound'
    BY <1>1, <1>2, <1>6, <1>7 DEF FoundAll, FoundSound, TidsOf
  <1>9. SegsComplete' /\ WalkSound' /\ FoundPending'
    BY <1>6 DEF SegsComplete, WalkSound, FoundPending
  <1>10. SeenAll' BY <1>4, <1>6, <1>7 DEF SeenAll
  <1>11. SeenSound' /\ SeenLater' /\ DoneAt' BY <1>5, <1>6, <1>7 DEF SeenSound, SeenLater, DoneAt
  <1>12. FastRead' /\ FastCountExact' BY <1>6 DEF FastRead, FastCountExact
  <1> QED BY <1>7, <1>8, <1>9, <1>10, <1>11, <1>12 DEF ScanInv, Reading, Probing

LEMMA StepFinish ==
    ASSUME ScanInv, Finish
    PROVE  ScanInv'
  <1>1. At("probe") /\ scan.pc = "probe" /\ scan.todo = {} /\ scan' = [scan EXCEPT !.pc = "done"]
    BY DEF Finish, At
  <1>2. FoundAll /\ FoundSound /\ SeenAll /\ SeenSound BY DEF ScanInv, Reading, Probing
  <1>3. /\ scan' \in ScanRecord /\ scan'.pc = "done" /\ scan'.snap = scan.snap
        /\ scan'.dead = scan.dead /\ scan'.found = scan.found /\ scan'.kind = scan.kind
        /\ scan'.todo = scan.todo /\ scan'.seen = scan.seen
    BY <1>1, ScanTyped DEF ScanRecord, ScanPoints
  <1>4. /\ UniqueInv' /\ ScanType' /\ Resting' /\ SnapLive' /\ VisibleToAll' /\ Answer' = Answer
        /\ Kept'
    BY <1>1, <1>3, Onward
  <1>5. FoundAll' /\ FoundSound'
    BY <1>1, <1>2, <1>3, <1>4 DEF FoundAll, FoundSound, TidsOf
  <1>6. SegsComplete' /\ WalkSound' /\ FoundPending'
    BY <1>3 DEF SegsComplete, WalkSound, FoundPending
  <1>7. SeenAll' BY <1>1, <1>2, <1>3, <1>4 DEF SeenAll
  <1>8. SeenSound' /\ SeenLater' /\ DoneAt'
    BY <1>1, <1>2, <1>3, <1>4 DEF SeenSound, SeenLater, DoneAt
  <1>9. FastRead' /\ FastCountExact' BY <1>3 DEF FastRead, FastCountExact
  <1> QED BY <1>4, <1>5, <1>6, <1>7, <1>8, <1>9 DEF ScanInv, Reading, Probing

\* Nothing is known of a scan that is not there.
AtRest ==
    /\ Resting /\ SnapLive /\ Reading /\ Probing /\ FastRead /\ FastCountExact
    /\ ~Scanning /\ Listed = {} /\ scan \in ScanRecord

LEMMA NoScanAtRest == scan = NoScan => AtRest
  <1> SUFFICES ASSUME scan = NoScan PROVE AtRest OBVIOUS
  <1>1. /\ scan.pc = "idle" /\ scan.kind = "none" /\ scan.snap = {} /\ scan.dead = NoSegs
        /\ scan.seen = {} /\ scan \in ScanRecord
    BY DEF NoScan, ScanRecord, ScanPoints, NoSegs
  <1>2. Reading BY <1>1 DEF Reading, SegsComplete, WalkSound, FoundPending, FoundAll, FoundSound
  <1>3. Probing BY <1>1 DEF Probing, SeenAll, SeenSound, SeenLater, DoneAt
  <1> QED BY <1>1, <1>2, <1>3
          DEF AtRest, Resting, SnapLive, FastRead, FastCountExact, Scanning, Listed, NoSegs

LEMMA StepEnd ==
    ASSUME ScanInv, End
    PROVE  ScanInv'
  <1>1. /\ scan' = NoScan /\ kept' = NoSegs /\ keptpage' = [k \in Pages |-> {}]
        /\ UNCHANGED <<vars, recent, allvis>> /\ Scanning
    BY DEF End, Scanning
  <1>2. /\ Resting' /\ SnapLive' /\ Reading' /\ Probing' /\ FastRead' /\ FastCountExact'
        /\ ~Scanning' /\ Listed' = {} /\ scan' \in ScanRecord
    <2>1. (scan = NoScan)' BY <1>1 DEF NoScan, NoSegs
    <2>2. AtRest' BY <2>1, NoScanAtRest, PTL
    <2> QED BY <2>2 DEF AtRest
  <1>3. UniqueInv' BY <1>1, StepUniqueInv DEF ScanInv
  <1>4. UNCHANGED <<heap, pos, disk, page, head, tail, npending, top, mutex, pc, job>>
    BY <1>1 DEF vars, meta
  <1>5. ScanType'
    BY <1>1, <1>2 DEF ScanInv, ScanType, ScanRecord, NoSegs, Pages, HeapPages
  <1>6. VisibleToAll' BY <1>1, <1>2, <1>4 DEF ScanInv, VisibleToAll, HeapPageOfDoc
  <1>7. Kept'
    <2>1. KeptApart' /\ KeptOff' BY <1>1 DEF KeptApart, KeptOff, NoSegs, Pages
    <2>2. InputsFull' BY <1>4 DEF ScanInv, Kept, InputsFull, Inputs
    <2> QED BY <2>1, <2>2, <1>2 DEF Kept, ListedKept
  <1> QED BY <1>2, <1>3, <1>5, <1>6, <1>7 DEF ScanInv

LEMMA StepDeleteRecent ==
    ASSUME ScanInv, NEW d \in Docs, DeleteRecent(d)
    PROVE  ScanInv'
  <1>1. /\ heap[d] = "live" /\ recent' = recent \cup {d}
        /\ allvis' = allvis \ {HeapPageOfDoc(d)} /\ UNCHANGED <<vars, kept, keptpage, scan>>
    BY DEF DeleteRecent
  <1>2. UNCHANGED <<heap, pos, disk, page, head, tail, npending, top, mutex, pc, job>>
    BY <1>1 DEF vars, meta
  <1>3. UniqueInv' BY <1>1, StepUniqueInv DEF ScanInv
  <1>4. ScanType' BY <1>1 DEF ScanInv, ScanType, Pages, HeapPages
  <1>5. SnapLive' BY <1>1, <1>2 DEF ScanInv, SnapLive
  <1>6. VisibleToAll'
    <2> SUFFICES ASSUME NEW e \in Docs, HeapPageOfDoc(e) \in allvis'
        PROVE  \/ heap[e] \in {"absent", "gone"}
               \/ heap[e] = "live" /\ e \notin recent' /\ (Scanning => e \in scan.snap)
      BY <1>1, <1>2 DEF VisibleToAll, HeapPageOfDoc, Scanning
    <2>1. HeapPageOfDoc(e) \in allvis /\ e # d BY <1>1
    <2> QED BY <2>1, <1>1 DEF ScanInv, VisibleToAll
  <1>7. Kept' BY <1>1, <1>2 DEF ScanInv, Kept, KeptApart, KeptOff, InputsFull, ListedKept, Listed,
                                 Inputs, Dir, Pages
  <1>8. Reading' BY <1>1, <1>2 DEF ScanInv, Reading, SegsComplete, WalkSound, FoundPending, FoundAll,
                        FoundSound, Listed, Entries, Postings, PendingWalk, Pages, Answer, TidsOf
  <1>9. Probing' BY <1>1 DEF ScanInv, Probing, SeenAll, SeenSound, SeenLater, DoneAt, Answer
  <1>10. FastRead' /\ FastCountExact' /\ Resting'
    BY <1>1, <1>2 DEF ScanInv, FastRead, FastCountExact, Resting, Listed, Dir, SegDocs, LiveDocs,
                      Answer, NoScan, NoSegs
  <1> QED BY <1>3, <1>4, <1>5, <1>6, <1>7, <1>8, <1>9, <1>10 DEF ScanInv

LEMMA StepSetAllVisible ==
    ASSUME ScanInv, NEW h \in HeapPages, SetAllVisible(h)
    PROVE  ScanInv'
  <1>1. allvis' = allvis \cup {h} /\ UNCHANGED <<vars, recent, kept, keptpage, scan>>
    BY DEF SetAllVisible
  <1>2. UNCHANGED <<heap, pos, disk, page, head, tail, npending, top, mutex, pc, job>>
    BY <1>1 DEF vars, meta
  <1>3. UniqueInv' BY <1>1, StepUniqueInv DEF ScanInv
  <1>4. ScanType' BY <1>1 DEF ScanInv, ScanType, Pages, HeapPages
  <1>5. SnapLive' BY <1>1, <1>2 DEF ScanInv, SnapLive
  <1>6. VisibleToAll'
    <2> SUFFICES ASSUME NEW e \in Docs, HeapPageOfDoc(e) \in allvis'
        PROVE  \/ heap[e] \in {"absent", "gone"}
               \/ heap[e] = "live" /\ e \notin recent /\ (Scanning => e \in scan.snap)
      BY <1>1, <1>2 DEF VisibleToAll, HeapPageOfDoc, Scanning
    <2>1. HeapPageOfDoc(e) \in allvis \/ HeapPageOfDoc(e) = h BY <1>1
    <2> QED BY <2>1 DEF ScanInv, VisibleToAll, SetAllVisible
  <1>7. Kept' BY <1>1, <1>2 DEF ScanInv, Kept, KeptApart, KeptOff, InputsFull, ListedKept, Listed,
                                 Inputs, Dir, Pages
  <1>8. Reading' BY <1>1, <1>2 DEF ScanInv, Reading, SegsComplete, WalkSound, FoundPending, FoundAll,
                        FoundSound, Listed, Entries, Postings, PendingWalk, Pages, Answer, TidsOf
  <1>9. Probing' BY <1>1 DEF ScanInv, Probing, SeenAll, SeenSound, SeenLater, DoneAt, Answer
  <1>10. FastRead' /\ FastCountExact' /\ Resting'
    BY <1>1, <1>2 DEF ScanInv, FastRead, FastCountExact, Resting, Listed, Dir, SegDocs, LiveDocs,
                      Answer, NoScan, NoSegs
  <1> QED BY <1>3, <1>4, <1>5, <1>6, <1>7, <1>8, <1>9, <1>10 DEF ScanInv

-----------------------------------------------------------------------------
(* The count fast path. *)

LEMMA StepFastMeta ==
    ASSUME ScanInv, FastMeta
    PROVE  ScanInv'
  <1> DEFINE fast == npending = 0 /\ \A i \in Dir : disk[i].dead = {}
  <1>1. /\ At("fastmeta") /\ scan.pc = "fastmeta"
        /\ scan' = IF fast THEN [scan EXCEPT !.pc = "fastdf", !.dead = Descriptors, !.moved = FALSE]
                   ELSE [scan EXCEPT !.pc = "meta"]
    BY DEF FastMeta, At
  <1>2. Descriptors \in [Segs -> (SUBSET Tids) \cup {None}] BY DescriptorsDir
  <1>3. fast => PendingDocs = {}
    <2>1. ASSUME npending = 0 PROVE PendingDocs = {}
      <3>1. TypeInv /\ PendingCounted
        BY DEF ScanInv, UniqueInv, StoredInv, WriteInv, ListInv, SegmentsInv, PendingInv
      <3>2. PendingDocs \in SUBSET Docs BY <3>1, PendingTypes
      <3>3. IsFiniteSet(PendingDocs) BY <3>2, SetOfDocs
      <3> QED BY <2>1, <3>1, <3>3, FS_EmptySet DEF PendingCounted
    <2> QED BY <2>1
  <1>4. fast => \A i \in Dir : disk[i].dead = {} OBVIOUS
  <1> HIDE DEF fast
  <1>5. /\ scan' \in ScanRecord /\ scan'.pc = IF fast THEN "fastdf" ELSE "meta"
        /\ scan'.snap = scan.snap /\ scan'.seen = scan.seen
        /\ scan'.dead = IF fast THEN Descriptors ELSE scan.dead
    BY <1>1, <1>2, ScanTyped DEF ScanRecord, ScanPoints
  <1>6. /\ UniqueInv' /\ ScanType' /\ Resting' /\ SnapLive' /\ VisibleToAll' /\ Answer' = Answer
        /\ scan'.dead = scan.dead => Kept'
    BY <1>1, <1>5, Onward
  <1>7. /\ KeptApart' /\ KeptOff' /\ InputsFull' /\ Dir' = Dir /\ SegDocs' = SegDocs
        /\ \A i \in Segs : disk'[i] = disk[i]
    BY <1>1, ScanWritesNothing DEF At
  <1>8. fast => Listed' = Dir BY <1>5, DescriptorsDir DEF Listed, Dir
  <1>9. Kept'
    <2>1. CASE fast BY <2>1, <1>7, <1>8 DEF Kept, ListedKept
    <2>2. CASE ~fast BY <2>2, <1>5, <1>6
    <2> QED BY <2>1, <2>2
  <1>10. Reading'
    BY <1>5 DEF Reading, SegsComplete, WalkSound, FoundPending, FoundAll, FoundSound
  <1>11. Probing'
    <2>1. scan.seen = {} BY <1>1 DEF ScanInv, Probing, SeenLater
    <2> QED BY <1>5, <2>1 DEF Probing, SeenAll, SeenSound, SeenLater, DoneAt
  <1>12. FastRead'
    <2> SUFFICES ASSUME fast PROVE FastRead' BY <1>5 DEF FastRead
    <2>1. Listed' = Dir' /\ \A i \in Dir' : disk'[i].dead = {}
      BY <1>4, <1>7, <1>8 DEF Dir
    <2>2. scan'.snap \ Blank \subseteq SegDocs' BY <1>3, <1>5, <1>7, SnapIndexed
    <2> QED BY <1>5, <2>1, <2>2 DEF FastRead
  <1>13. FastCountExact' BY <1>5 DEF FastCountExact
  <1> QED BY <1>6, <1>9, <1>10, <1>11, <1>12, <1>13 DEF ScanInv

\* A step of the fast path that reads nothing new.
LEMMA FastFrame ==
    ASSUME ScanInv, NEW a \in {"fastdf", "fastvm", "fastgen"}, At(a), scan' \in ScanRecord,
           scan'.pc \in {"fastvm", "fastgen", "fastdone", "meta"},
           scan'.snap = scan.snap, scan'.dead = scan.dead, scan'.seen = scan.seen,
           FastRead', FastCountExact'
    PROVE  ScanInv'
  <1>1. /\ UniqueInv' /\ ScanType' /\ Resting' /\ SnapLive' /\ VisibleToAll' /\ Kept'
    BY Onward
  <1>2. Reading'
    BY DEF Reading, SegsComplete, WalkSound, FoundPending, FoundAll, FoundSound
  <1>3. Probing'
    <2>1. scan.seen = {} BY DEF ScanInv, Probing, SeenLater, At
    <2> QED BY <2>1 DEF Probing, SeenAll, SeenSound, SeenLater, DoneAt
  <1> QED BY <1>1, <1>2, <1>3 DEF ScanInv

\* The dictionaries' df add up to the number of documents in segments.
LEMMA DfSum ==
    ASSUME ScanInv
    PROVE  LET sum == SumFunction([i \in Listed |-> Cardinality(Postings(i))])
           IN  /\ sum \in Nat
               /\ Listed = Dir /\ (\A i \in Dir : disk[i].dead = {}) => sum = Cardinality(SegDocs)
  <1> DEFINE S == Listed
             F == [i \in S |-> Cardinality(Postings(i))]
             P == [i \in S |-> Postings(i)]
  <1>1. IsFiniteSet(S) BY FiniteAssumption, FS_Subset DEF Listed
  <1>2. \A i \in S : Postings(i) \in SUBSET Docs
    <2>1. disk \in [Segs -> Segment]
      BY DEF ScanInv, UniqueInv, StoredInv, WriteInv, ListInv, SegmentsInv, TypeInv, TypeOK
    <2> QED BY <2>1 DEF ScanInv, ScanType, Postings, Segment, Listed
  <1>3. \A i \in S : IsFiniteSet(Postings(i)) /\ Cardinality(Postings(i)) \in Nat
    BY <1>2, SetOfDocs
  <1>4. \A i \in S : F[i] = Cardinality(Postings(i)) /\ P[i] = Postings(i) OBVIOUS
  <1>5. SumFunction(F) = SumFunctionOnSet(F, S) BY DEF SumFunction
  <1> HIDE DEF F, P
  <1>6. Counts(F, S) BY <1>1, <1>3, <1>4 DEF Counts
  <1>7. SumFunctionOnSet(F, S) \in Nat BY <1>6, SumType
  <1>8. ASSUME S = Dir, \A i \in Dir : disk[i].dead = {}
        PROVE  SumFunctionOnSet(F, S) = Cardinality(SegDocs)
    <2>1. \A i \in S : P[i] = LiveDocs(disk[i])
      <3> SUFFICES ASSUME NEW i \in S PROVE P[i] = LiveDocs(disk[i]) OBVIOUS
      <3>1. P[i] = disk[i].docs BY <1>4, <1>8, DirPostings
      <3> QED BY <3>1, <1>8 DEF LiveDocs
    <2>2. \A i, j \in S : i # j => P[i] \cap P[j] = {}
      BY <1>8, <2>1 DEF ScanInv, UniqueInv, SegsApart
    <2>3. Sizes(P, F, S) BY <1>1, <1>3, <1>4, <2>2 DEF Sizes
    <2>4. SumFunctionOnSet(F, S) = Cardinality(Whole(P, S)) BY <2>3, SumOfSizes
    <2>5. \A d : d \in Whole(P, S) <=> d \in SegDocs
      <3>1. \A d : d \in Whole(P, S) <=> \E i \in S : d \in P[i] BY DEF Whole
      <3>2. \A d : d \in SegDocs <=> \E i \in Dir : d \in LiveDocs(disk[i]) BY DEF SegDocs
      <3> QED BY <3>1, <3>2, <2>1, <1>8
    <2>6. Whole(P, S) = SegDocs BY <2>5
    <2> QED BY <2>4, <2>6
  <1> QED BY <1>5, <1>7, <1>8 DEF F

LEMMA StepFastSum ==
    ASSUME ScanInv, FastSum
    PROVE  ScanInv'
  <1> DEFINE n == SumFunction([i \in Listed |-> Cardinality(Postings(i))])
  <1>1. At("fastdf") /\ scan.pc = "fastdf" /\ scan' = [scan EXCEPT !.pc = "fastvm", !.count = n]
    BY DEF FastSum, At
  <1>2. /\ n \in Nat
        /\ Listed = Dir /\ (\A i \in Dir : disk[i].dead = {}) => n = Cardinality(SegDocs)
    BY DfSum
  <1> HIDE DEF n
  <1>3. /\ scan' \in ScanRecord /\ scan'.pc = "fastvm" /\ scan'.snap = scan.snap
        /\ scan'.dead = scan.dead /\ scan'.seen = scan.seen /\ scan'.count = n
        /\ scan'.moved = scan.moved
    BY <1>1, <1>2, ScanTyped DEF ScanRecord, ScanPoints
  <1>4. /\ Dir' = Dir /\ SegDocs' = SegDocs /\ \A i \in Segs : disk'[i] = disk[i]
    BY <1>1, ScanWritesNothing DEF At
  <1>5. FastRead'
    <2> SUFFICES ASSUME ~scan.moved PROVE FastRead' BY <1>3 DEF FastRead
    <2>1. Listed = Dir /\ (\A i \in Dir : disk[i].dead = {}) /\ scan.snap \ Blank \subseteq SegDocs
      BY <1>1 DEF ScanInv, FastRead
    <2>2. Listed' = Dir' BY <2>1, <1>3, <1>4 DEF Listed
    <2>3. \A i \in Dir' : disk'[i].dead = {} BY <2>1, <1>4 DEF Dir
    <2> QED BY <1>2, <1>3, <1>4, <2>1, <2>2, <2>3 DEF FastRead
  <1>6. FastCountExact' BY <1>3 DEF FastCountExact
  <1> QED BY <1>1, <1>3, <1>5, <1>6, FastFrame

LEMMA StepFastVisible ==
    ASSUME ScanInv, FastVisible
    PROVE  ScanInv'
  <1> DEFINE used == {HeapPageOfDoc(d) : d \in {e \in Docs : heap[e] # "absent"}}
             to == IF used \subseteq allvis THEN "fastgen" ELSE "meta"
  <1>1. At("fastvm") /\ scan.pc = "fastvm" /\ scan' = [scan EXCEPT !.pc = to]
    BY DEF FastVisible, At
  <1>2. to \in {"fastgen", "meta"} OBVIOUS
  <1>3. to = "fastgen" => \A d \in Docs : heap[d] # "absent" => HeapPageOfDoc(d) \in allvis
    OBVIOUS
  <1> HIDE DEF to
  <1>4. /\ scan' \in ScanRecord /\ scan'.pc = to /\ scan'.snap = scan.snap
        /\ scan'.dead = scan.dead /\ scan'.seen = scan.seen /\ scan'.count = scan.count
        /\ scan'.moved = scan.moved
    BY <1>1, <1>2, ScanTyped DEF ScanRecord, ScanPoints
  <1>5. /\ Dir' = Dir /\ SegDocs' = SegDocs /\ \A i \in Segs : disk'[i] = disk[i]
    BY <1>1, ScanWritesNothing DEF At
  <1>6. to = "fastgen" => SegDocs \subseteq scan.snap
    <2> SUFFICES ASSUME to = "fastgen", NEW d \in SegDocs PROVE d \in scan.snap OBVIOUS
    <2>1. d \in Docs \ Blank BY DEF ScanInv, UniqueInv, NoBlankSegs
    <2>2. d \in Indexed BY <2>1, InIndexed
    <2>3. Present(d) BY <2>2 DEF ScanInv, UniqueInv, StoredInv, IndexedKnown
    <2>4. HeapPageOfDoc(d) \in allvis BY <1>3, <2>1, <2>3 DEF Present
    <2>5. Scanning BY <1>1 DEF Scanning
    <2> QED BY <2>1, <2>3, <2>4, <2>5 DEF ScanInv, VisibleToAll, Present
  <1>7. FastRead'
    <2> SUFFICES ASSUME ~scan.moved PROVE FastRead' BY <1>4 DEF FastRead
    <2>1. /\ Listed = Dir /\ (\A i \in Dir : disk[i].dead = {}) /\ scan.snap \ Blank \subseteq SegDocs
          /\ scan.count = Cardinality(SegDocs)
      BY <1>1 DEF ScanInv, FastRead
    <2>2. Listed' = Dir' BY <2>1, <1>4, <1>5 DEF Listed
    <2>3. \A i \in Dir' : disk'[i].dead = {} BY <2>1, <1>5 DEF Dir
    <2> QED BY <1>2, <1>4, <1>5, <1>6, <2>1, <2>2, <2>3 DEF FastRead
  <1>8. FastCountExact' BY <1>2, <1>4 DEF FastCountExact
  <1> QED BY <1>1, <1>2, <1>4, <1>7, <1>8, FastFrame

\* Rows of a snapshot have slots of their own.
LEMMA AnswerSize ==
    ASSUME ScanInv
    PROVE  Cardinality(Answer) = Cardinality(scan.snap \ Blank)
  <1> DEFINE D == scan.snap \ Blank
             f == [d \in D |-> TidOf[d]]
  <1>1. D \in SUBSET Docs BY DEF ScanInv, ScanType
  <1>2. IsFiniteSet(D) BY <1>1, SetOfDocs
  <1>3. f \in Surjection(D, Answer) BY DEF Surjection, Answer, TidsOf
  <1>4. \A d, e \in D : TidOf[d] = TidOf[e] => d = e
    <2> SUFFICES ASSUME NEW d \in D, NEW e \in D, TidOf[d] = TidOf[e] PROVE d = e OBVIOUS
    <2>1. Present(e) /\ e \in Docs BY <1>1 DEF ScanInv, SnapLive, Present
    <2> QED BY <2>1, SnapSlots DEF ScanInv
  <1>5. f \in [D -> Answer] BY <1>3 DEF Surjection
  <1>6. f \in Injection(D, Answer) BY <1>4, <1>5 DEF Injection, IsInjective
  <1> HIDE DEF D, f
  <1>7. Cardinality(Answer) = Cardinality(D) BY <1>2, <1>3, <1>6, FS_Surjection
  <1> QED BY <1>7 DEF D

LEMMA StepFastCheck ==
    ASSUME ScanInv, FastCheck
    PROVE  ScanInv'
  <1> DEFINE to == IF scan.moved THEN "meta" ELSE "fastdone"
  <1>1. At("fastgen") /\ scan.pc = "fastgen" /\ scan' = [scan EXCEPT !.pc = to]
    BY DEF FastCheck, At
  <1>2. to \in {"meta", "fastdone"} /\ (to = "fastdone" => ~scan.moved)
    OBVIOUS
  <1> HIDE DEF to
  <1>3. /\ scan' \in ScanRecord /\ scan'.pc = to /\ scan'.snap = scan.snap
        /\ scan'.dead = scan.dead /\ scan'.seen = scan.seen /\ scan'.count = scan.count
    BY <1>1, <1>2, ScanTyped DEF ScanRecord, ScanPoints
  <1>4. FastRead' BY <1>2, <1>3 DEF FastRead
  <1>5. FastCountExact'
    <2> SUFFICES ASSUME ~scan.moved PROVE scan'.count = Cardinality(Answer')
      BY <1>2, <1>3 DEF FastCountExact
    <2>1. /\ scan.snap \ Blank \subseteq SegDocs /\ SegDocs \subseteq scan.snap
          /\ scan.count = Cardinality(SegDocs)
      BY <1>1 DEF ScanInv, FastRead
    <2>2. SegDocs \subseteq Docs \ Blank BY DEF ScanInv, UniqueInv, NoBlankSegs
    <2>3. SegDocs = scan.snap \ Blank BY <2>1, <2>2
    <2>4. Answer' = Answer BY <1>3 DEF Answer
    <2> QED BY <1>3, <2>1, <2>3, <2>4, AnswerSize
  <1> QED BY <1>1, <1>2, <1>3, <1>4, <1>5, FastFrame

-----------------------------------------------------------------------------
LEMMA InitScanInv == SInit => ScanInv
  <1> SUFFICES ASSUME SInit PROVE ScanInv OBVIOUS
  <1>1. UniqueInv BY InitUniqueInv DEF SInit
  <1>2. AtRest BY NoScanAtRest DEF SInit
  <1>3. ScanType
    BY <1>2 DEF SInit, ScanType, AtRest, ScanRecord, NoSegs
  <1>4. VisibleToAll BY DEF SInit, VisibleToAll
  <1>5. Kept
    <2>1. KeptApart /\ KeptOff BY DEF SInit, KeptApart, KeptOff, NoSegs
    <2>2. InputsFull BY DEF SInit, Init, InputsFull
    <2> QED BY <2>1, <2>2, <1>2 DEF Kept, ListedKept, AtRest
  <1> QED BY <1>1, <1>2, <1>3, <1>4, <1>5 DEF ScanInv, AtRest

LEMMA StepScanInv == ScanInv /\ [SNext]_svars => ScanInv'
  <1> SUFFICES ASSUME ScanInv, [SNext]_svars PROVE ScanInv' OBVIOUS
  <1>1. CASE Write BY <1>1, StepWrite
  <1>2. ASSUME NEW d \in Docs, DeleteRecent(d) PROVE ScanInv' BY <1>2, StepDeleteRecent
  <1>3. ASSUME NEW h \in HeapPages, SetAllVisible(h) PROVE ScanInv' BY <1>3, StepSetAllVisible
  <1>4. ASSUME NEW k \in {"count", "fetch"}, Begin(k) PROVE ScanInv' BY <1>4, StepBegin
  <1>5. CASE FastMeta BY <1>5, StepFastMeta
  <1>6. CASE FastSum BY <1>6, StepFastSum
  <1>7. CASE FastVisible BY <1>7, StepFastVisible
  <1>8. CASE FastCheck BY <1>8, StepFastCheck
  <1>9. CASE ReadMeta BY <1>9, StepReadMeta
  <1>10. CASE ReadSegments BY <1>10, StepReadSegments
  <1>11. CASE ReadPending BY <1>11, StepReadPending
  <1>12. CASE Check BY <1>12, StepCheck
  <1>13. ASSUME NEW h \in HeapPages, Probe(h) PROVE ScanInv' BY <1>13, StepProbe
  <1>14. CASE Finish BY <1>14, StepFinish
  <1>15. CASE End BY <1>15, StepEnd
  <1>16. CASE UNCHANGED svars
    <2>1. UNCHANGED vars /\ UNCHANGED <<recent, allvis, kept, keptpage, scan>> BY <1>16 DEF svars
    <2>2. UNCHANGED <<heap, pos, disk, page, head, tail, npending, top, mutex, pc, job>>
      BY <2>1 DEF vars, meta
    <2>3. UniqueInv' BY <2>1, StepUniqueInv DEF ScanInv
    <2>4. ScanType' BY <2>1 DEF ScanInv, ScanType, Pages, HeapPages
    <2>5. SnapLive' /\ VisibleToAll' BY <2>1, <2>2 DEF ScanInv, SnapLive, VisibleToAll, HeapPageOfDoc, Scanning
    <2>7. Kept' BY <2>1, <2>2 DEF ScanInv, Kept, KeptApart, KeptOff, InputsFull, ListedKept, Listed,
                                   Inputs, Dir, Pages
    <2>8. Reading' BY <2>1, <2>2 DEF ScanInv, Reading, SegsComplete, WalkSound, FoundPending, FoundAll,
                          FoundSound, Listed, Entries, Postings, PendingWalk, Pages, Answer, TidsOf
    <2>9. Probing' BY <2>1 DEF ScanInv, Probing, SeenAll, SeenSound, SeenLater, DoneAt, Answer
    <2>10. FastRead' /\ FastCountExact' /\ Resting'
      BY <2>1, <2>2 DEF ScanInv, FastRead, FastCountExact, Resting, Listed, Dir, SegDocs, LiveDocs,
                        Answer, NoScan, NoSegs
    <2> QED BY <2>3, <2>4, <2>5, <2>7, <2>8, <2>9, <2>10 DEF ScanInv
  <1> QED BY <1>1, <1>2, <1>3, <1>4, <1>5, <1>6, <1>7, <1>8, <1>9, <1>10, <1>11, <1>12, <1>13,
             <1>14, <1>15, <1>16 DEF SNext, Scan

LEMMA ScanHolds == SSpec => []ScanInv
  BY InitScanInv, StepScanInv, PTL DEF SSpec

\* A scan that probes each TID under its snapshot returns exactly the rows the
\* snapshot sees, whatever is inserted, deleted, flushed, merged and vacuumed
\* between its reading the metapage, the segments and the pending list, and
\* even when it ran out of retries (bm25_collect_matches_split, gen_retries).
THEOREM ScansAreExact == SSpec => []FetchExact
  <1>1. ScanInv => FetchExact
    <2> SUFFICES ASSUME ScanInv, scan.pc = "done", scan.kind = "fetch" PROVE scan.seen = Answer
      BY DEF FetchExact
    <2>1. scan.seen \subseteq Answer BY DEF ScanInv, Probing, SeenSound
    <2>2. Answer \subseteq scan.seen BY DEF ScanInv, Probing, SeenAll, DoneAt
    <2> QED BY <2>1, <2>2
  <1> QED BY <1>1, ScanHolds, PTL

\* A count through the visibility map never misses a row of its snapshot
\* (bm25_count_visible).
THEOREM CountsMissNothing == SSpec => []CountComplete
  <1>1. ScanInv => CountComplete BY DEF ScanInv, Probing, SeenAll, DoneAt, CountComplete
  <1> QED BY <1>1, ScanHolds, PTL

\* A count from the dictionaries' df alone, if it is given at all, is the
\* number of rows the snapshot sees: nothing pending, no tombstone, every heap
\* page all-visible and the generation unmoved make it so
\* (bm25_count_dictdf_fastpath, "provably exact").
THEOREM FastCountsAreExact == SSpec => []FastCountExact
  <1>1. ScanInv => FastCountExact BY DEF ScanInv
  <1> QED BY <1>1, ScanHolds, PTL
=============================================================================
