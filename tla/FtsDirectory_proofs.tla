------------------------ MODULE FtsDirectory_proofs -------------------------
(* Theorems about FtsDirectory, for any documents, backends and bounds. *)
EXTENDS FtsDirectory, FiniteSetTheorems, TLAPS

\* The document of an insert is known while it is being stored.
DocKnown ==
    \A p \in Procs : pc[p] \in {"append", "write"} => job[p].doc \in Docs

\* A one-document segment is written by an oversized insert only.
OversizedWrites == \A p \in Procs : pc[p] = "write" => job[p].op = "oversized"

\* Program points between a seal and the publish that ends it.
Sealed(p) ==
    /\ job[p].op # "oversized"
    /\ \/ pc[p] \in {"fold", "publish", "makeroom"}
       \/ pc[p] \in {"select", "stream", "swap", "freeinputs"} /\ job[p].back = "publish"

\* The new tail page is linked after the pages a flush has sealed.
TailAfterSealed == \A p \in Procs : Sealed(p) => job[p].last < top

TypeInv == TypeOK /\ DocKnown /\ OversizedWrites /\ TailAfterSealed

-----------------------------------------------------------------------------
LEMMA NSegsType == ASSUME pos \in [Segs -> Nat] PROVE NSegs \in Nat
  <1>1. IsFiniteSet(Dir) BY FiniteAssumption, FS_Subset DEF Dir
  <1> QED BY <1>1, FS_CardinalityType DEF NSegs

LEMMA InitTypeInv == Init => TypeInv
  <1> SUFFICES ASSUME Init PROVE TypeInv OBVIOUS
  <1> USE DEF Init
  <1>1. TypeOK
    <2>1. IdleJob \in Job
      BY NoneAssumption DEF IdleJob, Job, Ops, NoSegs, Segment
    <2>2. MaxPage \in Nat BY SizesAssumption
    <2> QED BY <2>1, <2>2 DEF TypeOK, Points, Segment, NoSeg, Pages
  <1>2. DocKnown /\ OversizedWrites BY DEF DocKnown, OversizedWrites
  <1>3. TailAfterSealed BY DEF TailAfterSealed, Sealed
  <1> QED BY <1>1, <1>2, <1>3 DEF TypeInv
LEMMA SetJob ==
    ASSUME TypeOK, NEW p \in Procs, NEW j \in Job, job' = [job EXCEPT ![p] = j]
    PROVE  job' \in [Procs -> Job]
  BY DEF TypeOK

LEMMA IdleJobType == IdleJob \in Job
  BY NoneAssumption DEF IdleJob, Job, Ops, NoSegs, Segment

\* A new segment may hold any documents.
LEMMA NewSegment ==
    ASSUME TypeOK, NEW i \in Segs, NEW D \in SUBSET Docs,
           disk' = [disk EXCEPT ![i] = [docs |-> D, dead |-> {}]]
    PROVE  disk' \in [Segs -> Segment]
  BY DEF TypeOK, Segment

LEMMA ProcType ==
    ASSUME TypeInv, NEW p \in Procs,
           \/ \E d \in Docs : HeapInsert(p, d)
           \/ Vacuum(p) \/ FtsMerge(p) \/ Continue(p) \/ Abort(p)
    PROVE  TypeOK'
  <1> USE DEF TypeInv
  <1> DEFINE j == job[p]
  <1>j. j \in Job BY DEF TypeOK
  <1>1. ASSUME NEW d \in Docs, HeapInsert(p, d) PROVE TypeOK'
    <2> DEFINE o == IF d \in Oversized THEN "oversized" ELSE "insert"
    <2>1. [j EXCEPT !.doc = d, !.op = o] \in Job BY <1>j DEF Job, Ops
    <2>2. job' = [job EXCEPT ![p] = [j EXCEPT !.doc = d, !.op = o]] BY <1>1 DEF HeapInsert
    <2>3. job' \in [Procs -> Job] BY <2>1, <2>2, SetJob
    <2> QED BY <1>1, <2>3 DEF HeapInsert, TypeOK, Goto, Points, meta
  <1>2. ASSUME Commit(p) PROVE TypeOK'
    <2>1. job' \in [Procs -> Job] BY <1>2, IdleJobType DEF Commit, TypeOK
    <2> QED BY <1>2, <2>1 DEF Commit, TypeOK, Goto, Points, meta
  <1>4. ASSUME Abort(p) PROVE TypeOK'
    <2>1. job' \in [Procs -> Job] BY <1>4, IdleJobType DEF Abort, TypeOK
    <2> QED BY <1>4, <2>1 DEF Abort, TypeOK, Points, meta
  <1>5. ASSUME AppendPending(p) PROVE TypeOK'
    <2>1. j.doc \in Docs BY <1>5 DEF AppendPending, Goto, DocKnown
    <2>2. MaxPage \in Nat BY SizesAssumption
    <2>3. page' \in [Pages -> SUBSET Docs] BY <1>5, <2>1 DEF AppendPending, TypeOK
    <2>4. head' \in 0..top' /\ tail' \in 0..top' /\ npending' \in Nat /\ top' \in 0..MaxPage
      BY <1>5, <2>2 DEF AppendPending, TypeOK
    <2> QED BY <1>5, <2>3, <2>4 DEF AppendPending, TypeOK, Goto, Points
  <1>6. ASSUME TryFlush(p) PROVE TypeOK'
    BY <1>6 DEF TryFlush, TypeOK, Goto, Points, meta
  <1>7. ASSUME WriteOversized(p) PROVE TypeOK'
    <2>1. PICK i \in FreeSegs :
             /\ disk' = [disk EXCEPT ![i] = [docs |-> {j.doc}, dead |-> {}]]
             /\ job' = [job EXCEPT ![p].out = i]
      BY <1>7 DEF WriteOversized
    <2>2. i \in Segs BY DEF FreeSegs
    <2>3. j.doc \in Docs BY <1>7 DEF WriteOversized, Goto, DocKnown
    <2>4. disk' \in [Segs -> Segment]
      <3>1. {j.doc} \in SUBSET Docs BY <2>3
      <3> QED BY <2>1, <2>2, <3>1, NewSegment
    <2>5. [j EXCEPT !.out = i] \in Job BY <1>j, <2>2 DEF Job
    <2>6. job' = [job EXCEPT ![p] = [j EXCEPT !.out = i]] BY <2>1
    <2>7. job' \in [Procs -> Job] BY <2>5, <2>6, SetJob
    <2> QED BY <1>7, <2>4, <2>7 DEF WriteOversized, TypeOK, Goto, Points
  <1>8. ASSUME Tidy(p) PROVE TypeOK'
    <2>1. [j EXCEPT !.back = "done"] \in Job BY <1>j DEF Job
    <2>2. job' = [job EXCEPT ![p] = [j EXCEPT !.back = "done"]] BY <1>8 DEF Tidy
    <2>3. job' \in [Procs -> Job] BY <2>1, <2>2, SetJob
    <2> QED BY <1>8, <2>3 DEF Tidy, TypeOK, Goto, Points, meta
  <1>9. ASSUME Publish(p) PROVE TypeOK'
    <2>1. [j EXCEPT !.out = None, !.tries = 0] \in Job BY <1>j DEF Job
    <2>2. job' = [job EXCEPT ![p] = [j EXCEPT !.out = None, !.tries = 0]] BY <1>9 DEF Publish
    <2>3. job' \in [Procs -> Job] BY <2>1, <2>2, SetJob
    <2>4. pos' \in [Segs -> Nat]
      <3>1. NSegs \in Nat BY NSegsType DEF TypeOK
      <3>2. pos' = [pos EXCEPT ![j.out] = NSegs + 1] BY <1>9 DEF Publish
      <3>3. NSegs + 1 \in Nat BY <3>1
      <3> QED BY <3>2, <3>3 DEF TypeOK
    <2>5. npending' \in Nat BY <1>9, <1>j DEF Publish, Left, Job, TypeOK
    <2>6. ASSUME j.op # "oversized" PROVE HeadLeft(p) \in 0..top
      <3>1. j.last \in Nat BY <1>j DEF Job
      <3>2. j.last < top BY <1>9, <2>6 DEF Publish, Goto, TailAfterSealed, Sealed
      <3> QED BY <3>1, <3>2 DEF HeadLeft, TypeOK
    <2>7. head' \in 0..top' /\ tail' \in 0..top' BY <1>9, <2>6 DEF Publish, TypeOK
    <2> QED BY <1>9, <2>3, <2>4, <2>5, <2>7 DEF Publish, TypeOK, Goto, Points
  <1>10. ASSUME MakeRoom(p) PROVE TypeOK'
    BY <1>10 DEF MakeRoom, TypeOK, Goto, Points, meta
  <1>11. ASSUME MergeForRoom(p) PROVE TypeOK'
    <2> DEFINE n == j.tries + 1
    <2>0. n \in Nat BY <1>j DEF Job
    <2>2. job' = [job EXCEPT ![p] = [j EXCEPT !.back = "publish", !.tries = n]]
      BY <1>11 DEF MergeForRoom
    <2> HIDE DEF n
    <2>1. [j EXCEPT !.back = "publish", !.tries = n] \in Job BY <1>j, <2>0 DEF Job
    <2>3. job' \in [Procs -> Job] BY <2>1, <2>2, SetJob
    <2> QED BY <1>11, <2>3 DEF MergeForRoom, TypeOK, Goto, Points, meta
  <1>12. ASSUME Lock(p) PROVE TypeOK'
    BY <1>12 DEF Lock, TypeOK, Goto, Points, meta
  <1>13. ASSUME Seal(p) PROVE TypeOK'
    <2>1. AfterFlush(j.op) \in Points BY DEF AfterFlush, Points
    <2>2. CASE npending = 0
      <3>1. [j EXCEPT !.back = "done"] \in Job BY <1>j DEF Job
      <3>2. job' = [job EXCEPT ![p] = [j EXCEPT !.back = "done"]] BY <1>13, <2>2 DEF Seal
      <3>3. job' \in [Procs -> Job] BY <3>1, <3>2, SetJob
      <3> QED BY <1>13, <2>1, <2>2, <3>3 DEF Seal, TypeOK, Goto, meta
    <2>3. CASE npending # 0
      <3>0. head \in Nat /\ tail \in Nat /\ npending \in Nat BY SizesAssumption DEF TypeOK
      <3>1. [j EXCEPT !.first = head, !.last = tail, !.sealed = npending] \in Job
        BY <1>j, <3>0 DEF Job
      <3>2. job' = [job EXCEPT ![p] = [j EXCEPT !.first = head, !.last = tail,
                                                !.sealed = npending]]
        BY <1>13, <2>3 DEF Seal
      <3>3. job' \in [Procs -> Job] BY <3>1, <3>2, SetJob
      <3>4. head' \in 0..top' /\ tail' \in 0..top' /\ top' \in 0..MaxPage
        BY <1>13, <2>3, SizesAssumption DEF Seal, SealTail, TypeOK
      <3> QED BY <1>13, <2>3, <3>3, <3>4 DEF Seal, TypeOK, Goto, Points
    <2> QED BY <2>2, <2>3
  <1>14. ASSUME Fold(p) PROVE TypeOK'
    <2> DEFINE D == (UNION {page[k] : k \in SealedPages(p)}) \ Blank
    <2>1. PICK i \in FreeSegs : /\ disk' = [disk EXCEPT ![i] = [docs |-> D, dead |-> {}]]
                                /\ job' = [job EXCEPT ![p].out = i]
      BY <1>14 DEF Fold
    <2>2. i \in Segs BY DEF FreeSegs
    <2>3. D \in SUBSET Docs BY DEF SealedPages, TypeOK
    <2>4. disk' \in [Segs -> Segment] BY <2>1, <2>2, <2>3, NewSegment
    <2>5. [j EXCEPT !.out = i] \in Job BY <1>j, <2>2 DEF Job
    <2>6. job' = [job EXCEPT ![p] = [j EXCEPT !.out = i]] BY <2>1
    <2>7. job' \in [Procs -> Job] BY <2>5, <2>6, SetJob
    <2> QED BY <1>14, <2>4, <2>7 DEF Fold, TypeOK, Goto, Points
  <1>15. ASSUME FreePages(p) PROVE TypeOK'
    <2> DEFINE new == [j EXCEPT !.back = "flushed", !.first = 0, !.last = 0, !.sealed = 0]
    <2>1. new \in Job BY <1>j DEF Job
    <2>2. job' = [job EXCEPT ![p] = new] BY <1>15 DEF FreePages
    <2>3. job' \in [Procs -> Job] BY <2>1, <2>2, SetJob
    <2>4. page' \in [Pages -> SUBSET Docs] BY <1>15 DEF FreePages, TypeOK
    <2> QED BY <1>15, <2>3, <2>4 DEF FreePages, TypeOK, Goto, Points
  <1>16. ASSUME MergeSelect(p) PROVE TypeOK'
    <2>1. PICK S \in SUBSET Candidates :
             job' = [job EXCEPT ![p].inp = [i \in Segs |-> IF i \in S THEN disk[i] ELSE None]]
      BY <1>16 DEF MergeSelect
    <2> DEFINE n == [i \in Segs |-> IF i \in S THEN disk[i] ELSE None]
    <2>2. n \in [Segs -> Segment \cup {None}] BY DEF TypeOK
    <2>3. job' = [job EXCEPT ![p] = [j EXCEPT !.inp = n]] BY <2>1
    <2> HIDE DEF n
    <2>4. [j EXCEPT !.inp = n] \in Job BY <1>j, <2>2 DEF Job
    <2>5. job' \in [Procs -> Job] BY <2>3, <2>4, SetJob
    <2> QED BY <1>16, <2>5 DEF MergeSelect, TypeOK, Goto, Points, meta
  <1>17. ASSUME MergeStream(p) PROVE TypeOK'
    <2> DEFINE D == UNION {Carried(p, i) : i \in Inputs(p)}
    <2>1. PICK o \in FreeSegs : /\ disk' = [disk EXCEPT ![o] = [docs |-> D, dead |-> {}]]
                                /\ job' = [job EXCEPT ![p].mout = o]
      BY <1>17 DEF MergeStream
    <2>2. o \in Segs BY DEF FreeSegs
    <2>3. D \in SUBSET Docs BY DEF Carried, Inputs, TypeOK, Segment
    <2>4. disk' \in [Segs -> Segment] BY <2>1, <2>2, <2>3, NewSegment
    <2>5. [j EXCEPT !.mout = o] \in Job BY <1>j, <2>2 DEF Job
    <2>6. job' = [job EXCEPT ![p] = [j EXCEPT !.mout = o]] BY <2>1
    <2>7. job' \in [Procs -> Job] BY <2>5, <2>6, SetJob
    <2> QED BY <1>17, <2>4, <2>7 DEF MergeStream, TypeOK, Goto, Points
  <1>18. ASSUME MergeSwap(p) PROVE TypeOK'
    <2>1. [j EXCEPT !.mout = None] \in Job BY <1>j DEF Job
    <2>2. job' = [job EXCEPT ![p] = [j EXCEPT !.mout = None]] BY <1>18 DEF MergeSwap
    <2>3. job' \in [Procs -> Job] BY <2>1, <2>2, SetJob
    <2>4. ASSUME NEW K \in SUBSET Segs PROVE Cardinality(K) \in Nat
      BY FiniteAssumption, FS_Subset, FS_CardinalityType
    <2> DEFINE kept == Dir \ Inputs(p)
    <2>5. Cardinality(kept) + 1 \in Nat BY <2>4 DEF Dir
    <2>6. \A i \in Segs : Rank(kept, i) \in Nat BY <2>4 DEF Rank, Dir
    <2>7. pos' = [i \in Segs |-> IF i = j.mout THEN Cardinality(kept) + 1
                                 ELSE IF i \in kept THEN Rank(kept, i) ELSE 0]
      BY <1>18 DEF MergeSwap
    <2>8. pos' \in [Segs -> Nat] BY <2>5, <2>6, <2>7
    <2> QED BY <1>18, <2>3, <2>8 DEF MergeSwap, TypeOK, Goto, Points
  <1>19. ASSUME FreeInputs(p) PROVE TypeOK'
    <2>1. [j EXCEPT !.inp = NoSegs] \in Job BY <1>j DEF Job, NoSegs
    <2>2. job' = [job EXCEPT ![p] = [j EXCEPT !.inp = NoSegs]] BY <1>19 DEF FreeInputs
    <2>3. job' \in [Procs -> Job] BY <2>1, <2>2, SetJob
    <2>4. disk' \in [Segs -> Segment] BY <1>19 DEF FreeInputs, TypeOK, NoSeg, Segment
    <2> QED BY <1>19, <2>3, <2>4 DEF FreeInputs, TypeOK, Goto, Points
  <1>20. ASSUME MergeReturn(p) PROVE TypeOK'
    <2> DEFINE b == IF j.back = "flushed" THEN "done" ELSE j.back
    <2> DEFINE new == [j EXCEPT !.inp = NoSegs, !.mout = None, !.back = b]
    <2>1. b \in {"none", "publish", "flushed", "done"} BY <1>j DEF Job
    <2>2. job' = [job EXCEPT ![p] = new] BY <1>20 DEF MergeReturn
    <2> HIDE DEF b
    <2>3. new \in Job BY <1>j, <2>1 DEF Job, NoSegs
    <2>4. job' \in [Procs -> Job] BY <2>2, <2>3, SetJob
    <2> QED BY <1>20, <2>4 DEF MergeReturn, TypeOK, Goto, Points, AfterFlush, meta
  <1>21. ASSUME Unlock(p) PROVE TypeOK'
    <2>1. job' \in [Procs -> Job] BY <1>21, IdleJobType DEF Unlock, TypeOK
    <2> QED BY <1>21, <2>1 DEF Unlock, TypeOK, Goto, Points, meta
  <1>22. ASSUME Vacuum(p) PROVE TypeOK'
    <2> DEFINE dead == TidsOf({d \in Docs : heap[d] = "dead"})
    <2> DEFINE o == IF dead = {} THEN "cleanup" ELSE "bulkdelete"
    <2>1. dead \in SUBSET Tids BY DocsAssumption DEF TidsOf
    <2>2. o \in Ops BY DEF Ops
    <2>3. job' = [job EXCEPT ![p] = [j EXCEPT !.op = o, !.vac = dead]] BY <1>22 DEF Vacuum
    <2> HIDE DEF dead, o
    <2>4. [j EXCEPT !.op = o, !.vac = dead] \in Job BY <1>j, <2>1, <2>2 DEF Job
    <2>5. job' \in [Procs -> Job] BY <2>3, <2>4, SetJob
    <2> QED BY <1>22, <2>5 DEF Vacuum, TypeOK, Goto, Points, meta
  <1>23. ASSUME FtsMerge(p) PROVE TypeOK'
    <2>1. [j EXCEPT !.op = "fts_merge"] \in Job BY <1>j DEF Job, Ops
    <2>2. job' = [job EXCEPT ![p] = [j EXCEPT !.op = "fts_merge"]] BY <1>23 DEF FtsMerge
    <2>3. job' \in [Procs -> Job] BY <2>1, <2>2, SetJob
    <2> QED BY <1>23, <2>3 DEF FtsMerge, TypeOK, Goto, Points, meta
  <1>24. ASSUME BulkSnapshot(p) PROVE TypeOK'
    <2> DEFINE n == [i \in Segs |-> IF i \in Dir THEN [pos |-> pos[i], dead |-> disk[i].dead]
                                    ELSE None]
    <2>1. n \in [Segs -> [pos : Nat, dead : SUBSET Tids] \cup {None}] BY DEF TypeOK, Segment
    <2>2. job' = [job EXCEPT ![p] = [j EXCEPT !.next = 1, !.snap = n]] BY <1>24 DEF BulkSnapshot
    <2> HIDE DEF n
    <2>3. [j EXCEPT !.next = 1, !.snap = n] \in Job BY <1>j, <2>1 DEF Job
    <2>4. job' \in [Procs -> Job] BY <2>2, <2>3, SetJob
    <2> QED BY <1>24, <2>4 DEF BulkSnapshot, TypeOK, Goto, Points, meta
  <1>25. ASSUME BulkSegment(p) PROVE TypeOK'
    <2>1. [j EXCEPT !.next = @ + 1] \in Job BY <1>j DEF Job
    <2>2. job' = [job EXCEPT ![p] = [j EXCEPT !.next = @ + 1]] BY <1>25 DEF BulkSegment
    <2>3. job' \in [Procs -> Job] BY <2>1, <2>2, SetJob
    <2>4. PICK i \in InSnapshot(p) :
             disk' = [k \in Segs |-> IF disk[i].docs # {} /\ pos[k] = j.next
                                     THEN [disk[k] EXCEPT !.dead = Tombstones(p, i)] ELSE disk[k]]
      BY <1>25 DEF BulkSegment
    <2>5. Tombstones(p, i) \in SUBSET Tids
      <3>1. j.snap[i].dead \in SUBSET Tids BY <1>j DEF InSnapshot, Job
      <3>2. TidsOf(disk[i].docs) \subseteq Tids
        BY DocsAssumption DEF TidsOf, InSnapshot, TypeOK, Segment
      <3> QED BY <3>1, <3>2 DEF Tombstones
    <2>6. disk' \in [Segs -> Segment] BY <2>4, <2>5 DEF TypeOK, Segment
    <2> QED BY <1>25, <2>3, <2>6 DEF BulkSegment, TypeOK
  <1>26. ASSUME BulkDone(p) PROVE TypeOK'
    <2>1. [j EXCEPT !.snap = NoSegs, !.next = 0] \in Job BY <1>j DEF Job, NoSegs
    <2>2. job' = [job EXCEPT ![p] = [j EXCEPT !.snap = NoSegs, !.next = 0]]
      BY <1>26 DEF BulkDone
    <2>3. job' \in [Procs -> Job] BY <2>1, <2>2, SetJob
    <2> QED BY <1>26, <2>3 DEF BulkDone, TypeOK, Goto, Points, meta
  <1>27. ASSUME Reclaim(p) PROVE TypeOK'
    <2>1. [j EXCEPT !.op = "cleanup", !.vac = {}] \in Job BY <1>j DEF Job, Ops
    <2>2. job' = [job EXCEPT ![p] = [j EXCEPT !.op = "cleanup", !.vac = {}]]
      BY <1>27 DEF Reclaim
    <2>3. job' \in [Procs -> Job] BY <2>1, <2>2, SetJob
    <2> QED BY <1>27, <2>3 DEF Reclaim, TypeOK, Goto, Points, meta
  <1> QED
    BY <1>1, <1>2, <1>4, <1>5, <1>6, <1>7, <1>8, <1>9, <1>10, <1>11, <1>12, <1>13,
       <1>14, <1>15, <1>16, <1>17, <1>18, <1>19, <1>20, <1>21, <1>22, <1>23, <1>24, <1>25,
       <1>26, <1>27
       DEF Continue, Insert, Flush, AddSegment, Merge, BulkDelete, Refuse

LEMMA StepType == TypeInv /\ Next => TypeOK'
  <1>1. ASSUME TypeInv, NEW d \in Docs, Delete(d) PROVE TypeOK'
    BY <1>1 DEF TypeInv, Delete, TypeOK, meta
  <1> QED BY <1>1, ProcType DEF Next, Work, Serve

LEMMA StepControl ==
    TypeInv /\ Next => DocKnown' /\ OversizedWrites' /\ TailAfterSealed'
  <1> SUFFICES ASSUME TypeInv, Next PROVE DocKnown' /\ OversizedWrites' /\ TailAfterSealed'
    OBVIOUS
  <1> USE DEF TypeInv
  <1> DEFINE Control == DocKnown' /\ OversizedWrites' /\ TailAfterSealed'
  <1>t. top \in Nat /\ tail \in 0..top /\ pc \in [Procs -> Points] /\ job \in [Procs -> Job]
    BY SizesAssumption DEF TypeOK
  <1>1. ASSUME NEW p \in Procs, NEW d \in Docs, HeapInsert(p, d) PROVE Control
    BY <1>1, <1>t DEF HeapInsert, DocKnown, OversizedWrites, TailAfterSealed, Sealed, Goto, Job,
       meta
  <1>2. ASSUME NEW d \in Docs, Delete(d) PROVE Control
    BY <1>2 DEF Delete, DocKnown, OversizedWrites, TailAfterSealed, Sealed, Goto, Job, meta
  <1>3. ASSUME NEW p \in Procs, Commit(p) PROVE Control
    BY <1>3, <1>t DEF Commit, DocKnown, OversizedWrites, TailAfterSealed, Sealed, Goto, Job,
       meta
  <1>4. ASSUME NEW p \in Procs, Abort(p) PROVE Control
    BY <1>4, <1>t DEF Abort, DocKnown, OversizedWrites, TailAfterSealed, Sealed, Goto, Job, meta
  <1>5. ASSUME NEW p \in Procs, AppendPending(p) PROVE Control
    BY <1>5, <1>t DEF AppendPending, DocKnown, OversizedWrites, TailAfterSealed, Sealed, Goto,
       Job, meta
  <1>6. ASSUME NEW p \in Procs, TryFlush(p) PROVE Control
    BY <1>6, <1>t DEF TryFlush, DocKnown, OversizedWrites, TailAfterSealed, Sealed, Goto, Job,
       meta
  <1>7. ASSUME NEW p \in Procs, WriteOversized(p) PROVE Control
    BY <1>7, <1>t DEF WriteOversized, DocKnown, OversizedWrites, TailAfterSealed, Sealed, Goto,
       Job, meta
  <1>8. ASSUME NEW p \in Procs, Tidy(p) PROVE Control
    BY <1>8, <1>t DEF Tidy, DocKnown, OversizedWrites, TailAfterSealed, Sealed, Goto, Job, meta
  <1>9. ASSUME NEW p \in Procs, Publish(p) PROVE Control
    BY <1>9, <1>t DEF Publish, DocKnown, OversizedWrites, TailAfterSealed, Sealed, Goto, Job,
       meta
  <1>10. ASSUME NEW p \in Procs, MakeRoom(p) PROVE Control
    BY <1>10, <1>t DEF MakeRoom, DocKnown, OversizedWrites, TailAfterSealed, Sealed, Goto, Job,
       meta
  <1>11. ASSUME NEW p \in Procs, MergeForRoom(p) PROVE Control
    BY <1>11, <1>t DEF MergeForRoom, DocKnown, OversizedWrites, TailAfterSealed, Sealed, Goto,
       Job, meta
  <1>12. ASSUME NEW p \in Procs, Lock(p) PROVE Control
    BY <1>12, <1>t DEF Lock, DocKnown, OversizedWrites, TailAfterSealed, Sealed, Goto, Job, meta
  <1>13. ASSUME NEW p \in Procs, Seal(p) PROVE Control
    <2>1. AfterFlush(job[p].op) \in {"tidy", "bulk", "select"} BY DEF AfterFlush
    <2>2. CASE npending = 0
      BY <1>13, <1>t, <2>1, <2>2
         DEF Seal, DocKnown, OversizedWrites, TailAfterSealed, Sealed, Goto, Job, meta
    <2>3. CASE npending # 0
      <3>1. tail < top' BY <1>13, <1>t, <2>3 DEF Seal
      <3>2. TailAfterSealed' BY <1>13, <1>t, <2>3, <3>1
         DEF Seal, TailAfterSealed, Sealed, Goto, Job
      <3>3. DocKnown' /\ OversizedWrites' BY <1>13, <1>t, <2>3
         DEF Seal, DocKnown, OversizedWrites, Goto, Job
      <3> QED BY <3>2, <3>3
    <2> QED BY <2>2, <2>3
  <1>14. ASSUME NEW p \in Procs, Fold(p) PROVE Control
    BY <1>14, <1>t DEF Fold, DocKnown, OversizedWrites, TailAfterSealed, Sealed, Goto, Job, meta
  <1>15. ASSUME NEW p \in Procs, FreePages(p) PROVE Control
    BY <1>15, <1>t DEF FreePages, DocKnown, OversizedWrites, TailAfterSealed, Sealed, Goto, Job,
       meta
  <1>16. ASSUME NEW p \in Procs, MergeSelect(p) PROVE Control
    BY <1>16, <1>t DEF MergeSelect, DocKnown, OversizedWrites, TailAfterSealed, Sealed, Goto,
       Job, meta
  <1>17. ASSUME NEW p \in Procs, MergeStream(p) PROVE Control
    BY <1>17, <1>t DEF MergeStream, DocKnown, OversizedWrites, TailAfterSealed, Sealed, Goto,
       Job, meta
  <1>18. ASSUME NEW p \in Procs, MergeSwap(p) PROVE Control
    BY <1>18, <1>t DEF MergeSwap, DocKnown, OversizedWrites, TailAfterSealed, Sealed, Goto, Job,
       meta
  <1>19. ASSUME NEW p \in Procs, FreeInputs(p) PROVE Control
    BY <1>19, <1>t DEF FreeInputs, DocKnown, OversizedWrites, TailAfterSealed, Sealed, Goto,
       Job, meta
  <1>20. ASSUME NEW p \in Procs, MergeReturn(p) PROVE Control
    BY <1>20, <1>t DEF MergeReturn, DocKnown, OversizedWrites, TailAfterSealed, Sealed, Goto,
       Job, meta
  <1>21. ASSUME NEW p \in Procs, Unlock(p) PROVE Control
    BY <1>21, <1>t DEF Unlock, DocKnown, OversizedWrites, TailAfterSealed, Sealed, Goto, Job,
       meta
  <1>22. ASSUME NEW p \in Procs, Vacuum(p) PROVE Control
    BY <1>22, <1>t DEF Vacuum, DocKnown, OversizedWrites, TailAfterSealed, Sealed, Goto, Job,
       meta
  <1>23. ASSUME NEW p \in Procs, FtsMerge(p) PROVE Control
    BY <1>23, <1>t DEF FtsMerge, DocKnown, OversizedWrites, TailAfterSealed, Sealed, Goto, Job,
       meta
  <1>24. ASSUME NEW p \in Procs, BulkSnapshot(p) PROVE Control
    BY <1>24, <1>t DEF BulkSnapshot, DocKnown, OversizedWrites, TailAfterSealed, Sealed, Goto,
       Job, meta
  <1>25. ASSUME NEW p \in Procs, BulkSegment(p) PROVE Control
    BY <1>25, <1>t DEF BulkSegment, DocKnown, OversizedWrites, TailAfterSealed, Sealed, Goto,
       Job, meta
  <1>26. ASSUME NEW p \in Procs, BulkDone(p) PROVE Control
    BY <1>26, <1>t DEF BulkDone, DocKnown, OversizedWrites, TailAfterSealed, Sealed, Goto, Job,
       meta
  <1>27. ASSUME NEW p \in Procs, Reclaim(p) PROVE Control
    BY <1>27, <1>t DEF Reclaim, DocKnown, OversizedWrites, TailAfterSealed, Sealed, Goto, Job,
       meta
  <1> QED BY <1>1, <1>2, <1>3, <1>4, <1>5, <1>6, <1>7, <1>8, <1>9, <1>10, <1>11, <1>12, <1>13,
     <1>14, <1>15, <1>16, <1>17, <1>18, <1>19, <1>20, <1>21, <1>22, <1>23, <1>24, <1>25, <1>26,
     <1>27
       DEF Next, Work, Serve, Continue, Insert, Flush, AddSegment, Merge, BulkDelete, Refuse

LEMMA StepTypeInv == TypeInv /\ [Next]_vars => TypeInv'
  <1>1. ASSUME TypeInv, UNCHANGED vars PROVE TypeInv'
    BY <1>1 DEF TypeInv, vars, meta, TypeOK, DocKnown, OversizedWrites, TailAfterSealed, Sealed
  <1>2. ASSUME TypeInv, Next PROVE TypeInv'
    BY <1>2, StepType, StepControl DEF TypeInv
  <1> QED BY <1>1, <1>2

\* Every variable keeps its type, in every instance of the module.
THEOREM TypeCorrect == Spec => []TypeOK
  <1>1. TypeInv => TypeOK BY DEF TypeInv
  <1> QED BY InitTypeInv, StepTypeInv, <1>1, PTL DEF Spec

-----------------------------------------------------------------------------
(* Mutual exclusion: the maintenance lock serialises flush, merge and VACUUM. *)

\* p is inside a flush, a merge or a bulkdelete.
Maintaining(p) ==
    \/ pc[p] \in {"seal", "fold", "freepages", "select", "stream", "swap",
                  "freeinputs", "unlock", "bulk", "bulkseg"}
    \/ pc[p] \in {"publish", "makeroom"} /\ job[p].op # "oversized"

Exclusion == \A p \in Procs : Maintaining(p) => mutex = p

LEMMA StepExclusion == TypeInv /\ Exclusion /\ Next => Exclusion'
  <1> SUFFICES ASSUME TypeInv, Exclusion, Next PROVE Exclusion'
    OBVIOUS
  <1> USE NoneAssumption
  <1>t. pc \in [Procs -> Points] /\ job \in [Procs -> Job] /\ OversizedWrites
    BY DEF TypeInv, TypeOK
  <1>1. ASSUME NEW p \in Procs, NEW d \in Docs, HeapInsert(p, d) PROVE Exclusion'
    BY <1>1, <1>t DEF HeapInsert, Exclusion, Maintaining, Goto, Job, meta
  <1>2. ASSUME NEW d \in Docs, Delete(d) PROVE Exclusion'
    BY <1>2 DEF Delete, Exclusion, Maintaining, Goto, Job, meta
  <1>3. ASSUME NEW p \in Procs, Commit(p) PROVE Exclusion'
    BY <1>3, <1>t DEF Commit, Exclusion, Maintaining, Goto, Job, meta
  <1>4. ASSUME NEW p \in Procs, Abort(p) PROVE Exclusion'
    BY <1>4, <1>t DEF Abort, Exclusion, Maintaining, Goto, Job, meta
  <1>5. ASSUME NEW p \in Procs, AppendPending(p) PROVE Exclusion'
    BY <1>5, <1>t DEF AppendPending, Exclusion, Maintaining, Goto, Job, meta
  <1>6. ASSUME NEW p \in Procs, TryFlush(p) PROVE Exclusion'
    BY <1>6, <1>t DEF TryFlush, Exclusion, Maintaining, Goto, Job, meta
  <1>7. ASSUME NEW p \in Procs, WriteOversized(p) PROVE Exclusion'
    BY <1>7, <1>t DEF WriteOversized, Exclusion, Maintaining, Goto, Job, meta, OversizedWrites
  <1>8. ASSUME NEW p \in Procs, Tidy(p) PROVE Exclusion'
    BY <1>8, <1>t DEF Tidy, Exclusion, Maintaining, Goto, Job, meta
  <1>9. ASSUME NEW p \in Procs, Publish(p) PROVE Exclusion'
    BY <1>9, <1>t DEF Publish, Exclusion, Maintaining, Goto, Job, meta
  <1>10. ASSUME NEW p \in Procs, MakeRoom(p) PROVE Exclusion'
    BY <1>10, <1>t DEF MakeRoom, Exclusion, Maintaining, Goto, Job, meta
  <1>11. ASSUME NEW p \in Procs, MergeForRoom(p) PROVE Exclusion'
    BY <1>11, <1>t DEF MergeForRoom, Exclusion, Maintaining, Goto, Job, meta
  <1>12. ASSUME NEW p \in Procs, Lock(p) PROVE Exclusion'
    BY <1>12, <1>t DEF Lock, Exclusion, Maintaining, Goto, Job, meta
  <1>13. ASSUME NEW p \in Procs, Seal(p) PROVE Exclusion'
    BY <1>13, <1>t DEF Seal, Exclusion, Maintaining, Goto, Job, meta, AfterFlush
  <1>14. ASSUME NEW p \in Procs, Fold(p) PROVE Exclusion'
    BY <1>14, <1>t DEF Fold, Exclusion, Maintaining, Goto, Job, meta
  <1>15. ASSUME NEW p \in Procs, FreePages(p) PROVE Exclusion'
    BY <1>15, <1>t DEF FreePages, Exclusion, Maintaining, Goto, Job, meta
  <1>16. ASSUME NEW p \in Procs, MergeSelect(p) PROVE Exclusion'
    BY <1>16, <1>t DEF MergeSelect, Exclusion, Maintaining, Goto, Job, meta
  <1>17. ASSUME NEW p \in Procs, MergeStream(p) PROVE Exclusion'
    BY <1>17, <1>t DEF MergeStream, Exclusion, Maintaining, Goto, Job, meta
  <1>18. ASSUME NEW p \in Procs, MergeSwap(p) PROVE Exclusion'
    BY <1>18, <1>t DEF MergeSwap, Exclusion, Maintaining, Goto, Job, meta
  <1>19. ASSUME NEW p \in Procs, FreeInputs(p) PROVE Exclusion'
    BY <1>19, <1>t DEF FreeInputs, Exclusion, Maintaining, Goto, Job, meta
  <1>20. ASSUME NEW p \in Procs, MergeReturn(p) PROVE Exclusion'
    BY <1>20, <1>t DEF MergeReturn, Exclusion, Maintaining, Goto, Job, meta, AfterFlush
  <1>21. ASSUME NEW p \in Procs, Unlock(p) PROVE Exclusion'
    BY <1>21, <1>t DEF Unlock, Exclusion, Maintaining, Goto, Job, meta
  <1>22. ASSUME NEW p \in Procs, Vacuum(p) PROVE Exclusion'
    BY <1>22, <1>t DEF Vacuum, Exclusion, Maintaining, Goto, Job, meta
  <1>23. ASSUME NEW p \in Procs, FtsMerge(p) PROVE Exclusion'
    BY <1>23, <1>t DEF FtsMerge, Exclusion, Maintaining, Goto, Job, meta
  <1>24. ASSUME NEW p \in Procs, BulkSnapshot(p) PROVE Exclusion'
    BY <1>24, <1>t DEF BulkSnapshot, Exclusion, Maintaining, Goto, Job, meta
  <1>25. ASSUME NEW p \in Procs, BulkSegment(p) PROVE Exclusion'
    BY <1>25, <1>t DEF BulkSegment, Exclusion, Maintaining, Goto, Job, meta
  <1>26. ASSUME NEW p \in Procs, BulkDone(p) PROVE Exclusion'
    BY <1>26, <1>t DEF BulkDone, Exclusion, Maintaining, Goto, Job, meta
  <1>27. ASSUME NEW p \in Procs, Reclaim(p) PROVE Exclusion'
    BY <1>27, <1>t DEF Reclaim, Exclusion, Maintaining, Goto, Job, meta
  <1> QED BY <1>1, <1>2, <1>3, <1>4, <1>5, <1>6, <1>7, <1>8, <1>9, <1>10, <1>11, <1>12, <1>13,
     <1>14, <1>15, <1>16, <1>17, <1>18, <1>19, <1>20, <1>21, <1>22, <1>23, <1>24, <1>25, <1>26,
     <1>27
       DEF Next, Work, Serve, Continue, Insert, Flush, AddSegment, Merge, BulkDelete, Refuse

\* At most one backend at a time flushes, merges or runs bulkdelete, and it
\* holds the maintenance lock, whoever fails when.
THEOREM MutualExclusion == Spec => [](TypeInv /\ Exclusion)
  <1>1. Init => Exclusion BY DEF Init, Exclusion, Maintaining
  <1>2. TypeInv /\ Exclusion /\ [Next]_vars => (TypeInv /\ Exclusion)'
    <2>1. ASSUME TypeInv, Exclusion, UNCHANGED vars PROVE Exclusion'
      BY <2>1 DEF vars, Exclusion, Maintaining
    <2> QED BY <2>1, StepExclusion, StepTypeInv
  <1> QED BY InitTypeInv, <1>1, <1>2, PTL DEF Spec

-----------------------------------------------------------------------------
(* A merge finds its inputs. *)

\* From the choice of its inputs to the swap, a merge's inputs stay in the
\* directory, as they were chosen.
InputsKept == \A p \in Procs : pc[p] \in {"stream", "swap"} => AllFound(p)

LEMMA StepInputsKept ==
    TypeInv /\ Exclusion /\ InputsKept /\ Next => InputsKept'
  <1> SUFFICES ASSUME TypeInv, Exclusion, InputsKept, Next PROVE InputsKept'
    OBVIOUS
  <1> USE NoneAssumption
  <1>t. /\ pc \in [Procs -> Points] /\ job \in [Procs -> Job]
        /\ pos \in [Segs -> Nat] /\ disk \in [Segs -> Segment]
    BY DEF TypeInv, TypeOK
  <1>1. ASSUME NEW p \in Procs, NEW d \in Docs, HeapInsert(p, d) PROVE InputsKept'
    BY <1>1, <1>t DEF HeapInsert, InputsKept, AllFound, Inputs, Exclusion, Maintaining, Goto,
       Job, meta
  <1>2. ASSUME NEW d \in Docs, Delete(d) PROVE InputsKept'
    BY <1>2 DEF Delete, InputsKept, AllFound, Inputs, Exclusion, Maintaining, Goto, Job, meta
  <1>3. ASSUME NEW p \in Procs, Commit(p) PROVE InputsKept'
    BY <1>3, <1>t DEF Commit, InputsKept, AllFound, Inputs, Exclusion, Maintaining, Goto, Job,
       meta
  <1>4. ASSUME NEW p \in Procs, Abort(p) PROVE InputsKept'
    BY <1>4, <1>t DEF Abort, InputsKept, AllFound, Inputs, Exclusion, Maintaining, Goto, Job,
       meta
  <1>5. ASSUME NEW p \in Procs, AppendPending(p) PROVE InputsKept'
    BY <1>5, <1>t DEF AppendPending, InputsKept, AllFound, Inputs, Exclusion, Maintaining, Goto,
       Job, meta
  <1>6. ASSUME NEW p \in Procs, TryFlush(p) PROVE InputsKept'
    BY <1>6, <1>t DEF TryFlush, InputsKept, AllFound, Inputs, Exclusion, Maintaining, Goto, Job,
       meta
  <1>7. ASSUME NEW p \in Procs, WriteOversized(p) PROVE InputsKept'
    BY <1>7, <1>t DEF WriteOversized, InputsKept, AllFound, Inputs, Exclusion, Maintaining,
       Goto, Job, meta, FreeSegs
  <1>8. ASSUME NEW p \in Procs, Tidy(p) PROVE InputsKept'
    BY <1>8, <1>t DEF Tidy, InputsKept, AllFound, Inputs, Exclusion, Maintaining, Goto, Job,
       meta
  <1>9. ASSUME NEW p \in Procs, Publish(p) PROVE InputsKept'
    <2>1. NSegs + 1 # 0
      <3>1. NSegs \in Nat BY <1>t, NSegsType
      <3> QED BY <3>1
    <2> DEFINE n == NSegs + 1
    <2>2. pos' = [pos EXCEPT ![job[p].out] = n] /\ disk' = disk BY <1>9 DEF Publish
    <2>3. \A q \in Procs : job'[q].inp = job[q].inp BY <1>9, <1>t DEF Publish, Job
    <2>4. \A q \in Procs : pc'[q] \in {"stream", "swap"} => pc'[q] = pc[q]
      BY <1>9, <1>t DEF Publish, Goto
    <2> HIDE DEF n
    <2> QED BY <2>1, <2>2, <2>3, <2>4, <1>t DEF n, InputsKept, AllFound, Inputs
  <1>10. ASSUME NEW p \in Procs, MakeRoom(p) PROVE InputsKept'
    BY <1>10, <1>t DEF MakeRoom, InputsKept, AllFound, Inputs, Exclusion, Maintaining, Goto,
       Job, meta
  <1>11. ASSUME NEW p \in Procs, MergeForRoom(p) PROVE InputsKept'
    BY <1>11, <1>t DEF MergeForRoom, InputsKept, AllFound, Inputs, Exclusion, Maintaining, Goto,
       Job, meta
  <1>12. ASSUME NEW p \in Procs, Lock(p) PROVE InputsKept'
    BY <1>12, <1>t DEF Lock, InputsKept, AllFound, Inputs, Exclusion, Maintaining, Goto, Job,
       meta
  <1>13. ASSUME NEW p \in Procs, Seal(p) PROVE InputsKept'
    BY <1>13, <1>t DEF Seal, InputsKept, AllFound, Inputs, Exclusion, Maintaining, Goto, Job,
       meta, AfterFlush
  <1>14. ASSUME NEW p \in Procs, Fold(p) PROVE InputsKept'
    BY <1>14, <1>t DEF Fold, InputsKept, AllFound, Inputs, Exclusion, Maintaining, Goto, Job,
       meta, FreeSegs
  <1>15. ASSUME NEW p \in Procs, FreePages(p) PROVE InputsKept'
    BY <1>15, <1>t DEF FreePages, InputsKept, AllFound, Inputs, Exclusion, Maintaining, Goto,
       Job, meta
  <1>16. ASSUME NEW p \in Procs, MergeSelect(p) PROVE InputsKept'
    BY <1>16, <1>t DEF MergeSelect, InputsKept, AllFound, Inputs, Exclusion, Maintaining, Goto,
       Job, meta, Candidates, Dir
  <1>17. ASSUME NEW p \in Procs, MergeStream(p) PROVE InputsKept'
    BY <1>17, <1>t DEF MergeStream, InputsKept, AllFound, Inputs, Exclusion, Maintaining, Goto,
       Job, meta, FreeSegs
  <1>18. ASSUME NEW p \in Procs, MergeSwap(p) PROVE InputsKept'
    BY <1>18, <1>t DEF MergeSwap, InputsKept, AllFound, Inputs, Exclusion, Maintaining, Goto,
       Job, meta
  <1>19. ASSUME NEW p \in Procs, FreeInputs(p) PROVE InputsKept'
    BY <1>19, <1>t DEF FreeInputs, InputsKept, AllFound, Inputs, Exclusion, Maintaining, Goto,
       Job, meta
  <1>20. ASSUME NEW p \in Procs, MergeReturn(p) PROVE InputsKept'
    BY <1>20, <1>t DEF MergeReturn, InputsKept, AllFound, Inputs, Exclusion, Maintaining, Goto,
       Job, meta, AfterFlush
  <1>21. ASSUME NEW p \in Procs, Unlock(p) PROVE InputsKept'
    BY <1>21, <1>t DEF Unlock, InputsKept, AllFound, Inputs, Exclusion, Maintaining, Goto, Job,
       meta
  <1>22. ASSUME NEW p \in Procs, Vacuum(p) PROVE InputsKept'
    BY <1>22, <1>t DEF Vacuum, InputsKept, AllFound, Inputs, Exclusion, Maintaining, Goto, Job,
       meta
  <1>23. ASSUME NEW p \in Procs, FtsMerge(p) PROVE InputsKept'
    BY <1>23, <1>t DEF FtsMerge, InputsKept, AllFound, Inputs, Exclusion, Maintaining, Goto,
       Job, meta
  <1>24. ASSUME NEW p \in Procs, BulkSnapshot(p) PROVE InputsKept'
    BY <1>24, <1>t DEF BulkSnapshot, InputsKept, AllFound, Inputs, Exclusion, Maintaining, Goto,
       Job, meta
  <1>25. ASSUME NEW p \in Procs, BulkSegment(p) PROVE InputsKept'
    BY <1>25, <1>t DEF BulkSegment, InputsKept, AllFound, Inputs, Exclusion, Maintaining, Goto,
       Job, meta
  <1>26. ASSUME NEW p \in Procs, BulkDone(p) PROVE InputsKept'
    BY <1>26, <1>t DEF BulkDone, InputsKept, AllFound, Inputs, Exclusion, Maintaining, Goto,
       Job, meta
  <1>27. ASSUME NEW p \in Procs, Reclaim(p) PROVE InputsKept'
    BY <1>27, <1>t DEF Reclaim, InputsKept, AllFound, Inputs, Exclusion, Maintaining, Goto, Job,
       meta
  <1> QED BY <1>1, <1>2, <1>3, <1>4, <1>5, <1>6, <1>7, <1>8, <1>9, <1>10, <1>11, <1>12, <1>13,
     <1>14, <1>15, <1>16, <1>17, <1>18, <1>19, <1>20, <1>21, <1>22, <1>23, <1>24, <1>25, <1>26,
     <1>27
       DEF Next, Work, Serve, Continue, Insert, Flush, AddSegment, Merge, BulkDelete, Refuse

\* A merge never throws its output away: whatever the other backends publish
\* meanwhile, it finds every input in the directory, unchanged, when it swaps.
THEOREM MergeFindsInputs == Spec => []InputsFound
  <1> DEFINE Inv == TypeInv /\ Exclusion /\ InputsKept
  <1>1. Init => Inv
    <2>1. Init => Exclusion /\ InputsKept
      BY DEF Init, Exclusion, Maintaining, InputsKept
    <2> QED BY <2>1, InitTypeInv
  <1>2. Inv /\ [Next]_vars => Inv'
    <2>1. ASSUME Inv, UNCHANGED vars PROVE Exclusion' /\ InputsKept'
      BY <2>1 DEF vars, meta, Exclusion, Maintaining, InputsKept, AllFound, Inputs
    <2> QED BY <2>1, StepInputsKept, StepExclusion, StepTypeInv
  <1>3. Inv => InputsFound BY DEF InputsKept, InputsFound
  <1> QED BY <1>1, <1>2, <1>3, PTL DEF Spec

-----------------------------------------------------------------------------
(***************************************************************************)
(* Which operation has which segment in hand, and the directory as a dense *)
(* array (FtsDirectory, for any documents, backends and bounds).           *)
(***************************************************************************)

(* Where the operations are. *)
Merging(p) == pc[p] \in {"select", "stream", "swap", "freeinputs"}
Storing(p) == job[p].op \in {"insert", "oversized"}

\* p has written a segment that is not in the directory yet.
Adding(p) == pc[p] \in {"publish", "makeroom"} \/ (Merging(p) /\ job[p].back = "publish")

IdleClean == \A p \in Procs : pc[p] = "idle" => job[p] = IdleJob

\* The operation a program point belongs to.
OpAt ==
    \A p \in Procs :
        /\ pc[p] # "idle" => job[p].op # "none"
        /\ pc[p] \in {"append", "tryflush"} => job[p].op = "insert"
        /\ pc[p] \in {"tidy", "commit"} => Storing(p)
        /\ pc[p] \in {"bulk", "bulkseg", "reclaim"} => job[p].op = "bulkdelete"
        /\ pc[p] = "lock" => ~Storing(p)
        /\ pc[p] \in {"seal", "fold", "freepages"} => job[p].op # "oversized"

\* Only inserts have a document, and it is theirs alone until they commit.
DocOwned ==
    \A p \in Procs :
        IF Storing(p)
        THEN /\ job[p].doc \in Docs /\ heap[job[p].doc] = "inserting"
             /\ job[p].op = "oversized" <=> job[p].doc \in Oversized
        ELSE job[p].doc = None
OneOwner == \A p, q \in Procs : job[p].doc = job[q].doc /\ job[p].doc # None => p = q

Control == IdleClean /\ OpAt
Owners == DocOwned /\ OneOwner

LEMMA StepControlled ==
    TypeInv /\ Control /\ Next => Control'
  <1> SUFFICES ASSUME TypeInv, Control, Next PROVE Control'
    OBVIOUS
  <1> USE NoneAssumption
  <1>t. pc \in [Procs -> Points] /\ job \in [Procs -> Job] /\ OversizedWrites
    BY DEF TypeInv, TypeOK
  <1>1. ASSUME NEW p \in Procs, NEW d \in Docs, HeapInsert(p, d) PROVE Control'
    BY <1>1, <1>t DEF HeapInsert, Control, IdleClean, OpAt, Storing, Goto, Job, meta, IdleJob
  <1>2. ASSUME NEW d \in Docs, Delete(d) PROVE Control'
    BY <1>2, <1>t DEF Delete, Control, IdleClean, OpAt, Storing, Goto, Job, meta
  <1>3. ASSUME NEW p \in Procs, Commit(p) PROVE Control'
    BY <1>3, <1>t DEF Commit, Control, IdleClean, OpAt, Storing, Goto, Job, meta, IdleJob
  <1>4. ASSUME NEW p \in Procs, Abort(p) PROVE Control'
    BY <1>4, <1>t DEF Abort, Control, IdleClean, OpAt, Storing, Goto, Job, meta, IdleJob
  <1>5. ASSUME NEW p \in Procs, AppendPending(p) PROVE Control'
    BY <1>5, <1>t DEF AppendPending, Control, IdleClean, OpAt, Storing, Goto, Job
  <1>6. ASSUME NEW p \in Procs, TryFlush(p) PROVE Control'
    BY <1>6, <1>t DEF TryFlush, Control, IdleClean, OpAt, Storing, Goto, Job, meta
  <1>7. ASSUME NEW p \in Procs, WriteOversized(p) PROVE Control'
    BY <1>7, <1>t DEF WriteOversized, Control, IdleClean, OpAt, Storing, Goto, Job,
       OversizedWrites
  <1>8. ASSUME NEW p \in Procs, Tidy(p) PROVE Control'
    BY <1>8, <1>t DEF Tidy, Control, IdleClean, OpAt, Storing, Goto, Job, meta
  <1>9. ASSUME NEW p \in Procs, Publish(p) PROVE Control'
    BY <1>9, <1>t DEF Publish, Control, IdleClean, OpAt, Storing, Goto, Job
  <1>10. ASSUME NEW p \in Procs, MakeRoom(p) PROVE Control'
    BY <1>10, <1>t DEF MakeRoom, Control, IdleClean, OpAt, Storing, Goto, Job, meta
  <1>11. ASSUME NEW p \in Procs, MergeForRoom(p) PROVE Control'
    BY <1>11, <1>t DEF MergeForRoom, Control, IdleClean, OpAt, Storing, Goto, Job, meta
  <1>12. ASSUME NEW p \in Procs, Lock(p) PROVE Control'
    BY <1>12, <1>t DEF Lock, Control, IdleClean, OpAt, Storing, Goto, Job, meta
  <1>13. ASSUME NEW p \in Procs, Seal(p) PROVE Control'
    <2> DEFINE j == job[p]
    <2> DEFINE new == IF npending = 0 THEN [j EXCEPT !.back = "done"]
                      ELSE [j EXCEPT !.first = head, !.last = tail, !.sealed = npending]
    <2>1. job' = [job EXCEPT ![p] = new] BY <1>13 DEF Seal
    <2>2. new.op = j.op /\ new.doc = j.doc BY <1>t DEF Job
    <2> HIDE DEF new
    <2>3. AfterFlush(j.op) \in {"tidy", "bulk", "select"}
          /\ (AfterFlush(j.op) = "tidy" <=> j.op = "insert")
          /\ (AfterFlush(j.op) = "bulk" <=> j.op = "bulkdelete")
      BY DEF AfterFlush
    <2>4. pc[p] = "seal" /\ \E b \in {AfterFlush(j.op), "fold"} : pc' = [pc EXCEPT ![p] = b]
      BY <1>13 DEF Seal, Goto
    <2>5. heap' = heap BY <1>13 DEF Seal
    <2> QED BY <1>t, <2>1, <2>2, <2>3, <2>4, <2>5 DEF Control, IdleClean, OpAt, Storing
  <1>14. ASSUME NEW p \in Procs, Fold(p) PROVE Control'
    BY <1>14, <1>t DEF Fold, Control, IdleClean, OpAt, Storing, Goto, Job
  <1>15. ASSUME NEW p \in Procs, FreePages(p) PROVE Control'
    BY <1>15, <1>t DEF FreePages, Control, IdleClean, OpAt, Storing, Goto, Job
  <1>16. ASSUME NEW p \in Procs, MergeSelect(p) PROVE Control'
    BY <1>16, <1>t DEF MergeSelect, Control, IdleClean, OpAt, Storing, Goto, Job, meta
  <1>17. ASSUME NEW p \in Procs, MergeStream(p) PROVE Control'
    BY <1>17, <1>t DEF MergeStream, Control, IdleClean, OpAt, Storing, Goto, Job
  <1>18. ASSUME NEW p \in Procs, MergeSwap(p) PROVE Control'
    BY <1>18, <1>t DEF MergeSwap, Control, IdleClean, OpAt, Storing, Goto, Job
  <1>19. ASSUME NEW p \in Procs, FreeInputs(p) PROVE Control'
    BY <1>19, <1>t DEF FreeInputs, Control, IdleClean, OpAt, Storing, Goto, Job
  <1>20. ASSUME NEW p \in Procs, MergeReturn(p) PROVE Control'
    BY <1>20, <1>t DEF MergeReturn, Control, IdleClean, OpAt, Storing, Goto, Job, meta,
       AfterFlush
  <1>21. ASSUME NEW p \in Procs, Unlock(p) PROVE Control'
    <2>1. CASE Storing(p)
      <3>1. pc' = [pc EXCEPT ![p] = "commit"] /\ job' = job
        BY <1>21, <2>1 DEF Unlock, Goto, Storing
      <3> QED BY <1>t, <2>1, <3>1 DEF Control, IdleClean, OpAt, Storing, Job
    <2>2. CASE job[p].op = "bulkdelete"
      <3>1. pc' = [pc EXCEPT ![p] = "reclaim"] /\ job' = job
        BY <1>21, <2>2 DEF Unlock, Goto
      <3> QED BY <1>t, <2>2, <3>1 DEF Control, IdleClean, OpAt, Storing, Job
    <2>3. CASE ~Storing(p) /\ job[p].op # "bulkdelete"
      <3>1. job[p].op \in {"cleanup", "fts_merge"}
        <4>1. pc[p] = "unlock" BY <1>21 DEF Unlock, Goto
        <4>2. job[p].op # "none" BY <4>1 DEF Control, OpAt
        <4> QED BY <1>t, <2>3, <4>2 DEF Job, Ops, Storing
      <3>2. pc' = [pc EXCEPT ![p] = "idle"] /\ job' = [job EXCEPT ![p] = IdleJob]
        BY <1>21, <3>1 DEF Unlock, Goto
      <3> QED BY <1>t, <3>2 DEF Control, IdleClean, OpAt, Storing
    <2> QED BY <2>1, <2>2, <2>3
  <1>22. ASSUME NEW p \in Procs, Vacuum(p) PROVE Control'
    BY <1>22, <1>t DEF Vacuum, Control, IdleClean, OpAt, Storing, Goto, Job, meta
  <1>23. ASSUME NEW p \in Procs, FtsMerge(p) PROVE Control'
    BY <1>23, <1>t DEF FtsMerge, Control, IdleClean, OpAt, Storing, Goto, Job, meta
  <1>24. ASSUME NEW p \in Procs, BulkSnapshot(p) PROVE Control'
    BY <1>24, <1>t DEF BulkSnapshot, Control, IdleClean, OpAt, Storing, Goto, Job, meta
  <1>25. ASSUME NEW p \in Procs, BulkSegment(p) PROVE Control'
    BY <1>25, <1>t DEF BulkSegment, Control, IdleClean, OpAt, Storing, Goto, Job
  <1>26. ASSUME NEW p \in Procs, BulkDone(p) PROVE Control'
    BY <1>26, <1>t DEF BulkDone, Control, IdleClean, OpAt, Storing, Goto, Job, meta
  <1>27. ASSUME NEW p \in Procs, Reclaim(p) PROVE Control'
    BY <1>27, <1>t DEF Reclaim, Control, IdleClean, OpAt, Storing, Goto, Job, meta
  <1> QED BY <1>1, <1>2, <1>3, <1>4, <1>5, <1>6, <1>7, <1>8, <1>9, <1>10, <1>11, <1>12, <1>13,
     <1>14, <1>15, <1>16, <1>17, <1>18, <1>19, <1>20, <1>21, <1>22, <1>23, <1>24, <1>25, <1>26,
     <1>27
       DEF Next, Work, Serve, Continue, Insert, Flush, AddSegment, Merge, BulkDelete, Refuse

LEMMA StepOwners ==
    TypeInv /\ Control /\ Owners /\ Next => Owners'
  <1> SUFFICES ASSUME TypeInv, Control, Owners, Next PROVE Owners'
    OBVIOUS
  <1> USE NoneAssumption
  <1>t. /\ pc \in [Procs -> Points] /\ job \in [Procs -> Job] /\ OversizedWrites
        /\ heap \in [Docs -> {"absent", "inserting", "live", "dead", "gone"}]
    BY DEF TypeInv, TypeOK
  <1>1. ASSUME NEW p \in Procs, NEW d \in Docs, HeapInsert(p, d) PROVE Owners'
    BY <1>1, <1>t DEF HeapInsert, Owners, DocOwned, OneOwner, Storing, Goto, Job, meta,
       IdleJob, Control, IdleClean
  <1>2. ASSUME NEW d \in Docs, Delete(d) PROVE Owners'
    BY <1>2, <1>t DEF Delete, Owners, DocOwned, OneOwner, Storing, Goto, Job, meta
  <1>3. ASSUME NEW p \in Procs, Commit(p) PROVE Owners'
    BY <1>3, <1>t DEF Commit, Owners, DocOwned, OneOwner, Storing, Goto, Job, meta, IdleJob,
       Control, OpAt
  <1>4. ASSUME NEW p \in Procs, Abort(p) PROVE Owners'
    BY <1>4, <1>t DEF Abort, Owners, DocOwned, OneOwner, Storing, Goto, Job, meta, IdleJob
  <1>5. ASSUME NEW p \in Procs, AppendPending(p) PROVE Owners'
    BY <1>5, <1>t DEF AppendPending, Owners, DocOwned, OneOwner, Storing, Goto, Job
  <1>6. ASSUME NEW p \in Procs, TryFlush(p) PROVE Owners'
    BY <1>6, <1>t DEF TryFlush, Owners, DocOwned, OneOwner, Storing, Goto, Job, meta
  <1>7. ASSUME NEW p \in Procs, WriteOversized(p) PROVE Owners'
    BY <1>7, <1>t DEF WriteOversized, Owners, DocOwned, OneOwner, Storing, Goto, Job
  <1>8. ASSUME NEW p \in Procs, Tidy(p) PROVE Owners'
    BY <1>8, <1>t DEF Tidy, Owners, DocOwned, OneOwner, Storing, Goto, Job, meta
  <1>9. ASSUME NEW p \in Procs, Publish(p) PROVE Owners'
    BY <1>9, <1>t DEF Publish, Owners, DocOwned, OneOwner, Storing, Goto, Job
  <1>10. ASSUME NEW p \in Procs, MakeRoom(p) PROVE Owners'
    BY <1>10, <1>t DEF MakeRoom, Owners, DocOwned, OneOwner, Storing, Goto, Job, meta
  <1>11. ASSUME NEW p \in Procs, MergeForRoom(p) PROVE Owners'
    BY <1>11, <1>t DEF MergeForRoom, Owners, DocOwned, OneOwner, Storing, Goto, Job, meta
  <1>12. ASSUME NEW p \in Procs, Lock(p) PROVE Owners'
    BY <1>12, <1>t DEF Lock, Owners, DocOwned, OneOwner, Storing, Goto, Job, meta
  <1>13. ASSUME NEW p \in Procs, Seal(p) PROVE Owners'
    <2> DEFINE j == job[p]
    <2> DEFINE new == IF npending = 0 THEN [j EXCEPT !.back = "done"]
                      ELSE [j EXCEPT !.first = head, !.last = tail, !.sealed = npending]
    <2>1. job' = [job EXCEPT ![p] = new] BY <1>13 DEF Seal
    <2>2. new.op = j.op /\ new.doc = j.doc BY <1>t DEF Job
    <2> HIDE DEF new
    <2>3. AfterFlush(j.op) \in {"tidy", "bulk", "select"}
          /\ (AfterFlush(j.op) = "tidy" <=> j.op = "insert")
          /\ (AfterFlush(j.op) = "bulk" <=> j.op = "bulkdelete")
      BY DEF AfterFlush
    <2>4. pc[p] = "seal" /\ \E b \in {AfterFlush(j.op), "fold"} : pc' = [pc EXCEPT ![p] = b]
      BY <1>13 DEF Seal, Goto
    <2>5. heap' = heap BY <1>13 DEF Seal
    <2> QED BY <1>t, <2>1, <2>2, <2>3, <2>4, <2>5 DEF Owners, DocOwned, OneOwner, Storing
  <1>14. ASSUME NEW p \in Procs, Fold(p) PROVE Owners'
    BY <1>14, <1>t DEF Fold, Owners, DocOwned, OneOwner, Storing, Goto, Job
  <1>15. ASSUME NEW p \in Procs, FreePages(p) PROVE Owners'
    BY <1>15, <1>t DEF FreePages, Owners, DocOwned, OneOwner, Storing, Goto, Job
  <1>16. ASSUME NEW p \in Procs, MergeSelect(p) PROVE Owners'
    BY <1>16, <1>t DEF MergeSelect, Owners, DocOwned, OneOwner, Storing, Goto, Job, meta
  <1>17. ASSUME NEW p \in Procs, MergeStream(p) PROVE Owners'
    BY <1>17, <1>t DEF MergeStream, Owners, DocOwned, OneOwner, Storing, Goto, Job
  <1>18. ASSUME NEW p \in Procs, MergeSwap(p) PROVE Owners'
    BY <1>18, <1>t DEF MergeSwap, Owners, DocOwned, OneOwner, Storing, Goto, Job
  <1>19. ASSUME NEW p \in Procs, FreeInputs(p) PROVE Owners'
    BY <1>19, <1>t DEF FreeInputs, Owners, DocOwned, OneOwner, Storing, Goto, Job
  <1>20. ASSUME NEW p \in Procs, MergeReturn(p) PROVE Owners'
    BY <1>20, <1>t DEF MergeReturn, Owners, DocOwned, OneOwner, Storing, Goto, Job, meta,
       AfterFlush
  <1>21. ASSUME NEW p \in Procs, Unlock(p) PROVE Owners'
    BY <1>21, <1>t DEF Unlock, Owners, DocOwned, OneOwner, Storing, Goto, Job, meta, IdleJob
  <1>22. ASSUME NEW p \in Procs, Vacuum(p) PROVE Owners'
    BY <1>22, <1>t DEF Vacuum, Owners, DocOwned, OneOwner, Storing, Goto, Job, meta, IdleJob,
       Control, IdleClean
  <1>23. ASSUME NEW p \in Procs, FtsMerge(p) PROVE Owners'
    BY <1>23, <1>t DEF FtsMerge, Owners, DocOwned, OneOwner, Storing, Goto, Job, meta, IdleJob,
       Control, IdleClean
  <1>24. ASSUME NEW p \in Procs, BulkSnapshot(p) PROVE Owners'
    BY <1>24, <1>t DEF BulkSnapshot, Owners, DocOwned, OneOwner, Storing, Goto, Job, meta
  <1>25. ASSUME NEW p \in Procs, BulkSegment(p) PROVE Owners'
    BY <1>25, <1>t DEF BulkSegment, Owners, DocOwned, OneOwner, Storing, Goto, Job
  <1>26. ASSUME NEW p \in Procs, BulkDone(p) PROVE Owners'
    BY <1>26, <1>t DEF BulkDone, Owners, DocOwned, OneOwner, Storing, Goto, Job, meta
  <1>27. ASSUME NEW p \in Procs, Reclaim(p) PROVE Owners'
    BY <1>27, <1>t DEF Reclaim, Owners, DocOwned, OneOwner, Storing, Goto, Job, meta, Control,
       OpAt
  <1> QED BY <1>1, <1>2, <1>3, <1>4, <1>5, <1>6, <1>7, <1>8, <1>9, <1>10, <1>11, <1>12, <1>13,
     <1>14, <1>15, <1>16, <1>17, <1>18, <1>19, <1>20, <1>21, <1>22, <1>23, <1>24, <1>25, <1>26,
     <1>27
       DEF Next, Work, Serve, Continue, Insert, Flush, AddSegment, Merge, BulkDelete, Refuse

-----------------------------------------------------------------------------
(* Segments in hand: being published, being merged, or inputs of a merge. *)

\* From the write to the publication, a segment is known to its operation only.
OutAt == \A p \in Procs : IF Adding(p) THEN job[p].out \in Segs ELSE job[p].out = None

MoutAt == \A p \in Procs : IF pc[p] = "swap" THEN job[p].mout \in Segs ELSE job[p].mout = None

\* A merge has inputs until it has freed them.
InpAt ==
    \A p \in Procs :
        /\ pc[p] \notin {"stream", "swap", "freeinputs"} => job[p].inp = NoSegs
        /\ pc[p] \in {"stream", "swap"} => Inputs(p) # {}

Holdings == OutAt /\ MoutAt /\ InpAt

LEMMA StepHoldings ==
    TypeInv /\ Control /\ Holdings /\ Next => Holdings'
  <1> SUFFICES ASSUME TypeInv, Control, Holdings, Next PROVE Holdings'
    OBVIOUS
  <1> USE NoneAssumption
  <1>t. pc \in [Procs -> Points] /\ job \in [Procs -> Job] /\ OversizedWrites
    BY DEF TypeInv, TypeOK
  <1>1. ASSUME NEW p \in Procs, NEW d \in Docs, HeapInsert(p, d) PROVE Holdings'
    BY <1>1, <1>t DEF HeapInsert, Holdings, OutAt, MoutAt, InpAt, Adding, Merging, Inputs,
       Goto, Job, meta
  <1>2. ASSUME NEW d \in Docs, Delete(d) PROVE Holdings'
    BY <1>2, <1>t DEF Delete, Holdings, OutAt, MoutAt, InpAt, Adding, Merging, Inputs, Goto,
       Job, meta
  <1>3. ASSUME NEW p \in Procs, Commit(p) PROVE Holdings'
    BY <1>3, <1>t DEF Commit, Holdings, OutAt, MoutAt, InpAt, Adding, Merging, Inputs, Goto,
       Job, meta, IdleJob
  <1>4. ASSUME NEW p \in Procs, Abort(p) PROVE Holdings'
    BY <1>4, <1>t DEF Abort, Holdings, OutAt, MoutAt, InpAt, Adding, Merging, Inputs, Goto,
       Job, meta, IdleJob, NoSegs
  <1>5. ASSUME NEW p \in Procs, AppendPending(p) PROVE Holdings'
    BY <1>5, <1>t DEF AppendPending, Holdings, OutAt, MoutAt, InpAt, Adding, Merging, Inputs,
       Goto, Job
  <1>6. ASSUME NEW p \in Procs, TryFlush(p) PROVE Holdings'
    BY <1>6, <1>t DEF TryFlush, Holdings, OutAt, MoutAt, InpAt, Adding, Merging, Inputs, Goto,
       Job, meta
  <1>7. ASSUME NEW p \in Procs, WriteOversized(p) PROVE Holdings'
    BY <1>7, <1>t DEF WriteOversized, Holdings, OutAt, MoutAt, InpAt, Adding, Merging, Inputs,
       Goto, Job, FreeSegs
  <1>8. ASSUME NEW p \in Procs, Tidy(p) PROVE Holdings'
    BY <1>8, <1>t DEF Tidy, Holdings, OutAt, MoutAt, InpAt, Adding, Merging, Inputs, Goto, Job,
       meta
  <1>9. ASSUME NEW p \in Procs, Publish(p) PROVE Holdings'
    BY <1>9, <1>t DEF Publish, Holdings, OutAt, MoutAt, InpAt, Adding, Merging, Inputs, Goto,
       Job
  <1>10. ASSUME NEW p \in Procs, MakeRoom(p) PROVE Holdings'
    BY <1>10, <1>t DEF MakeRoom, Holdings, OutAt, MoutAt, InpAt, Adding, Merging, Inputs, Goto,
       Job, meta
  <1>11. ASSUME NEW p \in Procs, MergeForRoom(p) PROVE Holdings'
    BY <1>11, <1>t DEF MergeForRoom, Holdings, OutAt, MoutAt, InpAt, Adding, Merging, Inputs,
       Goto, Job, meta
  <1>12. ASSUME NEW p \in Procs, Lock(p) PROVE Holdings'
    BY <1>12, <1>t DEF Lock, Holdings, OutAt, MoutAt, InpAt, Adding, Merging, Inputs, Goto,
       Job, meta
  <1>13. ASSUME NEW p \in Procs, Seal(p) PROVE Holdings'
    <2> DEFINE j == job[p]
    <2>1. AfterFlush(j.op) \in {"tidy", "bulk", "select"} BY DEF AfterFlush
    <2>2. pc[p] = "seal" BY <1>13 DEF Seal, Goto
    <2>3. j.out = None /\ j.mout = None /\ j.inp = NoSegs
      BY <2>2 DEF Holdings, OutAt, MoutAt, InpAt, Adding, Merging
    <2>4. CASE npending = 0
      <3>1. pc' = [pc EXCEPT ![p] = AfterFlush(j.op)] /\ job' = [job EXCEPT ![p].back = "done"]
        BY <1>13, <2>4 DEF Seal, Goto
      <3> QED BY <1>t, <2>1, <2>2, <2>3, <3>1
              DEF Holdings, OutAt, MoutAt, InpAt, Adding, Merging, Inputs, Job
    <2>5. CASE npending # 0
      <3> DEFINE new == [j EXCEPT !.first = head, !.last = tail, !.sealed = npending]
      <3>1. pc' = [pc EXCEPT ![p] = "fold"] /\ job' = [job EXCEPT ![p] = new]
        BY <1>13, <2>5 DEF Seal, Goto
      <3>2. new.out = None /\ new.mout = None /\ new.inp = NoSegs BY <1>t, <2>3 DEF Job
      <3> HIDE DEF new
      <3> QED BY <1>t, <2>2, <3>1, <3>2
              DEF Holdings, OutAt, MoutAt, InpAt, Adding, Merging, Inputs
    <2> QED BY <2>4, <2>5
  <1>14. ASSUME NEW p \in Procs, Fold(p) PROVE Holdings'
    BY <1>14, <1>t DEF Fold, Holdings, OutAt, MoutAt, InpAt, Adding, Merging, Inputs, Goto,
       Job, FreeSegs
  <1>15. ASSUME NEW p \in Procs, FreePages(p) PROVE Holdings'
    BY <1>15, <1>t DEF FreePages, Holdings, OutAt, MoutAt, InpAt, Adding, Merging, Inputs,
       Goto, Job
  <1>16. ASSUME NEW p \in Procs, MergeSelect(p) PROVE Holdings'
    <2>1. PICK S \in SUBSET Candidates :
             /\ Cardinality(S) = MergeFanout \/ (Cardinality(S) < MergeFanout /\ S = Candidates)
             /\ job' = [job EXCEPT ![p].inp = [i \in Segs |-> IF i \in S THEN disk[i] ELSE None]]
      BY <1>16 DEF MergeSelect
    <2>2. S # {}
      <3>1. Cardinality({}) = 0 BY FS_EmptySet
      <3>2. Cardinality(Candidates) >= 2
        <4>1. \E n \in {2, MergeFanout} : Cardinality(Candidates) >= n
          BY <1>16 DEF MergeSelect, MergeDue
        <4>2. Cardinality(Candidates) \in Nat
          BY FiniteAssumption, FS_Subset, FS_CardinalityType DEF Candidates, Dir
        <4> QED BY <4>1, <4>2, SizesAssumption
      <3> QED BY <2>1, <3>1, <3>2, SizesAssumption
    <2>3. PICK i \in S : TRUE BY <2>2
    <2>4. i \in Segs /\ disk[i] # None
      <3>1. i \in Segs BY DEF Candidates, Dir
      <3>2. disk[i] \in Segment BY <3>1 DEF TypeInv, TypeOK
      <3> QED BY <3>1, <3>2, NoneAssumption DEF Segment
    <2> DEFINE n == [k \in Segs |-> IF k \in S THEN disk[k] ELSE None]
    <2>5. n[i] # None BY <2>4
    <2>6. job' = [job EXCEPT ![p] = [job[p] EXCEPT !.inp = n]] BY <2>1
    <2>7. pc[p] = "select" /\ pc' = [pc EXCEPT ![p] = "stream"] BY <1>16 DEF MergeSelect, Goto
    <2> HIDE DEF n
    <2> DEFINE new == [job[p] EXCEPT !.inp = n]
    <2>8. /\ new.inp = n /\ new.out = job[p].out /\ new.mout = job[p].mout
          /\ new.back = job[p].back
      BY <1>t DEF Job
    <2>9. job' = [job EXCEPT ![p] = new] BY <2>6
    <2> HIDE DEF new
    <2> QED BY <1>t, <2>4, <2>5, <2>7, <2>8, <2>9
            DEF Holdings, OutAt, MoutAt, InpAt, Adding, Merging, Inputs
  <1>17. ASSUME NEW p \in Procs, MergeStream(p) PROVE Holdings'
    BY <1>17, <1>t DEF MergeStream, Holdings, OutAt, MoutAt, InpAt, Adding, Merging, Inputs,
       Goto, Job, FreeSegs
  <1>18. ASSUME NEW p \in Procs, MergeSwap(p) PROVE Holdings'
    BY <1>18, <1>t DEF MergeSwap, Holdings, OutAt, MoutAt, InpAt, Adding, Merging, Inputs,
       Goto, Job
  <1>19. ASSUME NEW p \in Procs, FreeInputs(p) PROVE Holdings'
    BY <1>19, <1>t DEF FreeInputs, Holdings, OutAt, MoutAt, InpAt, Adding, Merging, Inputs,
       Goto, Job, NoSegs
  <1>20. ASSUME NEW p \in Procs, MergeReturn(p) PROVE Holdings'
    BY <1>20, <1>t DEF MergeReturn, Holdings, OutAt, MoutAt, InpAt, Adding, Merging, Inputs,
       Goto, Job, meta, AfterFlush, NoSegs
  <1>21. ASSUME NEW p \in Procs, Unlock(p) PROVE Holdings'
    BY <1>21, <1>t DEF Unlock, Holdings, OutAt, MoutAt, InpAt, Adding, Merging, Inputs, Goto,
       Job, meta, IdleJob, NoSegs
  <1>22. ASSUME NEW p \in Procs, Vacuum(p) PROVE Holdings'
    BY <1>22, <1>t DEF Vacuum, Holdings, OutAt, MoutAt, InpAt, Adding, Merging, Inputs, Goto,
       Job, meta
  <1>23. ASSUME NEW p \in Procs, FtsMerge(p) PROVE Holdings'
    BY <1>23, <1>t DEF FtsMerge, Holdings, OutAt, MoutAt, InpAt, Adding, Merging, Inputs, Goto,
       Job, meta
  <1>24. ASSUME NEW p \in Procs, BulkSnapshot(p) PROVE Holdings'
    BY <1>24, <1>t DEF BulkSnapshot, Holdings, OutAt, MoutAt, InpAt, Adding, Merging, Inputs,
       Goto, Job, meta
  <1>25. ASSUME NEW p \in Procs, BulkSegment(p) PROVE Holdings'
    BY <1>25, <1>t DEF BulkSegment, Holdings, OutAt, MoutAt, InpAt, Adding, Merging, Inputs,
       Goto, Job
  <1>26. ASSUME NEW p \in Procs, BulkDone(p) PROVE Holdings'
    BY <1>26, <1>t DEF BulkDone, Holdings, OutAt, MoutAt, InpAt, Adding, Merging, Inputs, Goto,
       Job, meta
  <1>27. ASSUME NEW p \in Procs, Reclaim(p) PROVE Holdings'
    BY <1>27, <1>t DEF Reclaim, Holdings, OutAt, MoutAt, InpAt, Adding, Merging, Inputs, Goto,
       Job, meta
  <1> QED BY <1>1, <1>2, <1>3, <1>4, <1>5, <1>6, <1>7, <1>8, <1>9, <1>10, <1>11, <1>12, <1>13,
     <1>14, <1>15, <1>16, <1>17, <1>18, <1>19, <1>20, <1>21, <1>22, <1>23, <1>24, <1>25, <1>26,
     <1>27
       DEF Next, Work, Serve, Continue, Insert, Flush, AddSegment, Merge, BulkDelete, Refuse

\* A seal changes no more of the backend's locals than what it sealed.
LEMMA SealLocals ==
    ASSUME TypeInv, NEW p \in Procs, Seal(p)
    PROVE  /\ pc[p] = "seal"
           /\ \E b \in {"fold", "tidy", "bulk", "select"} : pc' = [pc EXCEPT ![p] = b]
           /\ \E new : /\ job' = [job EXCEPT ![p] = new]
                      /\ new.op = job[p].op /\ new.doc = job[p].doc
                      /\ new.out = job[p].out /\ new.mout = job[p].mout
                      /\ new.inp = job[p].inp /\ new.vac = job[p].vac
                      /\ new.snap = job[p].snap /\ new.next = job[p].next
           /\ UNCHANGED <<heap, pos, disk, page, head, npending, mutex>>
  <1> DEFINE j == job[p]
  <1> DEFINE new == IF npending = 0 THEN [j EXCEPT !.back = "done"]
                    ELSE [j EXCEPT !.first = head, !.last = tail, !.sealed = npending]
  <1>1. j \in Job BY DEF TypeInv, TypeOK
  <1>2. job' = [job EXCEPT ![p] = new] BY DEF Seal
  <1>3. /\ new.op = j.op /\ new.doc = j.doc /\ new.out = j.out /\ new.mout = j.mout
        /\ new.inp = j.inp /\ new.vac = j.vac /\ new.snap = j.snap /\ new.next = j.next
    BY <1>1 DEF Job
  <1> HIDE DEF new
  <1>4. AfterFlush(j.op) \in {"tidy", "bulk", "select"} BY DEF AfterFlush
  <1>5. pc[p] = "seal" /\ \E b \in {AfterFlush(j.op), "fold"} : pc' = [pc EXCEPT ![p] = b]
    BY DEF Seal, Goto
  <1>6. UNCHANGED <<heap, pos, disk, page, head, npending, mutex>> BY DEF Seal, meta
  <1> QED BY <1>2, <1>3, <1>4, <1>5, <1>6

\* A segment in hand is in no other hand, and not in the directory: neither is
\* an input that was swapped out.
OutApart ==
    \A p, q \in Procs : job[p].out # None =>
        /\ pos[job[p].out] = 0
        /\ job[p].out # job[q].mout /\ job[q].inp[job[p].out] = None
        /\ p # q => job[p].out # job[q].out
MoutApart ==
    \A p, q \in Procs : job[p].mout # None =>
        /\ pos[job[p].mout] = 0
        /\ job[q].inp[job[p].mout] = None
        /\ p # q => job[p].mout # job[q].mout
InputsGone == \A p \in Procs : pc[p] = "freeinputs" => \A i \in Inputs(p) : pos[i] = 0

Apart == OutApart /\ MoutApart /\ InputsGone

LEMMA StepApart ==
    TypeInv /\ Holdings /\ Apart /\ Next => Apart'
  <1> SUFFICES ASSUME TypeInv, Holdings, Apart, Next PROVE Apart'
    OBVIOUS
  <1> USE NoneAssumption
  <1>t. /\ pc \in [Procs -> Points] /\ job \in [Procs -> Job]
        /\ pos \in [Segs -> Nat] /\ disk \in [Segs -> Segment]
    BY DEF TypeInv, TypeOK
  <1>1. ASSUME NEW p \in Procs, NEW d \in Docs, HeapInsert(p, d) PROVE Apart'
    BY <1>1, <1>t DEF HeapInsert, Apart, OutApart, MoutApart, InputsGone, Inputs, Goto, Job,
       meta
  <1>2. ASSUME NEW d \in Docs, Delete(d) PROVE Apart'
    BY <1>2, <1>t DEF Delete, Apart, OutApart, MoutApart, InputsGone, Inputs, Goto, Job, meta
  <1>3. ASSUME NEW p \in Procs, Commit(p) PROVE Apart'
    BY <1>3, <1>t DEF Commit, Apart, OutApart, MoutApart, InputsGone, Inputs, Goto, Job, meta,
       IdleJob, NoSegs
  <1>4. ASSUME NEW p \in Procs, Abort(p) PROVE Apart'
    BY <1>4, <1>t DEF Abort, Apart, OutApart, MoutApart, InputsGone, Inputs, Goto, Job, meta,
       IdleJob, NoSegs
  <1>5. ASSUME NEW p \in Procs, AppendPending(p) PROVE Apart'
    BY <1>5, <1>t DEF AppendPending, Apart, OutApart, MoutApart, InputsGone, Inputs, Goto, Job
  <1>6. ASSUME NEW p \in Procs, TryFlush(p) PROVE Apart'
    BY <1>6, <1>t DEF TryFlush, Apart, OutApart, MoutApart, InputsGone, Inputs, Goto, Job, meta
  <1>7. ASSUME NEW p \in Procs, WriteOversized(p) PROVE Apart'
    BY <1>7, <1>t DEF WriteOversized, Apart, OutApart, MoutApart, InputsGone, Inputs, Goto,
       Job, FreeSegs
  <1>8. ASSUME NEW p \in Procs, Tidy(p) PROVE Apart'
    BY <1>8, <1>t DEF Tidy, Apart, OutApart, MoutApart, InputsGone, Inputs, Goto, Job, meta
  <1>9. ASSUME NEW p \in Procs, Publish(p) PROVE Apart'
    BY <1>9, <1>t DEF Publish, Apart, OutApart, MoutApart, InputsGone, Inputs, Goto, Job
  <1>10. ASSUME NEW p \in Procs, MakeRoom(p) PROVE Apart'
    BY <1>10, <1>t DEF MakeRoom, Apart, OutApart, MoutApart, InputsGone, Inputs, Goto, Job,
       meta
  <1>11. ASSUME NEW p \in Procs, MergeForRoom(p) PROVE Apart'
    BY <1>11, <1>t DEF MergeForRoom, Apart, OutApart, MoutApart, InputsGone, Inputs, Goto, Job,
       meta
  <1>12. ASSUME NEW p \in Procs, Lock(p) PROVE Apart'
    BY <1>12, <1>t DEF Lock, Apart, OutApart, MoutApart, InputsGone, Inputs, Goto, Job, meta
  <1>13. ASSUME NEW p \in Procs, Seal(p) PROVE Apart'
    BY <1>13, <1>t, SealLocals DEF Apart, OutApart, MoutApart, InputsGone, Inputs
  <1>14. ASSUME NEW p \in Procs, Fold(p) PROVE Apart'
    BY <1>14, <1>t DEF Fold, Apart, OutApart, MoutApart, InputsGone, Inputs, Goto, Job,
       FreeSegs
  <1>15. ASSUME NEW p \in Procs, FreePages(p) PROVE Apart'
    BY <1>15, <1>t DEF FreePages, Apart, OutApart, MoutApart, InputsGone, Inputs, Goto, Job
  <1>16. ASSUME NEW p \in Procs, MergeSelect(p) PROVE Apart'
    BY <1>16, <1>t DEF MergeSelect, Apart, OutApart, MoutApart, InputsGone, Inputs, Goto, Job,
       meta, Candidates, Dir
  <1>17. ASSUME NEW p \in Procs, MergeStream(p) PROVE Apart'
    BY <1>17, <1>t DEF MergeStream, Apart, OutApart, MoutApart, InputsGone, Inputs, Goto, Job,
       FreeSegs
  <1>18. ASSUME NEW p \in Procs, MergeSwap(p) PROVE Apart'
    BY <1>18, <1>t DEF MergeSwap, Apart, OutApart, MoutApart, InputsGone, Inputs, Goto, Job,
       Dir
  <1>19. ASSUME NEW p \in Procs, FreeInputs(p) PROVE Apart'
    BY <1>19, <1>t DEF FreeInputs, Apart, OutApart, MoutApart, InputsGone, Inputs, Goto, Job,
       NoSegs
  <1>20. ASSUME NEW p \in Procs, MergeReturn(p) PROVE Apart'
    BY <1>20, <1>t DEF MergeReturn, Apart, OutApart, MoutApart, InputsGone, Inputs, Goto, Job,
       meta, AfterFlush, NoSegs
  <1>21. ASSUME NEW p \in Procs, Unlock(p) PROVE Apart'
    BY <1>21, <1>t DEF Unlock, Apart, OutApart, MoutApart, InputsGone, Inputs, Goto, Job, meta,
       IdleJob, NoSegs
  <1>22. ASSUME NEW p \in Procs, Vacuum(p) PROVE Apart'
    BY <1>22, <1>t DEF Vacuum, Apart, OutApart, MoutApart, InputsGone, Inputs, Goto, Job, meta
  <1>23. ASSUME NEW p \in Procs, FtsMerge(p) PROVE Apart'
    BY <1>23, <1>t DEF FtsMerge, Apart, OutApart, MoutApart, InputsGone, Inputs, Goto, Job,
       meta
  <1>24. ASSUME NEW p \in Procs, BulkSnapshot(p) PROVE Apart'
    BY <1>24, <1>t DEF BulkSnapshot, Apart, OutApart, MoutApart, InputsGone, Inputs, Goto, Job,
       meta
  <1>25. ASSUME NEW p \in Procs, BulkSegment(p) PROVE Apart'
    BY <1>25, <1>t DEF BulkSegment, Apart, OutApart, MoutApart, InputsGone, Inputs, Goto, Job
  <1>26. ASSUME NEW p \in Procs, BulkDone(p) PROVE Apart'
    BY <1>26, <1>t DEF BulkDone, Apart, OutApart, MoutApart, InputsGone, Inputs, Goto, Job,
       meta
  <1>27. ASSUME NEW p \in Procs, Reclaim(p) PROVE Apart'
    BY <1>27, <1>t DEF Reclaim, Apart, OutApart, MoutApart, InputsGone, Inputs, Goto, Job, meta
  <1> QED BY <1>1, <1>2, <1>3, <1>4, <1>5, <1>6, <1>7, <1>8, <1>9, <1>10, <1>11, <1>12, <1>13,
     <1>14, <1>15, <1>16, <1>17, <1>18, <1>19, <1>20, <1>21, <1>22, <1>23, <1>24, <1>25, <1>26,
     <1>27
       DEF Next, Work, Serve, Continue, Insert, Flush, AddSegment, Merge, BulkDelete, Refuse

-----------------------------------------------------------------------------
(* The directory is a dense array. *)

Dense ==
    /\ \A i, k \in Dir : pos[i] = pos[k] => i = k
    /\ \A i \in Dir : pos[i] <= NSegs
    /\ NSegs <= MaxSegments

LEMMA SetOfSegs ==
    ASSUME NEW K \in SUBSET Segs
    PROVE  IsFiniteSet(K) /\ Cardinality(K) \in Nat
  BY FiniteAssumption, FS_Subset, FS_CardinalityType

\* Ranks within K run from 1 to |K|, in the order of the positions.
LEMMA RankBounds ==
    ASSUME NEW K \in SUBSET Segs, NEW i \in K, pos \in [Segs -> Nat]
    PROVE  Rank(K, i) \in 1 .. Cardinality(K)
  <1> DEFINE L == {k \in K : pos[k] <= pos[i]}
  <1>1. L \in SUBSET K /\ i \in L OBVIOUS
  <1>2. Cardinality(L) <= Cardinality(K) BY <1>1, SetOfSegs, FS_Subset
  <1>3. Cardinality(L) # 0 /\ Cardinality(L) \in Nat BY <1>1, SetOfSegs, FS_EmptySet
  <1> QED BY <1>2, <1>3, SetOfSegs DEF Rank

LEMMA RankOrder ==
    ASSUME NEW K \in SUBSET Segs, NEW i \in K, NEW k \in K, pos \in [Segs -> Nat],
           pos[i] < pos[k]
    PROVE  Rank(K, i) < Rank(K, k)
  <1> DEFINE L(x) == {y \in K : pos[y] <= pos[x]}
  <1>1. L(i) \in SUBSET L(k) /\ k \in L(k) /\ k \notin L(i) OBVIOUS
  <1>2. IsFiniteSet(L(i)) /\ Cardinality(L(i)) \in Nat BY SetOfSegs
  <1>3. IsFiniteSet(L(k)) /\ Cardinality(L(k)) \in Nat BY SetOfSegs
  <1>4. Cardinality(L(i)) <= Cardinality(L(k)) BY <1>1, <1>3, FS_Subset
  <1>5. Cardinality(L(i)) # Cardinality(L(k)) BY <1>1, <1>3, FS_Subset
  <1> QED BY <1>2, <1>3, <1>4, <1>5 DEF Rank

LEMMA StepPublishDense ==
    ASSUME TypeInv, Holdings, Apart, Dense, NEW p \in Procs, Publish(p)
    PROVE  Dense'
  <1> DEFINE o == job[p].out
  <1> DEFINE n == NSegs + 1
  <1>1. o \in Segs BY DEF Publish, Goto, Holdings, OutAt, Adding
  <1>2. pos[o] = 0 BY <1>1, NoneAssumption DEF Apart, OutApart
  <1>3. pos \in [Segs -> Nat] BY DEF TypeInv, TypeOK
  <1>4. NSegs \in Nat BY <1>3, NSegsType
  <1>5. pos' = [pos EXCEPT ![o] = n] /\ NSegs < MaxSegments BY DEF Publish
  <1>6. Dir' = Dir \cup {o} /\ o \notin Dir BY <1>1, <1>2, <1>3, <1>4, <1>5 DEF Dir
  <1>7. NSegs' = n
    <2>1. IsFiniteSet(Dir) BY SetOfSegs DEF Dir
    <2>2. Cardinality(Dir \cup {o}) = Cardinality(Dir) + 1 BY <1>6, <2>1, FS_AddElement
    <2> QED BY <1>6, <2>2 DEF NSegs
  <1>8. \A i \in Dir : pos'[i] = pos[i] /\ pos[i] <= NSegs /\ pos[i] \in Nat
    BY <1>3, <1>5, <1>6 DEF Dense, Dir
  <1>9. pos'[o] = n BY <1>1, <1>3, <1>5
  <1>10. n <= MaxSegments BY <1>4, <1>5, SizesAssumption
  <1> HIDE DEF n
  <1>11. \A i \in Dir : pos'[i] # n BY <1>4, <1>8 DEF n
  <1>12. \A i, k \in Dir' : pos'[i] = pos'[k] => i = k
    BY <1>6, <1>8, <1>9, <1>11 DEF Dense
  <1>13. \A i \in Dir' : pos'[i] <= NSegs' BY <1>4, <1>6, <1>7, <1>8, <1>9 DEF n
  <1> QED BY <1>7, <1>10, <1>12, <1>13 DEF Dense

\* What a swap does to the directory.
LEMMA SwapDir ==
    ASSUME TypeInv, Holdings, Apart, NEW p \in Procs, MergeSwap(p)
    PROVE  LET kept == Dir \ Inputs(p)
           IN  /\ job[p].mout \in Segs /\ job[p].mout \notin Dir /\ job[p].mout \notin Inputs(p)
               /\ Dir' = kept \cup {job[p].mout}
               /\ pos'[job[p].mout] = Cardinality(kept) + 1
               /\ \A i \in kept : pos'[i] = Rank(kept, i)
               /\ kept # Dir
  <1> DEFINE kept == Dir \ Inputs(p)
  <1> DEFINE m == job[p].mout
  <1>1. m \in Segs BY DEF MergeSwap, Goto, Holdings, MoutAt
  <1>2. pos[m] = 0 /\ m \notin Inputs(p) BY <1>1, NoneAssumption DEF Apart, MoutApart, Inputs
  <1>3. m \notin Dir BY <1>2 DEF Dir
  <1>4. kept \in SUBSET Segs /\ Cardinality(kept) \in Nat BY SetOfSegs DEF Dir
  <1>5. pos' = [i \in Segs |-> IF i = m THEN Cardinality(kept) + 1
                               ELSE IF i \in kept THEN Rank(kept, i) ELSE 0]
    BY DEF MergeSwap
  <1>6. \A i \in kept : Rank(kept, i) \in 1 .. Cardinality(kept)
    BY <1>4, RankBounds DEF TypeInv, TypeOK
  <1>7. kept # Dir
    <2>1. Inputs(p) # {} BY DEF MergeSwap, Goto, Holdings, InpAt
    <2>2. Inputs(p) \subseteq Dir BY DEF MergeSwap, AllFound, Inputs, Dir
    <2> QED BY <2>1, <2>2
  <1>8. pos'[m] = Cardinality(kept) + 1 /\ \A i \in kept : pos'[i] = Rank(kept, i)
    BY <1>1, <1>3, <1>4, <1>5
  <1>9. Dir' = kept \cup {m} BY <1>1, <1>3, <1>4, <1>5, <1>6 DEF Dir
  <1> QED BY <1>1, <1>2, <1>3, <1>7, <1>8, <1>9

LEMMA StepSwapDense ==
    ASSUME TypeInv, Holdings, Apart, Dense, NEW p \in Procs, MergeSwap(p)
    PROVE  Dense'
  <1> DEFINE kept == Dir \ Inputs(p)
  <1> DEFINE m == job[p].mout
  <1> DEFINE n == Cardinality(kept) + 1
  <1>1. /\ m \notin Dir /\ Dir' = kept \cup {m} /\ pos'[m] = n /\ kept # Dir
        /\ \A i \in kept : pos'[i] = Rank(kept, i)
    BY SwapDir
  <1>2. kept \in SUBSET Segs /\ pos \in [Segs -> Nat] BY DEF Dir, TypeInv, TypeOK
  <1>3. Cardinality(kept) \in Nat /\ IsFiniteSet(kept) BY <1>2, SetOfSegs
  <1>4. NSegs' = n BY <1>1, <1>3, FS_AddElement DEF NSegs
  <1>5. n <= NSegs
    <2>1. IsFiniteSet(Dir) /\ Cardinality(Dir) \in Nat BY SetOfSegs DEF Dir
    <2>2. Cardinality(kept) <= Cardinality(Dir) /\ Cardinality(kept) # Cardinality(Dir)
      BY <1>1, <2>1, FS_Subset
    <2> QED BY <1>3, <2>1, <2>2 DEF NSegs
  <1>6. \A i \in kept : pos'[i] \in 1 .. Cardinality(kept) BY <1>1, <1>2, RankBounds
  <1>7. \A i, k \in kept : pos'[i] = pos'[k] => i = k
    <2> SUFFICES ASSUME NEW i \in kept, NEW k \in kept, i # k PROVE pos'[i] # pos'[k]
      OBVIOUS
    <2>1. pos[i] # pos[k] /\ pos[i] \in Nat /\ pos[k] \in Nat BY <1>2 DEF Dense
    <2>2. pos'[i] \in Nat /\ pos'[k] \in Nat BY <1>3, <1>6
    <2>3. CASE pos[i] < pos[k]
      <3>1. Rank(kept, i) < Rank(kept, k) BY <1>2, <2>3, RankOrder
      <3> QED BY <1>1, <2>2, <3>1
    <2>4. CASE pos[k] < pos[i]
      <3>1. Rank(kept, k) < Rank(kept, i) BY <1>2, <2>4, RankOrder
      <3> QED BY <1>1, <2>2, <3>1
    <2> QED BY <2>1, <2>3, <2>4
  <1>8. \A i \in kept : pos'[i] # n /\ pos'[i] <= n BY <1>3, <1>6
  <1>9. n \in Nat /\ NSegs \in Nat BY <1>2, <1>3, NSegsType
  <1> HIDE DEF kept, n
  <1>10. \A i, k \in Dir' : pos'[i] = pos'[k] => i = k BY <1>1, <1>7, <1>8
  <1>11. \A i \in Dir' : pos'[i] <= NSegs' BY <1>1, <1>4, <1>8, <1>9
  <1>12. NSegs' <= MaxSegments BY <1>4, <1>5, <1>9, SizesAssumption DEF Dense
  <1> QED BY <1>10, <1>11, <1>12 DEF Dense

LEMMA StepDense ==
    TypeInv /\ Holdings /\ Apart /\ Dense /\ Next => Dense'
  <1> SUFFICES ASSUME TypeInv, Holdings, Apart, Dense, Next PROVE Dense'
    OBVIOUS
  <1>1. ASSUME NEW p \in Procs, NEW d \in Docs, HeapInsert(p, d) PROVE Dense'
    BY <1>1 DEF HeapInsert, Dense, Dir, NSegs, meta
  <1>2. ASSUME NEW d \in Docs, Delete(d) PROVE Dense'
    BY <1>2 DEF Delete, Dense, Dir, NSegs, meta
  <1>3. ASSUME NEW p \in Procs, Commit(p) PROVE Dense'
    BY <1>3 DEF Commit, Dense, Dir, NSegs, meta
  <1>4. ASSUME NEW p \in Procs, Abort(p) PROVE Dense'
    BY <1>4 DEF Abort, Dense, Dir, NSegs, meta
  <1>5. ASSUME NEW p \in Procs, AppendPending(p) PROVE Dense'
    BY <1>5 DEF AppendPending, Dense, Dir, NSegs, meta
  <1>6. ASSUME NEW p \in Procs, TryFlush(p) PROVE Dense'
    BY <1>6 DEF TryFlush, Dense, Dir, NSegs, meta
  <1>7. ASSUME NEW p \in Procs, WriteOversized(p) PROVE Dense'
    BY <1>7 DEF WriteOversized, Dense, Dir, NSegs, meta
  <1>8. ASSUME NEW p \in Procs, Tidy(p) PROVE Dense'
    BY <1>8 DEF Tidy, Dense, Dir, NSegs, meta
  <1>9. ASSUME NEW p \in Procs, Publish(p) PROVE Dense'
    BY <1>9, StepPublishDense
  <1>10. ASSUME NEW p \in Procs, MakeRoom(p) PROVE Dense'
    BY <1>10 DEF MakeRoom, Dense, Dir, NSegs, meta
  <1>11. ASSUME NEW p \in Procs, MergeForRoom(p) PROVE Dense'
    BY <1>11 DEF MergeForRoom, Dense, Dir, NSegs, meta
  <1>12. ASSUME NEW p \in Procs, Lock(p) PROVE Dense'
    BY <1>12 DEF Lock, Dense, Dir, NSegs, meta
  <1>13. ASSUME NEW p \in Procs, Seal(p) PROVE Dense'
    BY <1>13 DEF Seal, Dense, Dir, NSegs, meta
  <1>14. ASSUME NEW p \in Procs, Fold(p) PROVE Dense'
    BY <1>14 DEF Fold, Dense, Dir, NSegs, meta
  <1>15. ASSUME NEW p \in Procs, FreePages(p) PROVE Dense'
    BY <1>15 DEF FreePages, Dense, Dir, NSegs, meta
  <1>16. ASSUME NEW p \in Procs, MergeSelect(p) PROVE Dense'
    BY <1>16 DEF MergeSelect, Dense, Dir, NSegs, meta
  <1>17. ASSUME NEW p \in Procs, MergeStream(p) PROVE Dense'
    BY <1>17 DEF MergeStream, Dense, Dir, NSegs, meta
  <1>18. ASSUME NEW p \in Procs, MergeSwap(p) PROVE Dense'
    BY <1>18, StepSwapDense
  <1>19. ASSUME NEW p \in Procs, FreeInputs(p) PROVE Dense'
    BY <1>19 DEF FreeInputs, Dense, Dir, NSegs, meta
  <1>20. ASSUME NEW p \in Procs, MergeReturn(p) PROVE Dense'
    BY <1>20 DEF MergeReturn, Dense, Dir, NSegs, meta
  <1>21. ASSUME NEW p \in Procs, Unlock(p) PROVE Dense'
    BY <1>21 DEF Unlock, Dense, Dir, NSegs, meta
  <1>22. ASSUME NEW p \in Procs, Vacuum(p) PROVE Dense'
    BY <1>22 DEF Vacuum, Dense, Dir, NSegs, meta
  <1>23. ASSUME NEW p \in Procs, FtsMerge(p) PROVE Dense'
    BY <1>23 DEF FtsMerge, Dense, Dir, NSegs, meta
  <1>24. ASSUME NEW p \in Procs, BulkSnapshot(p) PROVE Dense'
    BY <1>24 DEF BulkSnapshot, Dense, Dir, NSegs, meta
  <1>25. ASSUME NEW p \in Procs, BulkSegment(p) PROVE Dense'
    BY <1>25 DEF BulkSegment, Dense, Dir, NSegs, meta
  <1>26. ASSUME NEW p \in Procs, BulkDone(p) PROVE Dense'
    BY <1>26 DEF BulkDone, Dense, Dir, NSegs, meta
  <1>27. ASSUME NEW p \in Procs, Reclaim(p) PROVE Dense'
    BY <1>27 DEF Reclaim, Dense, Dir, NSegs, meta
  <1> QED BY <1>1, <1>2, <1>3, <1>4, <1>5, <1>6, <1>7, <1>8, <1>9, <1>10, <1>11, <1>12, <1>13,
     <1>14, <1>15, <1>16, <1>17, <1>18, <1>19, <1>20, <1>21, <1>22, <1>23, <1>24, <1>25, <1>26,
     <1>27
       DEF Next, Work, Serve, Continue, Insert, Flush, AddSegment, Merge, BulkDelete, Refuse

\* Control, ownership and the directory.
SegmentsInv ==
    TypeInv /\ Exclusion /\ InputsKept /\ Control /\ Owners /\ Holdings /\ Apart /\ Dense

LEMMA InitSegmentsInv == Init => SegmentsInv
  <1> SUFFICES ASSUME Init PROVE SegmentsInv OBVIOUS
  <1> USE NoneAssumption DEF Init, IdleJob, NoSegs
  <1>1. Exclusion /\ InputsKept BY DEF Exclusion, Maintaining, InputsKept
  <1>2. Control /\ Owners
    BY DEF Control, IdleClean, OpAt, Owners, DocOwned, OneOwner, Storing
  <1>3. Holdings BY DEF Holdings, OutAt, MoutAt, InpAt, Adding, Merging
  <1>4. Apart BY DEF Apart, OutApart, MoutApart, InputsGone
  <1>5. Dense
    <2>1. Dir = {} BY DEF Dir
    <2>2. NSegs = 0 BY <2>1, FS_EmptySet DEF NSegs
    <2> QED BY <2>1, <2>2, SizesAssumption DEF Dense
  <1> QED BY <1>1, <1>2, <1>3, <1>4, <1>5, InitTypeInv DEF SegmentsInv

LEMMA StepSegmentsInv == SegmentsInv /\ [Next]_vars => SegmentsInv'
  <1>1. ASSUME SegmentsInv, UNCHANGED vars PROVE SegmentsInv'
    <2> USE <1>1 DEF SegmentsInv, vars, meta
    <2>1. TypeInv' BY StepTypeInv
    <2>2. Exclusion' /\ InputsKept'
      BY DEF Exclusion, Maintaining, InputsKept, AllFound, Inputs
    <2>3. Control' /\ Owners'
      BY DEF Control, IdleClean, OpAt, Owners, DocOwned, OneOwner, Storing
    <2>4. Holdings' /\ Apart'
      BY DEF Holdings, OutAt, MoutAt, InpAt, Adding, Merging, Inputs, Apart, OutApart,
             MoutApart, InputsGone
    <2>5. Dense' BY DEF Dense, Dir, NSegs
    <2> QED BY <2>1, <2>2, <2>3, <2>4, <2>5
  <1>2. ASSUME SegmentsInv, Next PROVE SegmentsInv'
    BY <1>2, StepTypeInv, StepExclusion, StepInputsKept, StepControlled, StepOwners,
       StepHoldings, StepApart, StepDense DEF SegmentsInv
  <1> QED BY <1>1, <1>2

\* The directory is a dense array of at most BM25_MAX_SEGMENTS descriptors:
\* whatever merges and publications interleave, no slot is used twice, none is
\* left empty before the last, and the array does not overflow.
THEOREM DirectoryIsDense == Spec => []DirectoryDense
  <1>1. SegmentsInv => DirectoryDense
    <2> SUFFICES ASSUME SegmentsInv PROVE DirectoryDense OBVIOUS
    <2> DEFINE f == [i \in Dir |-> pos[i]]
    <2>1. pos \in [Segs -> Nat] /\ Dense BY DEF SegmentsInv, TypeInv, TypeOK
    <2>2. NSegs \in Nat BY <2>1, NSegsType
    <2>3. f \in Injection(Dir, 1 .. NSegs)
      <3>1. f \in [Dir -> 1 .. NSegs] BY <2>1, <2>2 DEF Dense, Dir
      <3>2. IsInjective(f) BY <2>1 DEF Dense, IsInjective
      <3> QED BY <3>1, <3>2 DEF Injection
    <2>4. IsFiniteSet(1 .. NSegs) /\ Cardinality(1 .. NSegs) = Cardinality(Dir)
      BY <2>2, FS_Interval DEF NSegs
    <2>5. f \in Surjection(Dir, 1 .. NSegs) BY <2>3, <2>4, FS_Injection
    <2>6. {pos[i] : i \in Dir} = 1 .. NSegs BY <2>3, <2>5 DEF Surjection, Injection
    <2> QED BY <2>1, <2>6 DEF DirectoryDense, Dense
  <1> QED BY <1>1, InitSegmentsInv, StepSegmentsInv, PTL DEF Spec

-----------------------------------------------------------------------------
(***************************************************************************)
(* The pending list: what it counts, and what a seal freezes.              *)
(***************************************************************************)
\* The list runs from head to tail, and the tail is the last page linked.
ListShape ==
    /\ head = 0 <=> tail = 0
    /\ head = 0 => npending = 0
    /\ tail # 0 => tail = top /\ head <= tail

PagesBlank == \A k \in Pages : k > top => page[k] = {}

\* A document is on one page at most.
OnePage == \A k, l \in Pages : \A d \in page[k] \cap page[l] : k = l

\* A document on a page has been inserted, and by no append still to come.
Filing ==
    \A k \in Pages : \A d \in page[k] :
        /\ heap[d] # "absent" /\ d \notin Oversized
        /\ \A p \in Procs : pc[p] = "append" => job[p].doc # d

SealedDocs(p) == UNION {page[k] : k \in SealedPages(p)}

\* What a flush sealed is a prefix of the list, complete and counted; what it
\* frees is off the list.
SealKept ==
    \A p \in Procs :
        /\ Sealed(p) => /\ 1 <= job[p].first /\ job[p].first <= job[p].last
                        /\ job[p].last < top /\ head = job[p].first
                        /\ job[p].sealed = Cardinality(SealedDocs(p))
        /\ job[p].op = "oversized" => job[p].sealed = 0
        /\ pc[p] = "freepages" => job[p].last < top /\ (head = 0 \/ job[p].last < head)

PendingInv == ListShape /\ PagesBlank /\ OnePage /\ Filing /\ SealKept /\ PendingCounted

-----------------------------------------------------------------------------
LEMMA InPending ==
    ASSUME NEW d
    PROVE  d \in PendingDocs <=> \E k \in Pages : head # 0 /\ k >= head /\ d \in page[k]
  BY DEF PendingDocs

LEMMA InSealed ==
    ASSUME NEW p \in Procs, NEW d
    PROVE  d \in SealedDocs(p) <=>
             \E k \in Pages : job[p].first <= k /\ k <= job[p].last /\ d \in page[k]
  BY DEF SealedDocs, SealedPages, Pages

LEMMA SetOfDocs ==
    ASSUME NEW D \in SUBSET Docs
    PROVE  IsFiniteSet(D) /\ Cardinality(D) \in Nat
  BY FiniteAssumption, FS_Subset, FS_CardinalityType

\* The types this module's steps use.
LEMMA PendingTypes ==
    ASSUME TypeInv
    PROVE  /\ pc \in [Procs -> Points] /\ job \in [Procs -> Job]
           /\ page \in [Pages -> SUBSET Docs]
           /\ head \in Nat /\ tail \in Nat /\ top \in 0 .. MaxPage /\ npending \in Nat
           /\ MaxPage \in Nat /\ PendingDocs \in SUBSET Docs
           /\ \A p \in Procs : SealedDocs(p) \in SUBSET Docs
  BY SizesAssumption DEF TypeInv, TypeOK, PendingDocs, SealedDocs, SealedPages, Pages

\* A step that neither inserts a tuple nor touches the pending list.
Quiet ==
    /\ UNCHANGED <<page, head, tail, npending, top>>
    /\ \A d \in Docs : heap'[d] = "absent" => heap[d] = "absent"
    /\ \A p \in Procs : pc'[p] = "append" => pc[p] = "append" /\ job'[p].doc = job[p].doc

OnList(p) == AppendPending(p) \/ Seal(p) \/ Publish(p) \/ FreePages(p)
Stores == \E p \in Procs : OnList(p) \/ \E d \in Docs : HeapInsert(p, d)

LEMMA StoresOrQuiet ==
    TypeInv /\ Next => (Stores \/ Quiet)
  <1> SUFFICES ASSUME TypeInv, Next PROVE (Stores \/ Quiet)
    OBVIOUS
  <1> USE NoneAssumption
  <1>t. pc \in [Procs -> Points] /\ job \in [Procs -> Job]
    BY DEF TypeInv, TypeOK
  <1>1. ASSUME NEW p \in Procs, NEW d \in Docs, HeapInsert(p, d) PROVE (Stores \/ Quiet)
    BY <1>1 DEF Stores, OnList
  <1>2. ASSUME NEW d \in Docs, Delete(d) PROVE (Stores \/ Quiet)
    BY <1>2, <1>t DEF Delete, Quiet, Goto, Job, meta
  <1>3. ASSUME NEW p \in Procs, Commit(p) PROVE (Stores \/ Quiet)
    BY <1>3, <1>t DEF Commit, Quiet, Goto, Job, meta, IdleJob
  <1>4. ASSUME NEW p \in Procs, Abort(p) PROVE (Stores \/ Quiet)
    BY <1>4, <1>t DEF Abort, Quiet, Goto, Job, meta, IdleJob
  <1>5. ASSUME NEW p \in Procs, AppendPending(p) PROVE (Stores \/ Quiet)
    BY <1>5 DEF Stores, OnList
  <1>6. ASSUME NEW p \in Procs, TryFlush(p) PROVE (Stores \/ Quiet)
    BY <1>6, <1>t DEF TryFlush, Quiet, Goto, Job, meta
  <1>7. ASSUME NEW p \in Procs, WriteOversized(p) PROVE (Stores \/ Quiet)
    BY <1>7, <1>t DEF WriteOversized, Quiet, Goto, Job
  <1>8. ASSUME NEW p \in Procs, Tidy(p) PROVE (Stores \/ Quiet)
    BY <1>8, <1>t DEF Tidy, Quiet, Goto, Job, meta
  <1>9. ASSUME NEW p \in Procs, Publish(p) PROVE (Stores \/ Quiet)
    BY <1>9 DEF Stores, OnList
  <1>10. ASSUME NEW p \in Procs, MakeRoom(p) PROVE (Stores \/ Quiet)
    BY <1>10, <1>t DEF MakeRoom, Quiet, Goto, Job, meta
  <1>11. ASSUME NEW p \in Procs, MergeForRoom(p) PROVE (Stores \/ Quiet)
    BY <1>11, <1>t DEF MergeForRoom, Quiet, Goto, Job, meta
  <1>12. ASSUME NEW p \in Procs, Lock(p) PROVE (Stores \/ Quiet)
    BY <1>12, <1>t DEF Lock, Quiet, Goto, Job, meta
  <1>13. ASSUME NEW p \in Procs, Seal(p) PROVE (Stores \/ Quiet)
    BY <1>13 DEF Stores, OnList
  <1>14. ASSUME NEW p \in Procs, Fold(p) PROVE (Stores \/ Quiet)
    BY <1>14, <1>t DEF Fold, Quiet, Goto, Job
  <1>15. ASSUME NEW p \in Procs, FreePages(p) PROVE (Stores \/ Quiet)
    BY <1>15 DEF Stores, OnList
  <1>16. ASSUME NEW p \in Procs, MergeSelect(p) PROVE (Stores \/ Quiet)
    BY <1>16, <1>t DEF MergeSelect, Quiet, Goto, Job, meta
  <1>17. ASSUME NEW p \in Procs, MergeStream(p) PROVE (Stores \/ Quiet)
    BY <1>17, <1>t DEF MergeStream, Quiet, Goto, Job
  <1>18. ASSUME NEW p \in Procs, MergeSwap(p) PROVE (Stores \/ Quiet)
    BY <1>18, <1>t DEF MergeSwap, Quiet, Goto, Job
  <1>19. ASSUME NEW p \in Procs, FreeInputs(p) PROVE (Stores \/ Quiet)
    BY <1>19, <1>t DEF FreeInputs, Quiet, Goto, Job
  <1>20. ASSUME NEW p \in Procs, MergeReturn(p) PROVE (Stores \/ Quiet)
    BY <1>20, <1>t DEF MergeReturn, Quiet, Goto, Job, meta, AfterFlush
  <1>21. ASSUME NEW p \in Procs, Unlock(p) PROVE (Stores \/ Quiet)
    <2> DEFINE b == pc'[p]
    <2>1. b # "append" /\ \A q \in Procs : q # p => pc'[q] = pc[q] /\ job'[q] = job[q]
      BY <1>21, <1>t DEF Unlock, Goto
    <2> QED BY <1>21, <2>1 DEF Unlock, Quiet, meta
  <1>22. ASSUME NEW p \in Procs, Vacuum(p) PROVE (Stores \/ Quiet)
    BY <1>22, <1>t DEF Vacuum, Quiet, Goto, Job, meta
  <1>23. ASSUME NEW p \in Procs, FtsMerge(p) PROVE (Stores \/ Quiet)
    BY <1>23, <1>t DEF FtsMerge, Quiet, Goto, Job, meta
  <1>24. ASSUME NEW p \in Procs, BulkSnapshot(p) PROVE (Stores \/ Quiet)
    BY <1>24, <1>t DEF BulkSnapshot, Quiet, Goto, Job, meta
  <1>25. ASSUME NEW p \in Procs, BulkSegment(p) PROVE (Stores \/ Quiet)
    BY <1>25, <1>t DEF BulkSegment, Quiet, Goto, Job
  <1>26. ASSUME NEW p \in Procs, BulkDone(p) PROVE (Stores \/ Quiet)
    BY <1>26, <1>t DEF BulkDone, Quiet, Goto, Job, meta
  <1>27. ASSUME NEW p \in Procs, Reclaim(p) PROVE (Stores \/ Quiet)
    BY <1>27, <1>t DEF Reclaim, Quiet, Goto, Job, meta
  <1> QED BY <1>1, <1>2, <1>3, <1>4, <1>5, <1>6, <1>7, <1>8, <1>9, <1>10, <1>11, <1>12, <1>13,
     <1>14, <1>15, <1>16, <1>17, <1>18, <1>19, <1>20, <1>21, <1>22, <1>23, <1>24, <1>25, <1>26,
     <1>27
       DEF Next, Work, Serve, Continue, Insert, Flush, AddSegment, Merge, BulkDelete, Refuse

-----------------------------------------------------------------------------
\* An append leaves a list on which its document counts once.
LEMMA StepAppend ==
    ASSUME TypeInv, Owners, Control, PendingInv, NEW p \in Procs, AppendPending(p)
    PROVE  /\ ListShape' /\ PagesBlank' /\ OnePage' /\ Filing' /\ PendingCounted'
           /\ head # 0 => head' = head
           /\ top <= top' /\ (head = 0 => head' = 0 \/ head' = top + 1)
           /\ \A k \in Pages : k < top => page'[k] = page[k]
           /\ PendingDocs' = PendingDocs \cup {job[p].doc}
  <1> USE NoneAssumption
  <1> DEFINE d == job[p].doc
  <1>t. /\ pc \in [Procs -> Points] /\ job \in [Procs -> Job]
        /\ page \in [Pages -> SUBSET Docs]
        /\ head \in Nat /\ tail \in Nat /\ top \in 0 .. MaxPage /\ npending \in Nat
        /\ MaxPage \in Nat /\ PendingDocs \in SUBSET Docs
    BY PendingTypes
  <1>i. ListShape /\ PagesBlank /\ OnePage /\ Filing /\ PendingCounted BY DEF PendingInv
  <1>1. pc[p] = "append" /\ job' = job /\ heap' = heap /\ npending' = npending + 1
    BY DEF AppendPending, Goto
  <1>2. d \in Docs /\ d \notin Oversized /\ heap[d] = "inserting"
    BY <1>1 DEF Owners, DocOwned, Control, OpAt, Storing
  <1>3. \A k \in Pages : d \notin page[k] BY <1>1, <1>i DEF Filing
  <1>4. \A q \in Procs : pc'[q] = "append" => q # p /\ pc[q] = "append"
    BY <1>t DEF AppendPending, Goto
  <1>5. \A q \in Procs : q # p /\ pc[q] = "append" => job[q].doc # d
    BY <1>2 DEF Owners, OneOwner
  <1>6. PICK m \in Pages :
           /\ page' = [page EXCEPT ![m] = @ \cup {d}]
           /\ tail' = m /\ top' = m /\ m >= top
           /\ head' = IF tail = 0 THEN m ELSE head
           /\ tail = 0 => m = top + 1
    <2>1. CASE tail # 0 /\ page' = [page EXCEPT ![tail] = @ \cup {d}] /\ UNCHANGED <<head, tail, top>>
      <3>1. tail \in Pages /\ tail = top BY <1>t, <1>i, <2>1 DEF Pages, ListShape
      <3>2. /\ page' = [page EXCEPT ![tail] = @ \cup {d}] /\ tail' = tail /\ top' = tail
            /\ tail >= top /\ head' = head
        BY <1>t, <2>1, <3>1
      <3> QED BY <2>1, <3>1, <3>2
    <2>2. CASE /\ top < MaxPage /\ top' = top + 1 /\ page' = [page EXCEPT ![top + 1] = {d}]
               /\ tail' = top + 1 /\ head' = IF tail = 0 THEN top + 1 ELSE head
      <3> DEFINE m == top + 1
      <3>1. m \in Pages /\ m > top BY <1>t, <2>2 DEF Pages
      <3>2. page[m] = {} BY <1>i, <3>1 DEF PagesBlank
      <3>3. page' = [page EXCEPT ![m] = page[m] \cup {d}] BY <2>2, <3>2
      <3> HIDE DEF m
      <3>4. /\ tail' = m /\ top' = m /\ m >= top /\ m = top + 1
            /\ head' = IF tail = 0 THEN m ELSE head
        BY <1>t, <2>2, <3>1 DEF m
      <3> QED BY <3>1, <3>3, <3>4
    <2> QED BY <2>1, <2>2 DEF AppendPending
  <1> HIDE DEF d
  <1>7. ListShape' /\ PagesBlank'
    BY <1>t, <1>i, <1>1, <1>6 DEF ListShape, PagesBlank, Pages
  <1>8. OnePage' BY <1>t, <1>i, <1>3, <1>6 DEF OnePage
  <1>9. Filing' BY <1>t, <1>i, <1>1, <1>2, <1>4, <1>5, <1>6 DEF Filing
  <1>10. d \notin PendingDocs BY <1>3, InPending
  <1>11. PendingDocs' = PendingDocs \cup {d}
    <2>1. ASSUME NEW e PROVE e \in PendingDocs' <=> e \in PendingDocs \/ e = d
      <3>1. e \in PendingDocs' <=> \E k \in Pages : head' # 0 /\ k >= head' /\ e \in page'[k]
        BY DEF PendingDocs
      <3>2. m >= head' /\ head' # 0 /\ d \in page'[m]
        BY <1>t, <1>i, <1>6 DEF Pages, ListShape
      <3>3. CASE tail # 0
        BY <1>t, <1>i, <1>6, <3>1, <3>2, <3>3, InPending DEF ListShape
      <3>4. CASE tail = 0
        <4>1. head = 0 /\ head' = m /\ m = top + 1 BY <1>i, <1>6, <3>4 DEF ListShape
        <4>2. \A k \in Pages : k >= m => page[k] = {} BY <1>t, <1>i, <4>1 DEF PagesBlank, Pages
        <4> QED BY <1>t, <1>6, <3>1, <3>2, <4>1, <4>2, InPending
      <3> QED BY <3>3, <3>4
    <2> QED BY <2>1
  <1>12. Cardinality(PendingDocs \cup {d}) = Cardinality(PendingDocs) + 1
    BY <1>t, <1>10, SetOfDocs, FS_AddElement
  <1>13. PendingCounted' BY <1>i, <1>1, <1>11, <1>12 DEF PendingCounted
  <1>14. /\ head # 0 => head' = head
         /\ top <= top' /\ (head = 0 => head' = 0 \/ head' = top + 1)
         /\ \A k \in Pages : k < top => page'[k] = page[k]
    BY <1>t, <1>i, <1>6 DEF ListShape, Pages
  <1> QED BY <1>7, <1>8, <1>9, <1>11, <1>13, <1>14 DEF d

\* A seal adds an empty page after the last.
LEMMA StepSeal ==
    ASSUME TypeInv, PendingInv, NEW p \in Procs, Seal(p)
    PROVE  /\ ListShape' /\ PagesBlank' /\ OnePage' /\ Filing' /\ PendingCounted'
           /\ PendingDocs' = PendingDocs
  <1>t. /\ pc \in [Procs -> Points] /\ job \in [Procs -> Job]
        /\ page \in [Pages -> SUBSET Docs]
        /\ head \in Nat /\ tail \in Nat /\ top \in 0 .. MaxPage /\ npending \in Nat
        /\ MaxPage \in Nat /\ PendingDocs \in SUBSET Docs
        /\ \A q \in Procs : SealedDocs(q) \in SUBSET Docs
    BY PendingTypes
  <1>i. ListShape /\ PagesBlank /\ OnePage /\ Filing /\ PendingCounted BY DEF PendingInv
  <1>1. page' = page /\ head' = head /\ npending' = npending /\ heap' = heap
    BY SealLocals
  <1>2. \/ tail' = tail /\ top' = top
        \/ npending # 0 /\ tail' = top + 1 /\ top' = top + 1
    BY DEF Seal, meta, SealTail
  <1>3. PendingDocs' = PendingDocs BY <1>1 DEF PendingDocs
  <1>4. ListShape' /\ PagesBlank' BY <1>t, <1>i, <1>1, <1>2 DEF ListShape, PagesBlank, Pages
  <1>5. OnePage' BY <1>i, <1>1 DEF OnePage
  <1>6. Filing' BY <1>t, <1>i, <1>1, SealLocals DEF Filing
  <1>7. PendingCounted' BY <1>i, <1>1, <1>3 DEF PendingCounted
  <1> QED BY <1>3, <1>4, <1>5, <1>6, <1>7

\* Everything pending is sealed.
LEMMA SealTakesAll ==
    ASSUME TypeInv, PendingInv, NEW p \in Procs, Seal(p), npending # 0
    PROVE  /\ SealedDocs(p)' = PendingDocs
           /\ 1 <= head /\ head <= tail /\ tail = top
           /\ job'[p].first = head /\ job'[p].last = tail /\ job'[p].sealed = npending
           /\ top' = top + 1
  <1>t. /\ pc \in [Procs -> Points] /\ job \in [Procs -> Job]
        /\ page \in [Pages -> SUBSET Docs]
        /\ head \in Nat /\ tail \in Nat /\ top \in 0 .. MaxPage /\ npending \in Nat
        /\ MaxPage \in Nat /\ PendingDocs \in SUBSET Docs
        /\ \A q \in Procs : SealedDocs(q) \in SUBSET Docs
    BY PendingTypes
  <1>i. ListShape /\ PagesBlank BY DEF PendingInv
  <1>1. /\ job'[p].first = head /\ job'[p].last = tail /\ job'[p].sealed = npending
        /\ top' = top + 1
    BY <1>t DEF Seal, Job
  <1>2. 1 <= head /\ head <= tail /\ tail = top BY <1>t, <1>i DEF ListShape
  <1>3. page' = page BY SealLocals
  <1>4. ASSUME NEW d PROVE d \in SealedDocs(p)' <=> d \in PendingDocs
    <2>1. d \in SealedDocs(p)' <=> \E k \in Pages : head <= k /\ k <= tail /\ d \in page[k]
      BY <1>1, <1>3 DEF SealedDocs, SealedPages, Pages
    <2>2. d \in PendingDocs <=> \E k \in Pages : k >= head /\ d \in page[k]
      BY <1>t, <1>2, InPending
    <2>3. \A k \in Pages : k \in Nat /\ (k > tail => page[k] = {})
      BY <1>i, <1>2 DEF PagesBlank, Pages
    <2> QED BY <1>t, <2>1, <2>2, <2>3
  <1> QED BY <1>1, <1>2, <1>4

\* A seal stands at a prefix of the pages: the rest of the list is the rest of
\* the documents.
LEMMA SealedPart ==
    ASSUME TypeInv, PendingInv, NEW p \in Procs, Sealed(p)
    PROVE  LET rest == UNION {page[k] : k \in {k \in Pages : k >= job[p].last + 1}}
           IN  /\ PendingDocs = SealedDocs(p) \cup rest
               /\ SealedDocs(p) \cap rest = {}
               /\ rest \in SUBSET Docs
               /\ npending = job[p].sealed + Cardinality(rest)
               /\ Left(p) = Cardinality(rest)
               /\ job[p].sealed \in Nat
  <1>t. /\ pc \in [Procs -> Points] /\ job \in [Procs -> Job]
        /\ page \in [Pages -> SUBSET Docs]
        /\ head \in Nat /\ tail \in Nat /\ top \in 0 .. MaxPage /\ npending \in Nat
        /\ MaxPage \in Nat /\ PendingDocs \in SUBSET Docs
        /\ \A q \in Procs : SealedDocs(q) \in SUBSET Docs
    BY PendingTypes
  <1>i. ListShape /\ OnePage /\ PendingCounted /\ SealKept BY DEF PendingInv
  <1> DEFINE rest == UNION {page[k] : k \in {k \in Pages : k >= job[p].last + 1}}
  <1>1. /\ 1 <= job[p].first /\ job[p].first <= job[p].last /\ head = job[p].first
        /\ job[p].sealed = Cardinality(SealedDocs(p))
        /\ job[p].first \in Nat /\ job[p].last \in Nat /\ job[p].sealed \in Nat
    BY <1>t, <1>i DEF SealKept, Job
  <1>2. ASSUME NEW d PROVE d \in rest <=> \E k \in Pages : k >= job[p].last + 1 /\ d \in page[k]
    OBVIOUS
  <1>3. rest \in SUBSET Docs BY <1>t
  <1> HIDE DEF rest
  <1>4. \A k \in Pages : k \in Nat BY DEF Pages
  <1>5. ASSUME NEW d PROVE d \in PendingDocs <=> d \in SealedDocs(p) \/ d \in rest
    <2>1. d \in PendingDocs <=> \E k \in Pages : k >= job[p].first /\ d \in page[k]
      BY <1>1, InPending
    <2>2. d \in SealedDocs(p) <=>
             \E k \in Pages : job[p].first <= k /\ k <= job[p].last /\ d \in page[k]
      BY InSealed
    <2>3. \A k \in Pages : k >= job[p].first <=>
             (job[p].first <= k /\ k <= job[p].last) \/ k >= job[p].last + 1
      BY <1>1, <1>4
    <2> QED BY <1>2, <2>1, <2>2, <2>3
  <1>6. ASSUME NEW d PROVE ~(d \in SealedDocs(p) /\ d \in rest)
    BY <1>1, <1>2, <1>4, <1>i, InSealed DEF OnePage
  <1>7. PendingDocs = SealedDocs(p) \cup rest /\ SealedDocs(p) \cap rest = {} BY <1>5, <1>6
  <1>8. IsFiniteSet(SealedDocs(p)) /\ IsFiniteSet(rest) BY <1>t, <1>3, SetOfDocs
  <1>9. /\ Cardinality(SealedDocs(p) \cup rest)
             = Cardinality(SealedDocs(p)) + Cardinality(rest) - Cardinality(SealedDocs(p) \cap rest)
        /\ Cardinality(SealedDocs(p) \cap rest) = 0 /\ Cardinality(rest) \in Nat
    BY <1>3, <1>7, <1>8, FS_Union, FS_EmptySet, SetOfDocs
  <1>10. npending = job[p].sealed + Cardinality(rest)
    BY <1>i, <1>1, <1>7, <1>9 DEF PendingCounted
  <1>11. Left(p) = Cardinality(rest) BY <1>1, <1>9, <1>10 DEF Left
  <1> QED BY <1>1, <1>3, <1>7, <1>10, <1>11 DEF rest

\* Publishing a flush takes exactly what was sealed off the list.
LEMMA StepPublishList ==
    ASSUME TypeInv, PendingInv, NEW p \in Procs, Publish(p)
    PROVE  /\ ListShape' /\ PagesBlank' /\ OnePage' /\ Filing' /\ PendingCounted'
           /\ job[p].op = "oversized" => PendingDocs' = PendingDocs /\ head' = head
           /\ job[p].op # "oversized" =>
                 /\ PendingDocs = SealedDocs(p) \cup PendingDocs'
                 /\ SealedDocs(p) \cap PendingDocs' = {}
                 /\ head' = 0 \/ head' = job[p].last + 1
  <1>t. /\ pc \in [Procs -> Points] /\ job \in [Procs -> Job]
        /\ page \in [Pages -> SUBSET Docs]
        /\ head \in Nat /\ tail \in Nat /\ top \in 0 .. MaxPage /\ npending \in Nat
        /\ MaxPage \in Nat /\ PendingDocs \in SUBSET Docs
        /\ \A q \in Procs : SealedDocs(q) \in SUBSET Docs
    BY PendingTypes
  <1>i. ListShape /\ PagesBlank /\ OnePage /\ Filing /\ PendingCounted /\ SealKept
    BY DEF PendingInv
  <1>1. /\ pc[p] = "publish" /\ \A q \in Procs : pc'[q] = "append" => pc[q] = "append"
        /\ page' = page /\ top' = top /\ heap' = heap
        /\ \A q \in Procs : job'[q].doc = job[q].doc
    BY <1>t DEF Publish, Goto, Job
  <1>2. PagesBlank' /\ OnePage' /\ Filing' BY <1>i, <1>1 DEF PagesBlank, OnePage, Filing
  <1>3. CASE job[p].op = "oversized"
    <2>1. UNCHANGED <<head, tail, npending>> BY <1>3 DEF Publish
    <2>2. PendingDocs' = PendingDocs BY <1>1, <2>1 DEF PendingDocs
    <2> QED BY <1>i, <1>1, <1>2, <1>3, <2>1, <2>2 DEF ListShape, PendingCounted
  <1>4. CASE job[p].op # "oversized"
    <2>s. Sealed(p) BY <1>1, <1>4 DEF Sealed
    <2> DEFINE rest == UNION {page[k] : k \in {k \in Pages : k >= job[p].last + 1}}
    <2>1. /\ PendingDocs = SealedDocs(p) \cup rest /\ rest \in SUBSET Docs
          /\ SealedDocs(p) \cap rest = {} /\ Left(p) = Cardinality(rest)
      BY <2>s, SealedPart
    <2>2. /\ npending' = Left(p) /\ head' = HeadLeft(p)
          /\ tail' = IF Emptied(p) THEN 0 ELSE tail
      BY <1>4 DEF Publish
    <2>3. /\ 1 <= job[p].first /\ job[p].first <= job[p].last /\ head = job[p].first
          /\ job[p].last < top /\ job[p].first \in Nat /\ job[p].last \in Nat
      BY <1>t, <1>i, <2>s DEF SealKept, Job
    <2>4. CASE Emptied(p)
      <3>1. head' = 0 /\ tail' = 0 /\ Left(p) = 0 BY <2>2, <2>4 DEF HeadLeft, Emptied
      <3>2. rest = {} BY <2>1, <3>1, SetOfDocs, FS_EmptySet
      <3>3. PendingDocs' = {} BY <3>1 DEF PendingDocs
      <3>4. ListShape' BY <2>2, <3>1 DEF ListShape
      <3>5. Cardinality({}) = 0 BY FS_EmptySet
      <3>6. PendingCounted' BY <2>2, <3>1, <3>3, <3>5 DEF PendingCounted
      <3> QED BY <1>2, <1>4, <2>1, <3>1, <3>2, <3>3, <3>4, <3>6
    <2>5. CASE ~Emptied(p)
      <3>1. head' = job[p].last + 1 /\ tail' = tail BY <2>2, <2>5 DEF HeadLeft
      <3>2. PendingDocs' = rest BY <1>1, <2>3, <3>1 DEF PendingDocs
      <3>3. ListShape' BY <1>t, <1>i, <1>1, <2>3, <3>1 DEF ListShape
      <3>4. PendingCounted' BY <2>1, <2>2, <3>2 DEF PendingCounted
      <3> QED BY <1>2, <1>4, <2>1, <3>1, <3>2, <3>3, <3>4
    <2> QED BY <2>4, <2>5
  <1> QED BY <1>3, <1>4

\* Only pages that are off the list are freed.
LEMMA StepFree ==
    ASSUME TypeInv, PendingInv, NEW p \in Procs, FreePages(p)
    PROVE  /\ ListShape' /\ PagesBlank' /\ OnePage' /\ Filing' /\ PendingCounted'
           /\ PendingDocs' = PendingDocs
  <1>t. /\ pc \in [Procs -> Points] /\ job \in [Procs -> Job]
        /\ page \in [Pages -> SUBSET Docs]
        /\ head \in Nat /\ tail \in Nat /\ top \in 0 .. MaxPage /\ npending \in Nat
        /\ MaxPage \in Nat /\ PendingDocs \in SUBSET Docs
        /\ \A q \in Procs : SealedDocs(q) \in SUBSET Docs
    BY PendingTypes
  <1>i. ListShape /\ PagesBlank /\ OnePage /\ Filing /\ PendingCounted /\ SealKept
    BY DEF PendingInv
  <1>1. /\ pc[p] = "freepages" /\ \A q \in Procs : pc'[q] = "append" => pc[q] = "append"
        /\ page' = [k \in Pages |-> IF k \in SealedPages(p) THEN {} ELSE page[k]]
        /\ UNCHANGED <<heap, head, tail, npending, top>>
        /\ \A q \in Procs : job'[q].doc = job[q].doc
    BY <1>t DEF FreePages, Goto, Job
  <1>2. PagesBlank' /\ OnePage' /\ Filing' /\ ListShape'
    BY <1>i, <1>1 DEF PagesBlank, OnePage, Filing, ListShape
  <1>3. head = 0 \/ \A k \in Pages : k >= head => k \notin SealedPages(p)
    BY <1>t, <1>i, <1>1 DEF SealKept, SealedPages, Pages, Job
  <1>4. ASSUME NEW d PROVE d \in PendingDocs' <=> d \in PendingDocs
    <2>1. d \in PendingDocs' <=> \E k \in Pages : head' # 0 /\ k >= head' /\ d \in page'[k]
      BY DEF PendingDocs
    <2> QED BY <1>1, <1>3, <2>1, InPending
  <1>5. PendingDocs' = PendingDocs BY <1>4
  <1>6. PendingCounted' BY <1>i, <1>1, <1>5 DEF PendingCounted
  <1> QED BY <1>2, <1>5, <1>6

LEMMA StepListed ==
    TypeInv /\ Control /\ Owners /\ PendingInv /\ Next =>
        /\ ListShape' /\ PagesBlank' /\ OnePage' /\ Filing' /\ PendingCounted'
  <1> SUFFICES ASSUME TypeInv, Control, Owners, PendingInv, Next
      PROVE ListShape' /\ PagesBlank' /\ OnePage' /\ Filing' /\ PendingCounted'
    OBVIOUS
  <1>i. ListShape /\ PagesBlank /\ OnePage /\ Filing /\ PendingCounted BY DEF PendingInv
  <1>t. page \in [Pages -> SUBSET Docs] BY PendingTypes
  <1>1. CASE Quiet
    <2>1. PendingDocs' = PendingDocs BY <1>1 DEF Quiet, PendingDocs
    <2>2. ListShape' /\ PagesBlank' /\ OnePage' /\ PendingCounted'
      BY <1>1, <1>i, <2>1 DEF Quiet, ListShape, PagesBlank, OnePage, PendingCounted
    <2>3. Filing' BY <1>1, <1>i, <1>t DEF Quiet, Filing
    <2> QED BY <2>2, <2>3
  <1>2. ASSUME NEW p \in Procs, NEW d \in Docs, HeapInsert(p, d)
        PROVE  ListShape' /\ PagesBlank' /\ OnePage' /\ Filing' /\ PendingCounted'
    <2>1. UNCHANGED <<page, head, tail, npending, top>> BY <1>2 DEF HeapInsert, meta
    <2>2. PendingDocs' = PendingDocs BY <2>1 DEF PendingDocs
    <2>3. ListShape' /\ PagesBlank' /\ OnePage' /\ PendingCounted'
      BY <1>i, <2>1, <2>2 DEF ListShape, PagesBlank, OnePage, PendingCounted
    <2>4. \A k \in Pages : d \notin page[k] BY <1>2, <1>i DEF HeapInsert, Filing
    <2>5. /\ \A e \in Docs : heap'[e] = "absent" => heap[e] = "absent"
          /\ \A q \in Procs : pc'[q] = "append" =>
                job'[q].doc = d \/ (pc[q] = "append" /\ job'[q].doc = job[q].doc)
      BY <1>2 DEF HeapInsert, Goto, TypeInv, TypeOK, Job
    <2>6. Filing' BY <1>i, <1>t, <2>1, <2>4, <2>5 DEF Filing
    <2> QED BY <2>3, <2>6
  <1> QED BY <1>1, <1>2, StoresOrQuiet, StepAppend, StepSeal, StepPublishList, StepFree
          DEF Stores, OnList

-----------------------------------------------------------------------------
\* A step that neither begins nor ends what is sealed.
Undisturbed ==
    \A q \in Procs :
        /\ Sealed(q)' => Sealed(q)
        /\ pc'[q] = "freepages" => pc[q] = "freepages"
        /\ Sealed(q)' \/ pc'[q] = "freepages" =>
              /\ job'[q].first = job[q].first /\ job'[q].last = job[q].last
              /\ job'[q].sealed = job[q].sealed
        /\ job'[q].op = "oversized" =>
              \/ job'[q].sealed = 0
              \/ job[q].op = "oversized" /\ job'[q].sealed = job[q].sealed

SealsOrPublishes == \E p \in Procs : Seal(p) \/ Publish(p)

LEMMA SealedOrUndisturbed ==
    TypeInv /\ Control /\ Next => (SealsOrPublishes \/ Undisturbed)
  <1> SUFFICES ASSUME TypeInv, Control, Next PROVE (SealsOrPublishes \/ Undisturbed)
    OBVIOUS
  <1> USE NoneAssumption
  <1>t. pc \in [Procs -> Points] /\ job \in [Procs -> Job] /\ OversizedWrites
    BY DEF TypeInv, TypeOK
  <1>1. ASSUME NEW p \in Procs, NEW d \in Docs, HeapInsert(p, d)
        PROVE (SealsOrPublishes \/ Undisturbed)
    BY <1>1, <1>t DEF HeapInsert, Undisturbed, Sealed, Goto, Job, meta, Control, IdleClean,
       IdleJob
  <1>2. ASSUME NEW d \in Docs, Delete(d) PROVE (SealsOrPublishes \/ Undisturbed)
    BY <1>2, <1>t DEF Delete, Undisturbed, Sealed, Goto, Job, meta
  <1>3. ASSUME NEW p \in Procs, Commit(p) PROVE (SealsOrPublishes \/ Undisturbed)
    BY <1>3, <1>t DEF Commit, Undisturbed, Sealed, Goto, Job, meta, IdleJob
  <1>4. ASSUME NEW p \in Procs, Abort(p) PROVE (SealsOrPublishes \/ Undisturbed)
    BY <1>4, <1>t DEF Abort, Undisturbed, Sealed, Goto, Job, meta, IdleJob
  <1>5. ASSUME NEW p \in Procs, AppendPending(p) PROVE (SealsOrPublishes \/ Undisturbed)
    BY <1>5, <1>t DEF AppendPending, Undisturbed, Sealed, Goto, Job
  <1>6. ASSUME NEW p \in Procs, TryFlush(p) PROVE (SealsOrPublishes \/ Undisturbed)
    BY <1>6, <1>t DEF TryFlush, Undisturbed, Sealed, Goto, Job, meta
  <1>7. ASSUME NEW p \in Procs, WriteOversized(p) PROVE (SealsOrPublishes \/ Undisturbed)
    BY <1>7, <1>t DEF WriteOversized, Undisturbed, Sealed, Goto, Job, OversizedWrites
  <1>8. ASSUME NEW p \in Procs, Tidy(p) PROVE (SealsOrPublishes \/ Undisturbed)
    BY <1>8, <1>t DEF Tidy, Undisturbed, Sealed, Goto, Job, meta
  <1>9. ASSUME NEW p \in Procs, Publish(p) PROVE (SealsOrPublishes \/ Undisturbed)
    BY <1>9 DEF SealsOrPublishes
  <1>10. ASSUME NEW p \in Procs, MakeRoom(p) PROVE (SealsOrPublishes \/ Undisturbed)
    BY <1>10, <1>t DEF MakeRoom, Undisturbed, Sealed, Goto, Job, meta
  <1>11. ASSUME NEW p \in Procs, MergeForRoom(p) PROVE (SealsOrPublishes \/ Undisturbed)
    BY <1>11, <1>t DEF MergeForRoom, Undisturbed, Sealed, Goto, Job, meta
  <1>12. ASSUME NEW p \in Procs, Lock(p) PROVE (SealsOrPublishes \/ Undisturbed)
    BY <1>12, <1>t DEF Lock, Undisturbed, Sealed, Goto, Job, meta
  <1>13. ASSUME NEW p \in Procs, Seal(p) PROVE (SealsOrPublishes \/ Undisturbed)
    BY <1>13 DEF SealsOrPublishes
  <1>14. ASSUME NEW p \in Procs, Fold(p) PROVE (SealsOrPublishes \/ Undisturbed)
    BY <1>14, <1>t DEF Fold, Undisturbed, Sealed, Goto, Job
  <1>15. ASSUME NEW p \in Procs, FreePages(p) PROVE (SealsOrPublishes \/ Undisturbed)
    BY <1>15, <1>t DEF FreePages, Undisturbed, Sealed, Goto, Job
  <1>16. ASSUME NEW p \in Procs, MergeSelect(p) PROVE (SealsOrPublishes \/ Undisturbed)
    BY <1>16, <1>t DEF MergeSelect, Undisturbed, Sealed, Goto, Job, meta
  <1>17. ASSUME NEW p \in Procs, MergeStream(p) PROVE (SealsOrPublishes \/ Undisturbed)
    BY <1>17, <1>t DEF MergeStream, Undisturbed, Sealed, Goto, Job
  <1>18. ASSUME NEW p \in Procs, MergeSwap(p) PROVE (SealsOrPublishes \/ Undisturbed)
    BY <1>18, <1>t DEF MergeSwap, Undisturbed, Sealed, Goto, Job
  <1>19. ASSUME NEW p \in Procs, FreeInputs(p) PROVE (SealsOrPublishes \/ Undisturbed)
    BY <1>19, <1>t DEF FreeInputs, Undisturbed, Sealed, Goto, Job
  <1>20. ASSUME NEW p \in Procs, MergeReturn(p) PROVE (SealsOrPublishes \/ Undisturbed)
    BY <1>20, <1>t DEF MergeReturn, Undisturbed, Sealed, Goto, Job, meta, AfterFlush, Control,
       OpAt
  <1>21. ASSUME NEW p \in Procs, Unlock(p) PROVE (SealsOrPublishes \/ Undisturbed)
    <2>1. \A q \in Procs : job'[q] = job[q] \/ job'[q].sealed = 0
      BY <1>21, <1>t DEF Unlock, IdleJob, Job
    <2>2. pc'[p] \in {"commit", "reclaim", "idle"} /\ \A q \in Procs : q # p => pc'[q] = pc[q] /\ job'[q] = job[q]
      BY <1>21, <1>t DEF Unlock, Goto
    <2> QED BY <1>t, <2>1, <2>2 DEF Undisturbed, Sealed
  <1>22. ASSUME NEW p \in Procs, Vacuum(p) PROVE (SealsOrPublishes \/ Undisturbed)
    BY <1>22, <1>t DEF Vacuum, Undisturbed, Sealed, Goto, Job, meta
  <1>23. ASSUME NEW p \in Procs, FtsMerge(p) PROVE (SealsOrPublishes \/ Undisturbed)
    BY <1>23, <1>t DEF FtsMerge, Undisturbed, Sealed, Goto, Job, meta
  <1>24. ASSUME NEW p \in Procs, BulkSnapshot(p) PROVE (SealsOrPublishes \/ Undisturbed)
    BY <1>24, <1>t DEF BulkSnapshot, Undisturbed, Sealed, Goto, Job, meta
  <1>25. ASSUME NEW p \in Procs, BulkSegment(p) PROVE (SealsOrPublishes \/ Undisturbed)
    BY <1>25, <1>t DEF BulkSegment, Undisturbed, Sealed, Goto, Job
  <1>26. ASSUME NEW p \in Procs, BulkDone(p) PROVE (SealsOrPublishes \/ Undisturbed)
    BY <1>26, <1>t DEF BulkDone, Undisturbed, Sealed, Goto, Job, meta
  <1>27. ASSUME NEW p \in Procs, Reclaim(p) PROVE (SealsOrPublishes \/ Undisturbed)
    BY <1>27, <1>t DEF Reclaim, Undisturbed, Sealed, Goto, Job, meta
  <1> QED BY <1>1, <1>2, <1>3, <1>4, <1>5, <1>6, <1>7, <1>8, <1>9, <1>10, <1>11, <1>12, <1>13,
     <1>14, <1>15, <1>16, <1>17, <1>18, <1>19, <1>20, <1>21, <1>22, <1>23, <1>24, <1>25, <1>26,
     <1>27
       DEF Next, Work, Serve, Continue, Insert, Flush, AddSegment, Merge, BulkDelete, Refuse

LEMMA StepSealKept ==
    TypeInv /\ Exclusion /\ Control /\ Owners /\ PendingInv /\ Next => SealKept'
  <1> SUFFICES ASSUME TypeInv, Exclusion, Control, Owners, PendingInv, Next PROVE SealKept'
    OBVIOUS
  <1>t. /\ pc \in [Procs -> Points] /\ job \in [Procs -> Job]
        /\ page \in [Pages -> SUBSET Docs]
        /\ head \in Nat /\ tail \in Nat /\ top \in 0 .. MaxPage /\ npending \in Nat
        /\ MaxPage \in Nat /\ PendingDocs \in SUBSET Docs
        /\ \A q \in Procs : SealedDocs(q) \in SUBSET Docs
    BY PendingTypes
  <1>i. ListShape /\ PagesBlank /\ SealKept /\ PendingCounted BY DEF PendingInv
  <1>x. \A p, q \in Procs : (Maintaining(p) /\ Maintaining(q)) => p = q BY DEF Exclusion
  <1>m. \A q \in Procs : Sealed(q) \/ pc[q] = "freepages" => Maintaining(q)
    BY DEF Sealed, Maintaining
  <1>1. ASSUME NEW p \in Procs, Seal(p) PROVE SealKept'
    <2>1. /\ pc[p] = "seal" /\ \A q \in Procs : q # p => pc'[q] = pc[q] /\ job'[q] = job[q]
          /\ pc'[p] # "freepages" /\ job'[p].op = job[p].op
          /\ page' = page /\ head' = head
      BY <1>1, <1>t, SealLocals
    <2>2. \A q \in Procs : q # p => ~Sealed(q)' /\ pc'[q] # "freepages"
      BY <1>x, <1>m, <2>1 DEF Maintaining, Sealed
    <2>3. job[p].op # "oversized" BY <2>1 DEF Control, OpAt
    <2>4. CASE npending = 0
      <3>1. pc'[p] = AfterFlush(job[p].op) /\ job'[p].back = "done"
        BY <1>1, <1>t, <2>4 DEF Seal, Goto, Job
      <3>2. ~Sealed(p)' BY <3>1 DEF Sealed, AfterFlush
      <3> QED BY <1>i, <2>1, <2>2, <2>3, <3>2 DEF SealKept
    <2>5. CASE npending # 0
      <3>1. /\ job'[p].first = head /\ job'[p].last = tail /\ job'[p].sealed = npending
            /\ top' = top + 1 /\ 1 <= head /\ head <= tail /\ tail = top
            /\ SealedDocs(p)' = PendingDocs
        BY <1>1, <2>5, SealTakesAll
      <3>2. /\ 1 <= job'[p].first /\ job'[p].first <= job'[p].last
            /\ job'[p].last < top' /\ head' = job'[p].first
            /\ job'[p].sealed = Cardinality(SealedDocs(p)')
        BY <1>t, <1>i, <2>1, <3>1 DEF PendingCounted
      <3> QED BY <1>i, <2>1, <2>2, <2>3, <3>2 DEF SealKept
    <2> QED BY <2>4, <2>5
  <1>2. ASSUME NEW p \in Procs, Publish(p) PROVE SealKept'
    <2>1. /\ pc[p] = "publish" /\ \A q \in Procs : q # p => pc'[q] = pc[q] /\ job'[q] = job[q]
          /\ pc'[p] = (IF job[p].op # "oversized" THEN "freepages" ELSE "tidy")
          /\ job'[p].op = job[p].op /\ job'[p].sealed = job[p].sealed
          /\ job'[p].last = job[p].last /\ page' = page /\ top' = top
      BY <1>2, <1>t DEF Publish, Goto, Job
    <2>2. ~Sealed(p)' BY <2>1 DEF Sealed
    <2>3. CASE job[p].op = "oversized"
      <3>1. head' = head BY <1>2, <2>3 DEF Publish
      <3>2. \A q \in Procs : q # p => SealedDocs(q)' = SealedDocs(q)
        BY <2>1 DEF SealedDocs, SealedPages
      <3>3. \A q \in Procs : q # p => (Sealed(q)' <=> Sealed(q)) BY <2>1 DEF Sealed
      <3> QED BY <1>i, <2>1, <2>2, <2>3, <3>1, <3>2, <3>3 DEF SealKept
    <2>4. CASE job[p].op # "oversized"
      <3>1. Sealed(p) /\ Maintaining(p) BY <2>1, <2>4 DEF Sealed, Maintaining
      <3>2. \A q \in Procs : q # p => ~Sealed(q)' /\ pc'[q] # "freepages"
        BY <1>x, <1>m, <2>1, <3>1 DEF Sealed
      <3>3. head' = 0 \/ head' = job[p].last + 1 BY <1>2, <2>4, StepPublishList
      <3>4. job[p].last < top /\ job[p].last \in Nat BY <1>i, <1>t, <3>1 DEF SealKept, Job
      <3>5. job[p].last < head' \/ head' = 0 BY <3>3, <3>4
      <3> QED BY <1>i, <2>1, <2>2, <2>4, <3>2, <3>4, <3>5 DEF SealKept
    <2> QED BY <2>3, <2>4
  <1>3. CASE Undisturbed
    <2>1. ASSUME NEW q \in Procs PROVE job'[q].op = "oversized" => job'[q].sealed = 0
      BY <1>3, <1>i DEF Undisturbed, SealKept
    <2>2. CASE UNCHANGED <<page, head, tail, npending, top>>
      <3>1. \A q \in Procs : Sealed(q)' => SealedDocs(q)' = SealedDocs(q)
        BY <1>3, <2>2 DEF Undisturbed, SealedDocs, SealedPages
      <3> QED BY <1>3, <1>i, <2>1, <2>2, <3>1 DEF Undisturbed, SealKept
    <2>3. ASSUME NEW p \in Procs, AppendPending(p) PROVE SealKept'
      <3>1. /\ head # 0 => head' = head
            /\ top <= top' /\ (head = 0 => head' = 0 \/ head' = top + 1)
            /\ \A k \in Pages : k < top => page'[k] = page[k]
        BY <2>3, StepAppend
      <3>2. top' \in Nat BY StepTypeInv DEF TypeInv, TypeOK
      <3>3. ASSUME NEW q \in Procs, Sealed(q)'
            PROVE  /\ 1 <= job'[q].first /\ job'[q].first <= job'[q].last
                   /\ job'[q].last < top' /\ head' = job'[q].first
                   /\ job'[q].sealed = Cardinality(SealedDocs(q)')
        <4>1. /\ job'[q].first = job[q].first /\ job'[q].last = job[q].last
              /\ job'[q].sealed = job[q].sealed /\ Sealed(q)
          BY <1>3, <3>3 DEF Undisturbed
        <4>2. /\ 1 <= job[q].first /\ job[q].first <= job[q].last /\ job[q].last < top
              /\ head = job[q].first /\ job[q].sealed = Cardinality(SealedDocs(q))
              /\ job[q].last \in Nat
          BY <1>i, <1>t, <4>1 DEF SealKept, Job
        <4>3. \A k \in SealedPages(q) : page'[k] = page[k]
          BY <1>t, <3>1, <4>2 DEF SealedPages, Pages
        <4>4. SealedPages(q)' = SealedPages(q) BY <4>1 DEF SealedPages
        <4>5. SealedDocs(q)' = SealedDocs(q) BY <4>3, <4>4 DEF SealedDocs
        <4> QED BY <1>t, <3>1, <3>2, <4>1, <4>2, <4>5
      <3>4. ASSUME NEW q \in Procs, pc'[q] = "freepages"
            PROVE  job'[q].last < top' /\ (head' = 0 \/ job'[q].last < head')
        <4>1. job'[q].last = job[q].last /\ job[q].last \in Nat /\ pc[q] = "freepages"
          BY <1>3, <1>t, <3>4 DEF Undisturbed, Job
        <4>2. job[q].last < top /\ (head = 0 \/ job[q].last < head)
          BY <1>i, <4>1 DEF SealKept
        <4> QED BY <1>t, <3>1, <3>2, <4>1, <4>2
      <3> QED BY <2>1, <3>3, <3>4 DEF SealKept
    <2>4. ASSUME NEW p \in Procs, FreePages(p) PROVE SealKept'
      <3>1. pc[p] = "freepages" /\ pc'[p] = "select" BY <1>t, <2>4 DEF FreePages, Goto
      <3>2. job'[p].back = "flushed" BY <1>t, <2>4 DEF FreePages, Job
      <3>3. ~Sealed(p)' BY <3>1, <3>2 DEF Sealed
      <3>4. \A q \in Procs : q # p => ~Sealed(q)' /\ pc'[q] # "freepages"
        BY <1>3, <1>x, <1>m, <3>1 DEF Undisturbed
      <3> QED BY <2>1, <3>1, <3>3, <3>4 DEF SealKept
    <2>5. ASSUME NEW p \in Procs, NEW d \in Docs, HeapInsert(p, d) PROVE SealKept'
      BY <2>2, <2>5 DEF HeapInsert, meta
    <2> QED BY <1>1, <1>2, <2>2, <2>3, <2>4, <2>5, StoresOrQuiet DEF Stores, OnList, Quiet
  <1> QED BY <1>1, <1>2, <1>3, SealedOrUndisturbed DEF SealsOrPublishes

-----------------------------------------------------------------------------
ListInv == SegmentsInv /\ PendingInv

LEMMA InitListInv == Init => ListInv
  <1> SUFFICES ASSUME Init PROVE ListInv OBVIOUS
  <1>1. ListShape /\ PagesBlank /\ OnePage /\ Filing
    BY DEF Init, ListShape, PagesBlank, OnePage, Filing
  <1>2. SealKept BY DEF Init, SealKept, Sealed, IdleJob
  <1>3. PendingCounted
    <2>1. PendingDocs = {} BY DEF Init, PendingDocs
    <2> QED BY <2>1, FS_EmptySet DEF Init, PendingCounted
  <1> QED BY <1>1, <1>2, <1>3, InitSegmentsInv DEF ListInv, PendingInv

LEMMA StepListInv == ListInv /\ [Next]_vars => ListInv'
  <1>1. ASSUME ListInv, UNCHANGED vars PROVE PendingInv'
    <2> USE <1>1 DEF ListInv, PendingInv, vars, meta
    <2>1. PendingDocs' = PendingDocs /\ \A p \in Procs : SealedDocs(p)' = SealedDocs(p)
      BY DEF PendingDocs, SealedDocs, SealedPages
    <2>2. ListShape' /\ PagesBlank' /\ OnePage' /\ Filing'
      BY DEF ListShape, PagesBlank, OnePage, Filing
    <2>3. SealKept' /\ PendingCounted' BY <2>1 DEF SealKept, Sealed, PendingCounted
    <2> QED BY <2>2, <2>3
  <1>2. ASSUME ListInv, Next PROVE PendingInv'
    BY <1>2, StepListed, StepSealKept DEF ListInv, SegmentsInv, PendingInv
  <1> QED BY <1>1, <1>2, StepSegmentsInv DEF ListInv

\* npending is the number of documents on the pending pages, whatever inserts
\* interleave with the seal and the publication of a flush (bm25_meta_add_segment
\* decides by it whether the tail page may be dropped).
THEOREM PendingIsCounted == Spec => []PendingCounted
  <1>1. ListInv => PendingCounted BY DEF ListInv, PendingInv
  <1> QED BY <1>1, InitListInv, StepListInv, PTL DEF Spec

\* From the seal to the publication no insert adds to the sealed pages, and no
\* one else takes them off the list (bm25_flush_pending).
THEOREM SealIsFrozen == Spec => []SealedFrozen
  <1>1. ListInv => SealedFrozen
    <2> SUFFICES ASSUME ListInv, NEW p \in Procs, pc[p] \in {"fold", "publish"},
                        job[p].sealed > 0
        PROVE  /\ head = job[p].first
               /\ Cardinality(UNION {page[k] : k \in SealedPages(p)}) = job[p].sealed
      BY DEF SealedFrozen
    <2>1. SealKept BY DEF ListInv, PendingInv
    <2>2. job[p].op # "oversized" BY <2>1 DEF SealKept
    <2>3. Sealed(p) BY <2>2 DEF Sealed
    <2> QED BY <2>1, <2>3 DEF SealKept, SealedDocs
  <1> QED BY <1>1, InitListInv, StepListInv, PTL DEF Spec

-----------------------------------------------------------------------------
(***************************************************************************)
(* What the segments hold, and what a step of the write side does to the   *)
(* set of documents a scan reports (FtsDirectory, for any documents,       *)
(* backends and bounds).                                                   *)
(***************************************************************************)

\* The descriptors a bulkdelete has read are still the directory's, for the
\* segments it has not come to yet.
SnapKept ==
    \A p \in Procs : pc[p] = "bulkseg" =>
        /\ job[p].next >= 1
        /\ \A i \in InSnapshot(p) :
              /\ pos[i] # 0 /\ pos[i] = job[p].snap[i].pos
              /\ pos[i] >= job[p].next => job[p].snap[i].dead = disk[i].dead

LEMMA StepSnapKept ==
    TypeInv /\ Exclusion /\ Control /\ Holdings /\ Apart /\ SnapKept /\ Next => SnapKept'
  <1> SUFFICES ASSUME TypeInv, Exclusion, Control, Holdings, Apart, SnapKept, Next
      PROVE SnapKept'
    OBVIOUS
  <1> USE NoneAssumption
  <1>t. /\ pc \in [Procs -> Points] /\ job \in [Procs -> Job]
        /\ pos \in [Segs -> Nat] /\ disk \in [Segs -> Segment] /\ OversizedWrites
    BY DEF TypeInv, TypeOK
  <1>x. \A p, q \in Procs : (Maintaining(p) /\ Maintaining(q)) => p = q BY DEF Exclusion
  <1>1. ASSUME NEW p \in Procs, NEW d \in Docs, HeapInsert(p, d) PROVE SnapKept'
    BY <1>1, <1>t DEF HeapInsert, SnapKept, InSnapshot, Goto, Job, meta
  <1>2. ASSUME NEW d \in Docs, Delete(d) PROVE SnapKept'
    BY <1>2, <1>t DEF Delete, SnapKept, InSnapshot, Goto, Job, meta
  <1>3. ASSUME NEW p \in Procs, Commit(p) PROVE SnapKept'
    BY <1>3, <1>t DEF Commit, SnapKept, InSnapshot, Goto, Job, meta, IdleJob
  <1>4. ASSUME NEW p \in Procs, Abort(p) PROVE SnapKept'
    BY <1>4, <1>t DEF Abort, SnapKept, InSnapshot, Goto, Job, meta, IdleJob
  <1>5. ASSUME NEW p \in Procs, AppendPending(p) PROVE SnapKept'
    BY <1>5, <1>t DEF AppendPending, SnapKept, InSnapshot, Goto, Job
  <1>6. ASSUME NEW p \in Procs, TryFlush(p) PROVE SnapKept'
    BY <1>6, <1>t DEF TryFlush, SnapKept, InSnapshot, Goto, Job, meta
  <1>7. ASSUME NEW p \in Procs, WriteOversized(p) PROVE SnapKept'
    BY <1>7, <1>t DEF WriteOversized, SnapKept, InSnapshot, Goto, Job, FreeSegs
  <1>8. ASSUME NEW p \in Procs, Tidy(p) PROVE SnapKept'
    BY <1>8, <1>t DEF Tidy, SnapKept, InSnapshot, Goto, Job, meta
  <1>9. ASSUME NEW p \in Procs, Publish(p) PROVE SnapKept'
    <2>1. job[p].out \in Segs /\ pos[job[p].out] = 0
      BY <1>9 DEF Publish, Goto, Holdings, OutAt, Adding, Apart, OutApart
    <2>2. /\ disk' = disk /\ \A i \in Segs : i # job[p].out => pos'[i] = pos[i]
          /\ \A q \in Procs : pc'[q] = "bulkseg" =>
                pc[q] = "bulkseg" /\ job'[q].snap = job[q].snap /\ job'[q].next = job[q].next
      BY <1>9, <1>t DEF Publish, Goto, Job
    <2> QED BY <2>1, <2>2 DEF SnapKept, InSnapshot
  <1>10. ASSUME NEW p \in Procs, MakeRoom(p) PROVE SnapKept'
    BY <1>10, <1>t DEF MakeRoom, SnapKept, InSnapshot, Goto, Job, meta
  <1>11. ASSUME NEW p \in Procs, MergeForRoom(p) PROVE SnapKept'
    BY <1>11, <1>t DEF MergeForRoom, SnapKept, InSnapshot, Goto, Job, meta
  <1>12. ASSUME NEW p \in Procs, Lock(p) PROVE SnapKept'
    BY <1>12, <1>t DEF Lock, SnapKept, InSnapshot, Goto, Job, meta
  <1>13. ASSUME NEW p \in Procs, Seal(p) PROVE SnapKept'
    BY <1>13, <1>t, SealLocals DEF SnapKept, InSnapshot
  <1>14. ASSUME NEW p \in Procs, Fold(p) PROVE SnapKept'
    BY <1>14, <1>t DEF Fold, SnapKept, InSnapshot, Goto, Job, FreeSegs
  <1>15. ASSUME NEW p \in Procs, FreePages(p) PROVE SnapKept'
    BY <1>15, <1>t DEF FreePages, SnapKept, InSnapshot, Goto, Job
  <1>16. ASSUME NEW p \in Procs, MergeSelect(p) PROVE SnapKept'
    BY <1>16, <1>t DEF MergeSelect, SnapKept, InSnapshot, Goto, Job, meta
  <1>17. ASSUME NEW p \in Procs, MergeStream(p) PROVE SnapKept'
    BY <1>17, <1>t DEF MergeStream, SnapKept, InSnapshot, Goto, Job, FreeSegs
  <1>18. ASSUME NEW p \in Procs, MergeSwap(p) PROVE SnapKept'
    <2>1. pc[p] = "swap" /\ \A q \in Procs : q # p => pc'[q] = pc[q]
      BY <1>18, <1>t DEF MergeSwap, Goto
    <2>2. pc'[p] # "bulkseg" BY <1>18, <1>t DEF MergeSwap, Goto
    <2>3. \A q \in Procs : pc'[q] # "bulkseg" BY <1>x, <2>1, <2>2 DEF Maintaining
    <2> QED BY <2>3 DEF SnapKept
  <1>19. ASSUME NEW p \in Procs, FreeInputs(p) PROVE SnapKept'
    <2>1. pc[p] = "freeinputs" /\ \A q \in Procs : q # p => pc'[q] = pc[q]
      BY <1>19, <1>t DEF FreeInputs, Goto
    <2>2. pc'[p] # "bulkseg" BY <1>19, <1>t DEF FreeInputs, Goto
    <2>3. \A q \in Procs : pc'[q] # "bulkseg" BY <1>x, <2>1, <2>2 DEF Maintaining
    <2> QED BY <2>3 DEF SnapKept
  <1>20. ASSUME NEW p \in Procs, MergeReturn(p) PROVE SnapKept'
    BY <1>20, <1>t DEF MergeReturn, SnapKept, InSnapshot, Goto, Job, meta, AfterFlush
  <1>21. ASSUME NEW p \in Procs, Unlock(p) PROVE SnapKept'
    BY <1>21, <1>t DEF Unlock, SnapKept, InSnapshot, Goto, Job, meta, IdleJob
  <1>22. ASSUME NEW p \in Procs, Vacuum(p) PROVE SnapKept'
    BY <1>22, <1>t DEF Vacuum, SnapKept, InSnapshot, Goto, Job, meta
  <1>23. ASSUME NEW p \in Procs, FtsMerge(p) PROVE SnapKept'
    BY <1>23, <1>t DEF FtsMerge, SnapKept, InSnapshot, Goto, Job, meta
  <1>24. ASSUME NEW p \in Procs, BulkSnapshot(p) PROVE SnapKept'
    <2>1. /\ pc[p] = "bulk" /\ job'[p].next = 1 /\ pos' = pos /\ disk' = disk
          /\ job'[p].snap = [i \in Segs |->
                 IF i \in Dir THEN [pos |-> pos[i], dead |-> disk[i].dead] ELSE None]
          /\ \A q \in Procs : q # p => pc'[q] = pc[q] /\ job'[q] = job[q]
      BY <1>24, <1>t DEF BulkSnapshot, Goto, Job, meta
    <2>2. \A q \in Procs : q # p => pc'[q] # "bulkseg"
      BY <1>x, <2>1 DEF Maintaining
    <2>3. ASSUME NEW i \in InSnapshot(p)'
          PROVE  /\ pos'[i] # 0 /\ pos'[i] = job'[p].snap[i].pos
                 /\ job'[p].snap[i].dead = disk'[i].dead
      BY <2>1 DEF InSnapshot, Dir
    <2>4. job'[p].next >= 1 BY <2>1
    <2> QED BY <2>1, <2>2, <2>3, <2>4 DEF SnapKept
  <1>25. ASSUME NEW p \in Procs, BulkSegment(p) PROVE SnapKept'
    <2> DEFINE j == job[p]
    <2>1. /\ pc' = pc /\ pc[p] = "bulkseg" /\ pos' = pos /\ j.next \in Nat
          /\ job' = [job EXCEPT ![p] = [j EXCEPT !.next = j.next + 1]]
      BY <1>25, <1>t DEF BulkSegment, Job
    <2>2. job'[p].next = j.next + 1 /\ job'[p].snap = j.snap BY <1>t, <2>1 DEF Job
    <2>3. \A q \in Procs : q # p => pc'[q] # "bulkseg" BY <1>x, <2>1 DEF Maintaining
    <2>4. \A k \in Segs : pos[k] # j.next => disk'[k] = disk[k]
      BY <1>25 DEF BulkSegment
    <2>5. \A k \in Segs : pos[k] >= j.next + 1 => disk'[k] = disk[k] /\ pos[k] >= j.next
      BY <1>t, <2>1, <2>4
    <2>6. \A k \in InSnapshot(p) : k \in Segs /\ pos[k] # 0 /\ pos[k] = j.snap[k].pos
      BY <2>1 DEF SnapKept, InSnapshot
    <2>7. \A k \in InSnapshot(p) : pos[k] >= j.next => j.snap[k].dead = disk[k].dead
      BY <2>1 DEF SnapKept
    <2>8. InSnapshot(p)' = InSnapshot(p) BY <2>2 DEF InSnapshot
    <2>9. \A k \in InSnapshot(p) : pos[k] >= j.next + 1 => j.snap[k].dead = disk'[k].dead
      BY <2>5, <2>6, <2>7
    <2>10. j.next + 1 >= 1 BY <2>1
    <2> HIDE DEF j
    <2> QED BY <2>1, <2>2, <2>3, <2>6, <2>8, <2>9, <2>10 DEF SnapKept
  <1>26. ASSUME NEW p \in Procs, BulkDone(p) PROVE SnapKept'
    BY <1>26, <1>t DEF BulkDone, SnapKept, InSnapshot, Goto, Job, meta
  <1>27. ASSUME NEW p \in Procs, Reclaim(p) PROVE SnapKept'
    BY <1>27, <1>t DEF Reclaim, SnapKept, InSnapshot, Goto, Job, meta
  <1> QED BY <1>1, <1>2, <1>3, <1>4, <1>5, <1>6, <1>7, <1>8, <1>9, <1>10, <1>11, <1>12, <1>13,
     <1>14, <1>15, <1>16, <1>17, <1>18, <1>19, <1>20, <1>21, <1>22, <1>23, <1>24, <1>25, <1>26,
     <1>27
       DEF Next, Work, Serve, Continue, Insert, Flush, AddSegment, Merge, BulkDelete, Refuse

-----------------------------------------------------------------------------
\* A step that does not write a segment leaves those in hand as they are.
OutSteady ==
    \A q \in Procs : Adding(q)' =>
        \/ WriteOversized(q) \/ Fold(q)
        \/ /\ Adding(q) /\ job'[q].out = job[q].out
           /\ job'[q].op = job[q].op /\ job'[q].doc = job[q].doc
           /\ disk'[job[q].out] = disk[job[q].out]
MoutSteady ==
    \A q \in Procs : pc'[q] = "swap" =>
        \/ MergeStream(q)
        \/ /\ pc[q] = "swap" /\ job'[q].mout = job[q].mout /\ job'[q].inp = job[q].inp
           /\ disk'[job[q].mout] = disk[job[q].mout]

\* Segments are published and swapped in one metapage update each, and changed
\* in the directory by bulkdelete alone.
DirSteady == pos' = pos /\ \A i \in Dir : disk'[i] = disk[i]
DirMoves == \E p \in Procs : Publish(p) \/ MergeSwap(p) \/ BulkSegment(p)

\* Where the segments in hand are.
LEMMA HandsOffDir ==
    ASSUME Holdings, Apart
    PROVE  /\ \A q \in Procs : Adding(q) =>
                 /\ job[q].out \in Segs /\ job[q].out \notin Dir
                 /\ \A p \in Procs : job[p].inp[job[q].out] = None
           /\ \A q \in Procs : pc[q] = "swap" =>
                 /\ job[q].mout \in Segs /\ job[q].mout \notin Dir
                 /\ \A p \in Procs : job[p].inp[job[q].mout] = None
  BY NoneAssumption DEF Holdings, OutAt, MoutAt, Apart, OutApart, MoutApart, Dir

LEMMA MovesOrSteady ==
    TypeInv /\ Apart /\ Next => (DirMoves \/ DirSteady)
  <1> SUFFICES ASSUME TypeInv, Apart, Next PROVE (DirMoves \/ DirSteady)
    OBVIOUS
  <1> USE NoneAssumption
  <1>t. /\ pc \in [Procs -> Points] /\ job \in [Procs -> Job]
        /\ pos \in [Segs -> Nat] /\ disk \in [Segs -> Segment] /\ OversizedWrites
    BY DEF TypeInv, TypeOK
  <1>1. ASSUME NEW p \in Procs, NEW d \in Docs, HeapInsert(p, d) PROVE (DirMoves \/ DirSteady)
    BY <1>1, <1>t DEF HeapInsert, DirSteady, Dir, Goto, Job, meta
  <1>2. ASSUME NEW d \in Docs, Delete(d) PROVE (DirMoves \/ DirSteady)
    BY <1>2, <1>t DEF Delete, DirSteady, Dir, Goto, Job, meta
  <1>3. ASSUME NEW p \in Procs, Commit(p) PROVE (DirMoves \/ DirSteady)
    BY <1>3, <1>t DEF Commit, DirSteady, Dir, Goto, Job, meta
  <1>4. ASSUME NEW p \in Procs, Abort(p) PROVE (DirMoves \/ DirSteady)
    BY <1>4, <1>t DEF Abort, DirSteady, Dir, Goto, Job, meta
  <1>5. ASSUME NEW p \in Procs, AppendPending(p) PROVE (DirMoves \/ DirSteady)
    BY <1>5, <1>t DEF AppendPending, DirSteady, Dir, Goto, Job
  <1>6. ASSUME NEW p \in Procs, TryFlush(p) PROVE (DirMoves \/ DirSteady)
    BY <1>6, <1>t DEF TryFlush, DirSteady, Dir, Goto, Job, meta
  <1>7. ASSUME NEW p \in Procs, WriteOversized(p) PROVE (DirMoves \/ DirSteady)
    BY <1>7, <1>t DEF WriteOversized, DirSteady, Dir, Goto, Job, FreeSegs
  <1>8. ASSUME NEW p \in Procs, Tidy(p) PROVE (DirMoves \/ DirSteady)
    BY <1>8, <1>t DEF Tidy, DirSteady, Dir, Goto, Job, meta
  <1>9. ASSUME NEW p \in Procs, Publish(p) PROVE (DirMoves \/ DirSteady)
    BY <1>9 DEF DirMoves
  <1>10. ASSUME NEW p \in Procs, MakeRoom(p) PROVE (DirMoves \/ DirSteady)
    BY <1>10, <1>t DEF MakeRoom, DirSteady, Dir, Goto, Job, meta
  <1>11. ASSUME NEW p \in Procs, MergeForRoom(p) PROVE (DirMoves \/ DirSteady)
    BY <1>11, <1>t DEF MergeForRoom, DirSteady, Dir, Goto, Job, meta
  <1>12. ASSUME NEW p \in Procs, Lock(p) PROVE (DirMoves \/ DirSteady)
    BY <1>12, <1>t DEF Lock, DirSteady, Dir, Goto, Job, meta
  <1>13. ASSUME NEW p \in Procs, Seal(p) PROVE (DirMoves \/ DirSteady)
    BY <1>13, SealLocals DEF DirSteady
  <1>14. ASSUME NEW p \in Procs, Fold(p) PROVE (DirMoves \/ DirSteady)
    BY <1>14, <1>t DEF Fold, DirSteady, Dir, Goto, Job, FreeSegs
  <1>15. ASSUME NEW p \in Procs, FreePages(p) PROVE (DirMoves \/ DirSteady)
    BY <1>15, <1>t DEF FreePages, DirSteady, Dir, Goto, Job
  <1>16. ASSUME NEW p \in Procs, MergeSelect(p) PROVE (DirMoves \/ DirSteady)
    BY <1>16, <1>t DEF MergeSelect, DirSteady, Dir, Goto, Job, meta
  <1>17. ASSUME NEW p \in Procs, MergeStream(p) PROVE (DirMoves \/ DirSteady)
    BY <1>17, <1>t DEF MergeStream, DirSteady, Dir, Goto, Job, FreeSegs
  <1>18. ASSUME NEW p \in Procs, MergeSwap(p) PROVE (DirMoves \/ DirSteady)
    BY <1>18 DEF DirMoves
  <1>19. ASSUME NEW p \in Procs, FreeInputs(p) PROVE (DirMoves \/ DirSteady)
    <2>1. \A i \in Dir : i \notin Inputs(p) /\ i \in Segs
      BY <1>19 DEF FreeInputs, Goto, Apart, InputsGone, Dir
    <2> QED BY <1>19, <2>1 DEF FreeInputs, DirSteady
  <1>20. ASSUME NEW p \in Procs, MergeReturn(p) PROVE (DirMoves \/ DirSteady)
    BY <1>20, <1>t DEF MergeReturn, DirSteady, Dir, Goto, Job, meta, AfterFlush
  <1>21. ASSUME NEW p \in Procs, Unlock(p) PROVE (DirMoves \/ DirSteady)
    BY <1>21 DEF Unlock, DirSteady, meta
  <1>22. ASSUME NEW p \in Procs, Vacuum(p) PROVE (DirMoves \/ DirSteady)
    BY <1>22, <1>t DEF Vacuum, DirSteady, Dir, Goto, Job, meta
  <1>23. ASSUME NEW p \in Procs, FtsMerge(p) PROVE (DirMoves \/ DirSteady)
    BY <1>23, <1>t DEF FtsMerge, DirSteady, Dir, Goto, Job, meta
  <1>24. ASSUME NEW p \in Procs, BulkSnapshot(p) PROVE (DirMoves \/ DirSteady)
    BY <1>24, <1>t DEF BulkSnapshot, DirSteady, Dir, Goto, Job, meta
  <1>25. ASSUME NEW p \in Procs, BulkSegment(p) PROVE (DirMoves \/ DirSteady)
    BY <1>25 DEF DirMoves
  <1>26. ASSUME NEW p \in Procs, BulkDone(p) PROVE (DirMoves \/ DirSteady)
    BY <1>26, <1>t DEF BulkDone, DirSteady, Dir, Goto, Job, meta
  <1>27. ASSUME NEW p \in Procs, Reclaim(p) PROVE (DirMoves \/ DirSteady)
    BY <1>27, <1>t DEF Reclaim, DirSteady, Dir, Goto, Job, meta
  <1> QED BY <1>1, <1>2, <1>3, <1>4, <1>5, <1>6, <1>7, <1>8, <1>9, <1>10, <1>11, <1>12, <1>13,
     <1>14, <1>15, <1>16, <1>17, <1>18, <1>19, <1>20, <1>21, <1>22, <1>23, <1>24, <1>25, <1>26,
     <1>27
       DEF Next, Work, Serve, Continue, Insert, Flush, AddSegment, Merge, BulkDelete, Refuse

LEMMA StepHands ==
    TypeInv /\ Control /\ Holdings /\ Apart /\ SnapKept /\ Next => (OutSteady /\ MoutSteady)
  <1> SUFFICES ASSUME TypeInv, Control, Holdings, Apart, SnapKept, Next
      PROVE (OutSteady /\ MoutSteady)
    OBVIOUS
  <1> USE NoneAssumption
  <1>t. /\ pc \in [Procs -> Points] /\ job \in [Procs -> Job]
        /\ pos \in [Segs -> Nat] /\ disk \in [Segs -> Segment] /\ OversizedWrites
    BY DEF TypeInv, TypeOK
  <1>h. /\ \A q \in Procs : Adding(q) =>
              /\ job[q].out \in Segs /\ job[q].out \notin Dir
              /\ \A p \in Procs : job[p].inp[job[q].out] = None
        /\ \A q \in Procs : pc[q] = "swap" =>
              /\ job[q].mout \in Segs /\ job[q].mout \notin Dir
              /\ \A p \in Procs : job[p].inp[job[q].mout] = None
    BY HandsOffDir
  <1>1. ASSUME NEW p \in Procs, NEW d \in Docs, HeapInsert(p, d) PROVE (OutSteady /\ MoutSteady)
    BY <1>1, <1>t DEF HeapInsert, OutSteady, MoutSteady, Adding, Merging, Goto, Job, meta
  <1>2. ASSUME NEW d \in Docs, Delete(d) PROVE (OutSteady /\ MoutSteady)
    BY <1>2, <1>t DEF Delete, OutSteady, MoutSteady, Adding, Merging, Goto, Job, meta
  <1>3. ASSUME NEW p \in Procs, Commit(p) PROVE (OutSteady /\ MoutSteady)
    BY <1>3, <1>t DEF Commit, OutSteady, MoutSteady, Adding, Merging, Goto, Job, meta, IdleJob
  <1>4. ASSUME NEW p \in Procs, Abort(p) PROVE (OutSteady /\ MoutSteady)
    BY <1>4, <1>t DEF Abort, OutSteady, MoutSteady, Adding, Merging, Goto, Job, meta, IdleJob
  <1>5. ASSUME NEW p \in Procs, AppendPending(p) PROVE (OutSteady /\ MoutSteady)
    BY <1>5, <1>t DEF AppendPending, OutSteady, MoutSteady, Adding, Merging, Goto, Job
  <1>6. ASSUME NEW p \in Procs, TryFlush(p) PROVE (OutSteady /\ MoutSteady)
    BY <1>6, <1>t DEF TryFlush, OutSteady, MoutSteady, Adding, Merging, Goto, Job, meta
  <1>7. ASSUME NEW p \in Procs, WriteOversized(p) PROVE (OutSteady /\ MoutSteady)
    <2>1. PICK i \in FreeSegs : \A k \in Segs : k # i => disk'[k] = disk[k]
      BY <1>7 DEF WriteOversized
    <2>2. \A q \in Procs : i # job[q].out /\ i # job[q].mout BY DEF FreeSegs
    <2>3. \A q \in Procs : q # p => pc'[q] = pc[q] /\ job'[q] = job[q]
      BY <1>7, <1>t DEF WriteOversized, Goto
    <2>5. pc'[p] = "publish" BY <1>7, <1>t DEF WriteOversized, Goto
    <2>8. \A q \in Procs : q # p => (Adding(q)' <=> Adding(q)) BY <2>3 DEF Adding, Merging
    <2> QED BY <1>7, <1>h, <2>1, <2>2, <2>3, <2>5, <2>8 DEF OutSteady, MoutSteady
  <1>8. ASSUME NEW p \in Procs, Tidy(p) PROVE (OutSteady /\ MoutSteady)
    BY <1>8, <1>t DEF Tidy, OutSteady, MoutSteady, Adding, Merging, Goto, Job, meta
  <1>9. ASSUME NEW p \in Procs, Publish(p) PROVE (OutSteady /\ MoutSteady)
    BY <1>9, <1>t DEF Publish, OutSteady, MoutSteady, Adding, Merging, Goto, Job
  <1>10. ASSUME NEW p \in Procs, MakeRoom(p) PROVE (OutSteady /\ MoutSteady)
    BY <1>10, <1>t DEF MakeRoom, OutSteady, MoutSteady, Adding, Merging, Goto, Job, meta
  <1>11. ASSUME NEW p \in Procs, MergeForRoom(p) PROVE (OutSteady /\ MoutSteady)
    BY <1>11, <1>t DEF MergeForRoom, OutSteady, MoutSteady, Adding, Merging, Goto, Job, meta
  <1>12. ASSUME NEW p \in Procs, Lock(p) PROVE (OutSteady /\ MoutSteady)
    BY <1>12, <1>t DEF Lock, OutSteady, MoutSteady, Adding, Merging, Goto, Job, meta
  <1>13. ASSUME NEW p \in Procs, Seal(p) PROVE (OutSteady /\ MoutSteady)
    <2>1. /\ pc'[p] \in {"fold", "tidy", "bulk", "select"}
          /\ \A q \in Procs : q # p => pc'[q] = pc[q] /\ job'[q] = job[q]
          /\ disk' = disk
      BY <1>13, <1>t, SealLocals
    <2>2. ~Adding(p)' /\ pc'[p] # "swap"
      <3>1. CASE npending = 0
        BY <1>13, <1>t, <2>1, <3>1 DEF Seal, Adding, Merging, Job
      <3>2. CASE npending # 0
        BY <1>13, <1>t, <3>2 DEF Seal, Goto, Adding, Merging
      <3> QED BY <3>1, <3>2
    <2> QED BY <2>1, <2>2 DEF OutSteady, MoutSteady, Adding, Merging
  <1>14. ASSUME NEW p \in Procs, Fold(p) PROVE (OutSteady /\ MoutSteady)
    <2>1. PICK i \in FreeSegs : \A k \in Segs : k # i => disk'[k] = disk[k]
      BY <1>14 DEF Fold
    <2>2. \A q \in Procs : i # job[q].out /\ i # job[q].mout BY DEF FreeSegs
    <2>3. \A q \in Procs : q # p => pc'[q] = pc[q] /\ job'[q] = job[q]
      BY <1>14, <1>t DEF Fold, Goto
    <2>5. pc'[p] = "publish" BY <1>14, <1>t DEF Fold, Goto
    <2>8. \A q \in Procs : q # p => (Adding(q)' <=> Adding(q)) BY <2>3 DEF Adding, Merging
    <2> QED BY <1>14, <1>h, <2>1, <2>2, <2>3, <2>5, <2>8 DEF OutSteady, MoutSteady
  <1>15. ASSUME NEW p \in Procs, FreePages(p) PROVE (OutSteady /\ MoutSteady)
    BY <1>15, <1>t DEF FreePages, OutSteady, MoutSteady, Adding, Merging, Goto, Job
  <1>16. ASSUME NEW p \in Procs, MergeSelect(p) PROVE (OutSteady /\ MoutSteady)
    BY <1>16, <1>t DEF MergeSelect, OutSteady, MoutSteady, Adding, Merging, Goto, Job, meta
  <1>17. ASSUME NEW p \in Procs, MergeStream(p) PROVE (OutSteady /\ MoutSteady)
    <2>1. PICK i \in FreeSegs : \A k \in Segs : k # i => disk'[k] = disk[k]
      BY <1>17 DEF MergeStream
    <2>2. \A q \in Procs : i # job[q].out /\ i # job[q].mout BY DEF FreeSegs
    <2>3. \A q \in Procs : q # p => pc'[q] = pc[q] /\ job'[q] = job[q]
      BY <1>17, <1>t DEF MergeStream, Goto
    <2>5. job'[p].out = job[p].out /\ job'[p].op = job[p].op /\ job'[p].doc = job[p].doc
          /\ job'[p].back = job[p].back
      BY <1>17, <1>t DEF MergeStream, Job
    <2>6. pc[p] = "stream" /\ pc'[p] = "swap" BY <1>17, <1>t DEF MergeStream, Goto
    <2>7. Adding(p)' => Adding(p) BY <2>5, <2>6 DEF Adding, Merging
    <2>8. \A q \in Procs : q # p => (Adding(q)' <=> Adding(q)) BY <2>3 DEF Adding, Merging
    <2> QED BY <1>17, <1>h, <2>1, <2>2, <2>3, <2>5, <2>7, <2>8 DEF OutSteady, MoutSteady
  <1>18. ASSUME NEW p \in Procs, MergeSwap(p) PROVE (OutSteady /\ MoutSteady)
    BY <1>18, <1>t DEF MergeSwap, OutSteady, MoutSteady, Adding, Merging, Goto, Job
  <1>19. ASSUME NEW p \in Procs, FreeInputs(p) PROVE (OutSteady /\ MoutSteady)
    <2>1. /\ \A k \in Segs : k \notin Inputs(p) => disk'[k] = disk[k]
          /\ pc[p] = "freeinputs" /\ pc'[p] = "select"
          /\ \A q \in Procs : q # p => pc'[q] = pc[q] /\ job'[q] = job[q]
          /\ job'[p].out = job[p].out /\ job'[p].op = job[p].op /\ job'[p].doc = job[p].doc
          /\ job'[p].back = job[p].back
      BY <1>19, <1>t DEF FreeInputs, Goto, Job
    <2>2. \A q \in Procs : Adding(q)' <=> Adding(q) BY <2>1 DEF Adding, Merging
    <2>3. \A q \in Procs : Adding(q) => disk'[job[q].out] = disk[job[q].out]
      BY <1>h, <2>1 DEF Inputs
    <2>4. \A q \in Procs : pc[q] = "swap" => disk'[job[q].mout] = disk[job[q].mout]
      BY <1>h, <2>1 DEF Inputs
    <2> QED BY <2>1, <2>2, <2>3, <2>4 DEF OutSteady, MoutSteady
  <1>20. ASSUME NEW p \in Procs, MergeReturn(p) PROVE (OutSteady /\ MoutSteady)
    BY <1>20, <1>t DEF MergeReturn, OutSteady, MoutSteady, Adding, Merging, Goto, Job, meta,
       AfterFlush
  <1>21. ASSUME NEW p \in Procs, Unlock(p) PROVE (OutSteady /\ MoutSteady)
    BY <1>21, <1>t DEF Unlock, OutSteady, MoutSteady, Adding, Merging, Goto, Job, meta, IdleJob
  <1>22. ASSUME NEW p \in Procs, Vacuum(p) PROVE (OutSteady /\ MoutSteady)
    BY <1>22, <1>t DEF Vacuum, OutSteady, MoutSteady, Adding, Merging, Goto, Job, meta
  <1>23. ASSUME NEW p \in Procs, FtsMerge(p) PROVE (OutSteady /\ MoutSteady)
    BY <1>23, <1>t DEF FtsMerge, OutSteady, MoutSteady, Adding, Merging, Goto, Job, meta
  <1>24. ASSUME NEW p \in Procs, BulkSnapshot(p) PROVE (OutSteady /\ MoutSteady)
    BY <1>24, <1>t DEF BulkSnapshot, OutSteady, MoutSteady, Adding, Merging, Goto, Job, meta
  <1>25. ASSUME NEW p \in Procs, BulkSegment(p) PROVE (OutSteady /\ MoutSteady)
    <2>1. job[p].next >= 1 /\ job[p].next \in Nat
      BY <1>25, <1>t DEF BulkSegment, SnapKept, Job
    <2>2. \A k \in Segs : k \notin Dir => disk'[k] = disk[k]
      BY <1>25, <1>t, <2>1 DEF BulkSegment, Dir
    <2>3. pc' = pc /\ \A q \in Procs : /\ job'[q].out = job[q].out /\ job'[q].mout = job[q].mout
                                      /\ job'[q].op = job[q].op /\ job'[q].doc = job[q].doc
                                      /\ job'[q].inp = job[q].inp /\ job'[q].back = job[q].back
      BY <1>25, <1>t DEF BulkSegment, Job
    <2>4. \A q \in Procs : Adding(q)' <=> Adding(q) BY <2>3 DEF Adding, Merging
    <2> QED BY <1>h, <2>2, <2>3, <2>4 DEF OutSteady, MoutSteady
  <1>26. ASSUME NEW p \in Procs, BulkDone(p) PROVE (OutSteady /\ MoutSteady)
    BY <1>26, <1>t DEF BulkDone, OutSteady, MoutSteady, Adding, Merging, Goto, Job, meta
  <1>27. ASSUME NEW p \in Procs, Reclaim(p) PROVE (OutSteady /\ MoutSteady)
    BY <1>27, <1>t DEF Reclaim, OutSteady, MoutSteady, Adding, Merging, Goto, Job, meta
  <1> QED BY <1>1, <1>2, <1>3, <1>4, <1>5, <1>6, <1>7, <1>8, <1>9, <1>10, <1>11, <1>12, <1>13,
     <1>14, <1>15, <1>16, <1>17, <1>18, <1>19, <1>20, <1>21, <1>22, <1>23, <1>24, <1>25, <1>26,
     <1>27
       DEF Next, Work, Serve, Continue, Insert, Flush, AddSegment, Merge, BulkDelete, Refuse

-----------------------------------------------------------------------------
\* What was sealed stays what it was until the flush publishes it.
LEMMA SealedDocsKept ==
    ASSUME TypeInv, Exclusion, Control, Owners, PendingInv, Next,
           NEW q \in Procs, Sealed(q), Sealed(q)'
    PROVE  SealedDocs(q)' = SealedDocs(q)
  <1>t. /\ pc \in [Procs -> Points] /\ job \in [Procs -> Job]
        /\ page \in [Pages -> SUBSET Docs] /\ top \in 0 .. MaxPage /\ MaxPage \in Nat
    BY PendingTypes
  <1>m. Maintaining(q) BY DEF Sealed, Maintaining
  <1>x. \A p \in Procs : Maintaining(p) => p = q BY <1>m DEF Exclusion
  <1>1. ASSUME page' = page, job'[q].first = job[q].first, job'[q].last = job[q].last
        PROVE  SealedDocs(q)' = SealedDocs(q)
    BY <1>1 DEF SealedDocs, SealedPages
  <1>2. ASSUME NEW p \in Procs, Seal(p) PROVE FALSE
    <2>1. pc[p] = "seal" BY <1>2, SealLocals
    <2> QED BY <1>x, <2>1 DEF Maintaining, Sealed
  <1>3. ASSUME NEW p \in Procs, Publish(p) PROVE SealedDocs(q)' = SealedDocs(q)
    BY <1>1, <1>3, <1>t DEF Publish, Goto, Job
  <1>4. CASE Undisturbed
    <2>1. job'[q].first = job[q].first /\ job'[q].last = job[q].last BY <1>4 DEF Undisturbed
    <2>2. ASSUME NEW p \in Procs, FreePages(p) PROVE FALSE
      <3>1. pc[p] = "freepages" BY <2>2 DEF FreePages, Goto
      <3> QED BY <1>x, <3>1 DEF Maintaining, Sealed
    <2>3. ASSUME NEW p \in Procs, AppendPending(p) PROVE SealedDocs(q)' = SealedDocs(q)
      <3>1. \A k \in Pages : k < top => page'[k] = page[k] BY <2>3, StepAppend
      <3>2. job[q].last < top /\ job[q].last \in Nat BY <1>t DEF PendingInv, SealKept, Job
      <3>3. \A k \in SealedPages(q) : page'[k] = page[k]
        BY <1>t, <3>1, <3>2 DEF SealedPages, Pages
      <3>4. SealedPages(q)' = SealedPages(q) BY <2>1 DEF SealedPages
      <3> QED BY <3>3, <3>4 DEF SealedDocs
    <2>4. ASSUME NEW p \in Procs, NEW d \in Docs, HeapInsert(p, d) PROVE page' = page
      BY <2>4 DEF HeapInsert, meta
    <2> QED BY <1>1, <1>2, <1>3, <2>1, <2>2, <2>3, <2>4, StoresOrQuiet
            DEF Stores, OnList, Quiet
  <1> QED BY <1>2, <1>3, <1>4, SealedOrUndisturbed DEF SealsOrPublishes

\* A segment about to be published holds what its operation is to store: the
\* one document of an oversized insert, or the sealed pages.
Meant(p) == IF job[p].op = "oversized" THEN {job[p].doc} ELSE SealedDocs(p) \ Blank
OutHolds ==
    \A p \in Procs : Adding(p) => disk[job[p].out] = [docs |-> Meant(p), dead |-> {}]

\* A merge's output holds the live documents of its inputs.
MergedDocs(p) == UNION {LiveDocs(job[p].inp[i]) : i \in Inputs(p)}
MoutHolds ==
    \A p \in Procs : pc[p] = "swap" =>
        disk[job[p].mout] = [docs |-> MergedDocs(p), dead |-> {}]

ContentsInv == SnapKept /\ OutHolds /\ MoutHolds

LEMMA StepOutHolds ==
    TypeInv /\ Exclusion /\ Control /\ Owners /\ Holdings /\ Apart /\ PendingInv
        /\ ContentsInv /\ Next => OutHolds'
  <1> SUFFICES ASSUME TypeInv, Exclusion, Control, Owners, Holdings, Apart, PendingInv,
                      ContentsInv, Next, NEW q \in Procs, Adding(q)'
      PROVE disk'[job'[q].out] = [docs |-> Meant(q)', dead |-> {}]
    BY DEF OutHolds
  <1>t. /\ pc \in [Procs -> Points] /\ job \in [Procs -> Job]
        /\ pos \in [Segs -> Nat] /\ disk \in [Segs -> Segment] /\ OversizedWrites
    BY DEF TypeInv, TypeOK
  <1>1. CASE WriteOversized(q)
    <2>1. PICK i \in FreeSegs : /\ disk' = [disk EXCEPT ![i] = [docs |-> {job[q].doc}, dead |-> {}]]
                                /\ job' = [job EXCEPT ![q].out = i]
      BY <1>1 DEF WriteOversized
    <2>2. i \in Segs BY DEF FreeSegs
    <2>3. job'[q].out = i /\ job'[q].doc = job[q].doc /\ job'[q].op = job[q].op
      BY <1>t, <2>1 DEF Job
    <2>4. job[q].op = "oversized" BY <1>1, <1>t DEF WriteOversized, Goto, OversizedWrites
    <2>5. disk'[i] = [docs |-> {job[q].doc}, dead |-> {}] BY <1>t, <2>1, <2>2
    <2> QED BY <2>3, <2>4, <2>5 DEF Meant
  <1>2. CASE Fold(q)
    <2>1. PICK i \in FreeSegs :
             /\ disk' = [disk EXCEPT ![i] =
                   [docs |-> (UNION {page[k] : k \in SealedPages(q)}) \ Blank, dead |-> {}]]
             /\ job' = [job EXCEPT ![q].out = i]
      BY <1>2 DEF Fold
    <2>2. i \in Segs BY DEF FreeSegs
    <2>3. /\ job'[q].out = i /\ job'[q].first = job[q].first /\ job'[q].last = job[q].last
          /\ job'[q].op = job[q].op /\ page' = page
      BY <1>2, <1>t, <2>1 DEF Job, Fold
    <2>4. job[q].op # "oversized" BY <1>2 DEF Fold, Goto, Control, OpAt
    <2>5. disk'[i] = [docs |-> SealedDocs(q) \ Blank, dead |-> {}]
      BY <1>t, <2>1, <2>2 DEF SealedDocs
    <2>6. SealedDocs(q)' = SealedDocs(q) BY <2>3 DEF SealedDocs, SealedPages
    <2> QED BY <2>3, <2>4, <2>5, <2>6 DEF Meant
  <1>3. CASE /\ Adding(q) /\ job'[q].out = job[q].out
             /\ job'[q].op = job[q].op /\ job'[q].doc = job[q].doc
             /\ disk'[job[q].out] = disk[job[q].out]
    <2>1. disk[job[q].out] = [docs |-> Meant(q), dead |-> {}]
      BY <1>3 DEF ContentsInv, OutHolds
    <2>2. CASE job[q].op = "oversized" BY <1>3, <2>1, <2>2 DEF Meant
    <2>3. CASE job[q].op # "oversized"
      <3>1. Sealed(q) /\ Sealed(q)' BY <1>3, <2>3 DEF Adding, Merging, Sealed
      <3>2. SealedDocs(q)' = SealedDocs(q) BY <3>1, SealedDocsKept
      <3> QED BY <1>3, <2>1, <2>3, <3>2 DEF Meant
    <2> QED BY <2>2, <2>3
  <1>4. OutSteady BY StepHands DEF ContentsInv
  <1> QED BY <1>1, <1>2, <1>3, <1>4 DEF OutSteady

LEMMA StepMoutHolds ==
    TypeInv /\ Control /\ Holdings /\ Apart /\ InputsKept /\ ContentsInv /\ Next => MoutHolds'
  <1> SUFFICES ASSUME TypeInv, Control, Holdings, Apart, InputsKept, ContentsInv, Next,
                      NEW q \in Procs, pc'[q] = "swap"
      PROVE disk'[job'[q].mout] = [docs |-> MergedDocs(q)', dead |-> {}]
    BY DEF MoutHolds
  <1>t. /\ pc \in [Procs -> Points] /\ job \in [Procs -> Job]
        /\ pos \in [Segs -> Nat] /\ disk \in [Segs -> Segment] /\ OversizedWrites
    BY DEF TypeInv, TypeOK
  <1>1. CASE MergeStream(q)
    <2>1. PICK i \in FreeSegs :
             /\ disk' = [disk EXCEPT ![i] =
                   [docs |-> UNION {Carried(q, k) : k \in Inputs(q)}, dead |-> {}]]
             /\ job' = [job EXCEPT ![q].mout = i]
      BY <1>1 DEF MergeStream
    <2>2. i \in Segs BY DEF FreeSegs
    <2>3. job'[q].mout = i /\ job'[q].inp = job[q].inp BY <1>t, <2>1 DEF Job
    <2>4. pc[q] = "stream" BY <1>1 DEF MergeStream, Goto
    <2>5. \A k \in Inputs(q) : disk[k] = job[q].inp[k] BY <2>4 DEF InputsKept, AllFound
    <2>6. \A k \in Inputs(q) : Carried(q, k) = LiveDocs(job[q].inp[k])
      BY <2>5 DEF Carried, LiveDocs
    <2>7. disk'[i] = [docs |-> UNION {Carried(q, k) : k \in Inputs(q)}, dead |-> {}]
      BY <1>t, <2>1, <2>2
    <2>8. UNION {Carried(q, k) : k \in Inputs(q)} = MergedDocs(q) BY <2>6 DEF MergedDocs
    <2>9. MergedDocs(q)' = MergedDocs(q) BY <2>3 DEF MergedDocs, Inputs, LiveDocs
    <2> QED BY <2>3, <2>7, <2>8, <2>9
  <1>2. CASE /\ pc[q] = "swap" /\ job'[q].mout = job[q].mout /\ job'[q].inp = job[q].inp
             /\ disk'[job[q].mout] = disk[job[q].mout]
    <2>1. MergedDocs(q)' = MergedDocs(q) BY <1>2 DEF MergedDocs, Inputs, LiveDocs
    <2> QED BY <1>2, <2>1 DEF ContentsInv, MoutHolds
  <1>3. MoutSteady BY StepHands DEF ContentsInv
  <1> QED BY <1>1, <1>2, <1>3 DEF MoutSteady

-----------------------------------------------------------------------------
(* What a step does to the documents a scan reports. *)

SegDocs == UNION {LiveDocs(disk[i]) : i \in Dir}

LEMMA InIndexed ==
    ASSUME NEW d
    PROVE  d \in Indexed <=> d \in Docs \ Blank /\ (d \in PendingDocs \/ d \in SegDocs)
  <1>1. d \in SegDocs <=> \E i \in Dir : d \in LiveDocs(disk[i]) BY DEF SegDocs
  <1>2. PlacesOf(d) # {} <=>
           \/ \E k \in Pages : head # 0 /\ k >= head /\ d \in page[k]
           \/ \E i \in Dir : d \in LiveDocs(disk[i])
    BY DEF PlacesOf
  <1> QED BY <1>1, <1>2, InPending DEF Indexed

\* The same, of the next state.
LEMMA InIndexedNext ==
    ASSUME NEW d
    PROVE  d \in Indexed' <=> d \in Docs \ Blank /\ (d \in PendingDocs' \/ d \in SegDocs')
  <1>1. d \in SegDocs' <=> \E i \in Dir' : d \in LiveDocs(disk[i])' BY DEF SegDocs
  <1>2. PlacesOf(d)' # {} <=>
           \/ \E k \in Pages : head' # 0 /\ k >= head' /\ d \in page'[k]
           \/ \E i \in Dir' : d \in LiveDocs(disk[i])'
    BY DEF PlacesOf
  <1>3. d \in PendingDocs' <=> \E k \in Pages : head' # 0 /\ k >= head' /\ d \in page'[k]
    BY DEF PendingDocs
  <1> QED BY <1>1, <1>2, <1>3 DEF Indexed

\* Publishing adds a segment to the directory ...
LEMMA PublishDir ==
    ASSUME TypeInv, Holdings, Apart, ContentsInv, NEW p \in Procs, Publish(p)
    PROVE  LET o == job[p].out
           IN  /\ o \in Segs /\ o \notin Dir /\ Dir' = Dir \cup {o}
               /\ LiveDocs(disk[o]) = Meant(p) /\ disk[o].docs = Meant(p)
               /\ disk' = disk /\ \A i \in Dir : pos'[i] = pos[i]
  <1> DEFINE o == job[p].out
  <1>1. Adding(p) BY DEF Publish, Goto, Adding
  <1>2. o \in Segs /\ o \notin Dir BY <1>1, HandsOffDir
  <1>3. pos \in [Segs -> Nat] BY DEF TypeInv, TypeOK
  <1>4. NSegs \in Nat BY <1>3, NSegsType
  <1>5. pos' = [pos EXCEPT ![o] = NSegs + 1] /\ disk' = disk BY DEF Publish
  <1>6. Dir' = Dir \cup {o} /\ \A i \in Dir : pos'[i] = pos[i]
    BY <1>2, <1>3, <1>4, <1>5 DEF Dir
  <1>7. disk[o] = [docs |-> Meant(p), dead |-> {}] BY <1>1 DEF ContentsInv, OutHolds
  <1>8. LiveDocs(disk[o]) = Meant(p) BY <1>7 DEF LiveDocs
  <1> QED BY <1>2, <1>5, <1>6, <1>7, <1>8

\* ... and what it holds to the index.
LEMMA PublishSegDocs ==
    ASSUME TypeInv, Holdings, Apart, ContentsInv, NEW p \in Procs, Publish(p)
    PROVE  SegDocs' = SegDocs \cup Meant(p)
  <1> DEFINE o == job[p].out
  <1>1. Dir' = Dir \cup {o} /\ LiveDocs(disk[o]) = Meant(p) /\ disk' = disk BY PublishDir
  <1>2. \A i \in Dir' : LiveDocs(disk[i])' = LiveDocs(disk[i]) BY <1>1 DEF LiveDocs
  <1> QED BY <1>1, <1>2 DEF SegDocs

\* A swap reports from the output what it no longer reports from the inputs.
LEMMA SwapSegDocs ==
    ASSUME TypeInv, Holdings, Apart, InputsKept, ContentsInv, NEW p \in Procs, MergeSwap(p)
    PROVE  SegDocs' = SegDocs
  <1> DEFINE kept == Dir \ Inputs(p)
  <1> DEFINE m == job[p].mout
  <1>1. Dir' = kept \cup {m} BY SwapDir
  <1>2. pc[p] = "swap" /\ disk' = disk BY DEF MergeSwap, Goto
  <1>3. Inputs(p) \subseteq Dir /\ \A i \in Inputs(p) : disk[i] = job[p].inp[i]
    BY <1>2 DEF InputsKept, AllFound, Inputs, Dir
  <1>4. LiveDocs(disk[m]) = MergedDocs(p)
    <2>1. disk[m] = [docs |-> MergedDocs(p), dead |-> {}] BY <1>2 DEF ContentsInv, MoutHolds
    <2> QED BY <2>1 DEF LiveDocs
  <1>5. \A i \in Inputs(p) : LiveDocs(disk[i]) = LiveDocs(job[p].inp[i]) BY <1>3
  <1>6. \A i \in Dir' : LiveDocs(disk[i])' = LiveDocs(disk[i]) BY <1>2 DEF LiveDocs
  <1>7. ASSUME NEW d PROVE d \in MergedDocs(p) <=> \E i \in Inputs(p) : d \in LiveDocs(disk[i])
    BY <1>5 DEF MergedDocs
  <1>8. ASSUME NEW d PROVE d \in SegDocs' <=> \E i \in kept \cup {m} : d \in LiveDocs(disk[i])
    BY <1>1, <1>6 DEF SegDocs
  <1>9. ASSUME NEW d PROVE d \in SegDocs <=> \E i \in Dir : d \in LiveDocs(disk[i])
    BY DEF SegDocs
  <1>10. ASSUME NEW d PROVE d \in SegDocs' <=> d \in SegDocs
    BY <1>3, <1>4, <1>7, <1>8, <1>9
  <1> QED BY <1>10

\* Bulkdelete takes nothing but vacuumed documents out of the segments, and
\* every one of the segment it has come to.
LEMMA BulkSegDocs ==
    ASSUME TypeInv, Dense, ContentsInv, NEW p \in Procs, BulkSegment(p)
    PROVE  /\ Dir' = Dir
           /\ \A k \in Dir : LiveDocs(disk[k])' =
                 IF pos[k] = job[p].next
                 THEN {d \in LiveDocs(disk[k]) : TidOf[d] \notin job[p].vac}
                 ELSE LiveDocs(disk[k])
  <1> DEFINE j == job[p]
  <1>1. pc[p] = "bulkseg" /\ pos' = pos BY DEF BulkSegment
  <1>2. Dir' = Dir BY <1>1 DEF Dir
  <1>3. PICK i \in InSnapshot(p) :
           /\ j.snap[i].pos = j.next
           /\ disk' = [k \in Segs |->
                 IF disk[i].docs # {} /\ pos[k] = j.next
                 THEN [disk[k] EXCEPT !.dead = Tombstones(p, i)] ELSE disk[k]]
    BY DEF BulkSegment
  <1>4. pos[i] = j.next /\ j.snap[i].dead = disk[i].dead /\ i \in Dir
    <2>1. pos[i] # 0 /\ pos[i] = j.snap[i].pos /\ i \in Segs
      BY <1>1 DEF ContentsInv, SnapKept, InSnapshot
    <2>2. pos[i] \in Nat BY <2>1 DEF TypeInv, TypeOK
    <2>3. pos[i] >= j.next BY <1>3, <2>1, <2>2
    <2>4. j.snap[i].dead = disk[i].dead BY <1>1, <2>3 DEF ContentsInv, SnapKept
    <2> QED BY <1>3, <2>1, <2>4 DEF Dir
  <1>5. ASSUME NEW k \in Dir, pos[k] = j.next
        PROVE  LiveDocs(disk[k])' = {d \in LiveDocs(disk[k]) : TidOf[d] \notin j.vac}
    <2>1. k = i BY <1>4, <1>5 DEF Dense
    <2>2. k \in Segs /\ disk[k] \in Segment BY DEF Dir, TypeInv, TypeOK
    <2>3. CASE disk[k].docs = {} BY <1>3, <2>1, <2>2, <2>3 DEF LiveDocs
    <2>4. CASE disk[k].docs # {}
      <3>1. disk'[k] = [disk[k] EXCEPT !.dead = disk[k].dead \cup (TidsOf(disk[k].docs) \cap j.vac)]
        BY <1>3, <1>4, <1>5, <2>1, <2>2, <2>4 DEF Tombstones
      <3>2. /\ disk'[k].docs = disk[k].docs
            /\ disk'[k].dead = disk[k].dead \cup (TidsOf(disk[k].docs) \cap j.vac)
        BY <2>2, <3>1 DEF Segment
      <3>3. \A d \in disk[k].docs : TidOf[d] \in TidsOf(disk[k].docs) BY DEF TidsOf
      <3> QED BY <3>2, <3>3 DEF LiveDocs
    <2> QED BY <2>3, <2>4
  <1>6. ASSUME NEW k \in Dir, pos[k] # j.next PROVE LiveDocs(disk[k])' = LiveDocs(disk[k])
    <2>1. disk'[k] = disk[k] BY <1>3, <1>6 DEF Dir
    <2> QED BY <2>1 DEF LiveDocs
  <1> QED BY <1>2, <1>5, <1>6

\* A document enters the index by its own insert, and leaves it by a
\* bulkdelete that was told it is dead.
Enters(p) ==
    /\ AppendPending(p) \/ (Publish(p) /\ job[p].op = "oversized")
    /\ Indexed' = Indexed \cup ({job[p].doc} \ Blank)
Leaves(p) ==
    /\ BulkSegment(p)
    /\ Indexed' \subseteq Indexed
    /\ \A d \in Indexed \ Indexed' : TidOf[d] \in job[p].vac

WriteInv == ListInv /\ ContentsInv

LEMMA PendingMoves ==
    WriteInv /\ Next =>
        (\E p \in Procs : AppendPending(p) \/ Publish(p)) \/ PendingDocs' = PendingDocs
  <1> SUFFICES ASSUME WriteInv, Next, ~\E p \in Procs : AppendPending(p) \/ Publish(p)
      PROVE PendingDocs' = PendingDocs
    OBVIOUS
  <1> USE DEF WriteInv, ListInv, SegmentsInv
  <1>1. CASE Quiet BY <1>1 DEF Quiet, PendingDocs
  <1>2. ASSUME NEW p \in Procs, NEW d \in Docs, HeapInsert(p, d)
        PROVE PendingDocs' = PendingDocs
    BY <1>2 DEF HeapInsert, meta, PendingDocs
  <1> QED BY <1>1, <1>2, StoresOrQuiet, StepSeal, StepFree DEF Stores, OnList

LEMMA StepIndexed ==
    WriteInv /\ Next =>
        (\E p \in Procs : Enters(p) \/ Leaves(p)) \/ Indexed' = Indexed
  <1> SUFFICES ASSUME WriteInv, Next
      PROVE (\E p \in Procs : Enters(p) \/ Leaves(p)) \/ Indexed' = Indexed
    OBVIOUS
  <1> USE DEF WriteInv, ListInv, SegmentsInv
  <1>s. ASSUME PendingDocs' = PendingDocs, SegDocs' = SegDocs PROVE Indexed' = Indexed
    BY <1>s, InIndexed, InIndexedNext
  <1>d. DirSteady => SegDocs' = SegDocs
    <2> SUFFICES ASSUME DirSteady PROVE SegDocs' = SegDocs OBVIOUS
    <2>1. Dir' = Dir /\ \A i \in Dir : LiveDocs(disk[i])' = LiveDocs(disk[i])
      BY DEF DirSteady, Dir, LiveDocs
    <2> QED BY <2>1 DEF SegDocs
  <1>1. ASSUME NEW p \in Procs, AppendPending(p) PROVE Enters(p)
    <2>1. PendingDocs' = PendingDocs \cup {job[p].doc} BY <1>1, StepAppend
    <2>2. SegDocs' = SegDocs BY <1>1, <1>d DEF AppendPending, DirSteady
    <2>3. job[p].doc \in Docs BY <1>1 DEF AppendPending, Goto, TypeInv, DocKnown
    <2>4. Indexed' = Indexed \cup ({job[p].doc} \ Blank)
      BY <2>1, <2>2, <2>3, InIndexed, InIndexedNext
    <2> QED BY <1>1, <2>4 DEF Enters
  <1>2. ASSUME NEW p \in Procs, Publish(p) PROVE Enters(p) \/ Indexed' = Indexed
    <2>1. SegDocs' = SegDocs \cup Meant(p) BY <1>2, PublishSegDocs
    <2>2. CASE job[p].op = "oversized"
      <3>1. PendingDocs' = PendingDocs BY <1>2, <2>2, StepPublishList
      <3>2. job[p].doc \in Docs /\ Meant(p) = {job[p].doc}
        BY <2>2 DEF Owners, DocOwned, Storing, Meant
      <3>3. Indexed' = Indexed \cup ({job[p].doc} \ Blank)
        BY <2>1, <3>1, <3>2, InIndexed, InIndexedNext
      <3> QED BY <1>2, <2>2, <3>3 DEF Enters
    <2>3. CASE job[p].op # "oversized"
      <3>1. PendingDocs = SealedDocs(p) \cup PendingDocs' BY <1>2, <2>3, StepPublishList
      <3>2. Meant(p) = SealedDocs(p) \ Blank BY <2>3 DEF Meant
      <3> QED BY <2>1, <3>1, <3>2, InIndexed, InIndexedNext
    <2> QED BY <2>2, <2>3
  <1>3. ASSUME NEW p \in Procs, BulkSegment(p) PROVE Leaves(p)
    <2>1. UNCHANGED <<page, head>> BY <1>3 DEF BulkSegment
    <2>2. PendingDocs' = PendingDocs BY <2>1 DEF PendingDocs
    <2>3. /\ Dir' = Dir
          /\ \A k \in Dir : LiveDocs(disk[k])' =
                IF pos[k] = job[p].next
                THEN {d \in LiveDocs(disk[k]) : TidOf[d] \notin job[p].vac}
                ELSE LiveDocs(disk[k])
      BY <1>3, BulkSegDocs
    <2>4. SegDocs' \subseteq SegDocs /\ \A d \in SegDocs \ SegDocs' : TidOf[d] \in job[p].vac
      <3>1. ASSUME NEW d PROVE d \in SegDocs <=> \E k \in Dir : d \in LiveDocs(disk[k])
        BY DEF SegDocs
      <3>2. ASSUME NEW d PROVE d \in SegDocs' <=> \E k \in Dir : d \in LiveDocs(disk[k])'
        BY <2>3 DEF SegDocs
      <3>3. \A k \in Dir : /\ LiveDocs(disk[k])' \subseteq LiveDocs(disk[k])
                           /\ \A d \in LiveDocs(disk[k]) :
                                 d \in LiveDocs(disk[k])' \/ TidOf[d] \in job[p].vac
        BY <2>3
      <3> QED BY <3>1, <3>2, <3>3
    <2>5. Indexed' \subseteq Indexed BY <2>2, <2>4, InIndexed, InIndexedNext
    <2>6. ASSUME NEW d \in Indexed \ Indexed' PROVE TidOf[d] \in job[p].vac
      BY <2>2, <2>4, InIndexed, InIndexedNext
    <2> QED BY <1>3, <2>5, <2>6 DEF Leaves
  <1>4. ASSUME NEW p \in Procs, MergeSwap(p) PROVE Indexed' = Indexed
    <2>1. UNCHANGED <<page, head>> BY <1>4 DEF MergeSwap
    <2>2. PendingDocs' = PendingDocs BY <2>1 DEF PendingDocs
    <2> QED BY <1>4, <1>s, <2>2, SwapSegDocs
  <1>5. CASE DirSteady /\ ~\E p \in Procs : AppendPending(p) \/ Publish(p)
    <2>1. PendingDocs' = PendingDocs BY <1>5, PendingMoves
    <2> QED BY <1>5, <1>d, <1>s, <2>1
  <1> QED BY <1>1, <1>2, <1>3, <1>4, <1>5, MovesOrSteady DEF DirMoves

LEMMA InitWriteInv == Init => WriteInv
  BY InitListInv DEF Init, IdleJob, WriteInv, ContentsInv, SnapKept, OutHolds, MoutHolds,
     Adding, Merging

LEMMA StepWriteInv == WriteInv /\ [Next]_vars => WriteInv'
  <1>1. ASSUME WriteInv, UNCHANGED vars PROVE ContentsInv'
    <2> USE <1>1 DEF WriteInv, ContentsInv, vars, meta
    <2>1. SnapKept' BY DEF SnapKept, InSnapshot
    <2>2. \A p \in Procs : (Adding(p)' <=> Adding(p)) /\ Meant(p)' = Meant(p)
                          /\ MergedDocs(p)' = MergedDocs(p)
      BY DEF Adding, Merging, Meant, SealedDocs, SealedPages, MergedDocs, Inputs, LiveDocs
    <2> QED BY <2>1, <2>2 DEF OutHolds, MoutHolds
  <1>2. ASSUME WriteInv, Next PROVE ContentsInv'
    <2> USE <1>2 DEF WriteInv, ListInv, SegmentsInv
    <2>1. SnapKept' BY StepSnapKept DEF ContentsInv
    <2>2. OutHolds' BY StepOutHolds
    <2>3. MoutHolds' BY StepMoutHolds
    <2> QED BY <2>1, <2>2, <2>3 DEF ContentsInv
  <1> QED BY <1>1, <1>2, StepListInv DEF WriteInv

-----------------------------------------------------------------------------
(***************************************************************************)
(* What a scan reports: nothing committed is lost, nothing reclaimed is    *)
(* reported, nothing taken out comes back, and the write side implements   *)
(* FtsStore (FtsDirectory, for any documents, backends and bounds).        *)
(***************************************************************************)

Present(d) == heap[d] \in {"inserting", "live", "dead"}

\* A slot holds one tuple at a time.
SlotOnce == \A d, e \in Docs : TidOf[d] = TidOf[e] /\ Present(d) /\ Present(e) => d = e

\* One VACUUM per table, and a bulkdelete's merges are its flush's.
OneVacuum ==
    \A p, q \in Procs : job[p].op \in {"bulkdelete", "cleanup"}
                           /\ job[q].op \in {"bulkdelete", "cleanup"} => p = q
BulkOps ==
    \A p \in Procs :
        /\ job[p].op # "bulkdelete" => job[p].vac = {}
        /\ job[p].op = "bulkdelete" /\ Merging(p) => job[p].back \in {"publish", "flushed"}

\* Until it has reclaimed them, the slots a VACUUM collected hold dead tuples.
VacDead ==
    \A p \in Procs : \A t \in job[p].vac : \E e \in Docs : TidOf[e] = t /\ heap[e] = "dead"

HeapInv == SlotOnce /\ OneVacuum /\ BulkOps /\ VacDead

\* An insert has put its document into the index.
Filed(p) ==
    /\ Storing(p) /\ pc[p] \notin {"append", "write"}
    /\ job[p].op = "oversized" => ~Adding(p)

LEMMA StepOneVacuum ==
    TypeInv /\ Control /\ OneVacuum /\ Next => OneVacuum'
  <1> SUFFICES ASSUME TypeInv, Control, OneVacuum, Next PROVE OneVacuum'
    OBVIOUS
  <1> USE NoneAssumption
  <1>t. pc \in [Procs -> Points] /\ job \in [Procs -> Job] /\ OversizedWrites
    BY DEF TypeInv, TypeOK
  <1>1. ASSUME NEW p \in Procs, NEW d \in Docs, HeapInsert(p, d) PROVE OneVacuum'
    BY <1>1, <1>t DEF HeapInsert, OneVacuum, Goto, Job, meta, Control, IdleClean, IdleJob
  <1>2. ASSUME NEW d \in Docs, Delete(d) PROVE OneVacuum'
    BY <1>2, <1>t DEF Delete, OneVacuum, Goto, Job, meta
  <1>3. ASSUME NEW p \in Procs, Commit(p) PROVE OneVacuum'
    BY <1>3, <1>t DEF Commit, OneVacuum, Goto, Job, meta, IdleJob
  <1>4. ASSUME NEW p \in Procs, Abort(p) PROVE OneVacuum'
    BY <1>4, <1>t DEF Abort, OneVacuum, Goto, Job, meta, IdleJob
  <1>5. ASSUME NEW p \in Procs, AppendPending(p) PROVE OneVacuum'
    BY <1>5, <1>t DEF AppendPending, OneVacuum, Goto, Job
  <1>6. ASSUME NEW p \in Procs, TryFlush(p) PROVE OneVacuum'
    BY <1>6, <1>t DEF TryFlush, OneVacuum, Goto, Job, meta
  <1>7. ASSUME NEW p \in Procs, WriteOversized(p) PROVE OneVacuum'
    BY <1>7, <1>t DEF WriteOversized, OneVacuum, Goto, Job
  <1>8. ASSUME NEW p \in Procs, Tidy(p) PROVE OneVacuum'
    BY <1>8, <1>t DEF Tidy, OneVacuum, Goto, Job, meta
  <1>9. ASSUME NEW p \in Procs, Publish(p) PROVE OneVacuum'
    BY <1>9, <1>t DEF Publish, OneVacuum, Goto, Job
  <1>10. ASSUME NEW p \in Procs, MakeRoom(p) PROVE OneVacuum'
    BY <1>10, <1>t DEF MakeRoom, OneVacuum, Goto, Job, meta
  <1>11. ASSUME NEW p \in Procs, MergeForRoom(p) PROVE OneVacuum'
    BY <1>11, <1>t DEF MergeForRoom, OneVacuum, Goto, Job, meta
  <1>12. ASSUME NEW p \in Procs, Lock(p) PROVE OneVacuum'
    BY <1>12, <1>t DEF Lock, OneVacuum, Goto, Job, meta
  <1>13. ASSUME NEW p \in Procs, Seal(p) PROVE OneVacuum'
    BY <1>13, <1>t, SealLocals DEF OneVacuum
  <1>14. ASSUME NEW p \in Procs, Fold(p) PROVE OneVacuum'
    BY <1>14, <1>t DEF Fold, OneVacuum, Goto, Job
  <1>15. ASSUME NEW p \in Procs, FreePages(p) PROVE OneVacuum'
    BY <1>15, <1>t DEF FreePages, OneVacuum, Goto, Job
  <1>16. ASSUME NEW p \in Procs, MergeSelect(p) PROVE OneVacuum'
    BY <1>16, <1>t DEF MergeSelect, OneVacuum, Goto, Job, meta
  <1>17. ASSUME NEW p \in Procs, MergeStream(p) PROVE OneVacuum'
    BY <1>17, <1>t DEF MergeStream, OneVacuum, Goto, Job
  <1>18. ASSUME NEW p \in Procs, MergeSwap(p) PROVE OneVacuum'
    BY <1>18, <1>t DEF MergeSwap, OneVacuum, Goto, Job
  <1>19. ASSUME NEW p \in Procs, FreeInputs(p) PROVE OneVacuum'
    BY <1>19, <1>t DEF FreeInputs, OneVacuum, Goto, Job
  <1>20. ASSUME NEW p \in Procs, MergeReturn(p) PROVE OneVacuum'
    BY <1>20, <1>t DEF MergeReturn, OneVacuum, Goto, Job, meta, AfterFlush
  <1>21. ASSUME NEW p \in Procs, Unlock(p) PROVE OneVacuum'
    BY <1>21, <1>t DEF Unlock, OneVacuum, Goto, Job, meta, IdleJob
  <1>22. ASSUME NEW p \in Procs, Vacuum(p) PROVE OneVacuum'
    BY <1>22, <1>t DEF Vacuum, OneVacuum, Goto, Job, meta, Control, IdleClean, IdleJob
  <1>23. ASSUME NEW p \in Procs, FtsMerge(p) PROVE OneVacuum'
    BY <1>23, <1>t DEF FtsMerge, OneVacuum, Goto, Job, meta, Control, IdleClean, IdleJob
  <1>24. ASSUME NEW p \in Procs, BulkSnapshot(p) PROVE OneVacuum'
    BY <1>24, <1>t DEF BulkSnapshot, OneVacuum, Goto, Job, meta
  <1>25. ASSUME NEW p \in Procs, BulkSegment(p) PROVE OneVacuum'
    BY <1>25, <1>t DEF BulkSegment, OneVacuum, Goto, Job
  <1>26. ASSUME NEW p \in Procs, BulkDone(p) PROVE OneVacuum'
    BY <1>26, <1>t DEF BulkDone, OneVacuum, Goto, Job, meta
  <1>27. ASSUME NEW p \in Procs, Reclaim(p) PROVE OneVacuum'
    BY <1>27, <1>t DEF Reclaim, OneVacuum, Goto, Job, meta, Control, OpAt
  <1> QED BY <1>1, <1>2, <1>3, <1>4, <1>5, <1>6, <1>7, <1>8, <1>9, <1>10, <1>11, <1>12, <1>13,
     <1>14, <1>15, <1>16, <1>17, <1>18, <1>19, <1>20, <1>21, <1>22, <1>23, <1>24, <1>25, <1>26,
     <1>27
       DEF Next, Work, Serve, Continue, Insert, Flush, AddSegment, Merge, BulkDelete, Refuse

LEMMA StepBulkOps ==
    TypeInv /\ Control /\ BulkOps /\ Next => BulkOps'
  <1> SUFFICES ASSUME TypeInv, Control, BulkOps, Next PROVE BulkOps'
    OBVIOUS
  <1> USE NoneAssumption
  <1>t. pc \in [Procs -> Points] /\ job \in [Procs -> Job] /\ OversizedWrites
    BY DEF TypeInv, TypeOK
  <1>1. ASSUME NEW p \in Procs, NEW d \in Docs, HeapInsert(p, d) PROVE BulkOps'
    BY <1>1, <1>t DEF HeapInsert, BulkOps, Merging, Goto, Job, meta, Control, IdleClean,
       IdleJob
  <1>2. ASSUME NEW d \in Docs, Delete(d) PROVE BulkOps'
    BY <1>2, <1>t DEF Delete, BulkOps, Merging, Goto, Job, meta
  <1>3. ASSUME NEW p \in Procs, Commit(p) PROVE BulkOps'
    BY <1>3, <1>t DEF Commit, BulkOps, Merging, Goto, Job, meta, IdleJob
  <1>4. ASSUME NEW p \in Procs, Abort(p) PROVE BulkOps'
    BY <1>4, <1>t DEF Abort, BulkOps, Merging, Goto, Job, meta, IdleJob
  <1>5. ASSUME NEW p \in Procs, AppendPending(p) PROVE BulkOps'
    BY <1>5, <1>t DEF AppendPending, BulkOps, Merging, Goto, Job
  <1>6. ASSUME NEW p \in Procs, TryFlush(p) PROVE BulkOps'
    BY <1>6, <1>t DEF TryFlush, BulkOps, Merging, Goto, Job, meta
  <1>7. ASSUME NEW p \in Procs, WriteOversized(p) PROVE BulkOps'
    BY <1>7, <1>t DEF WriteOversized, BulkOps, Merging, Goto, Job
  <1>8. ASSUME NEW p \in Procs, Tidy(p) PROVE BulkOps'
    BY <1>8, <1>t DEF Tidy, BulkOps, Merging, Goto, Job, meta, Control, OpAt, Storing
  <1>9. ASSUME NEW p \in Procs, Publish(p) PROVE BulkOps'
    BY <1>9, <1>t DEF Publish, BulkOps, Merging, Goto, Job
  <1>10. ASSUME NEW p \in Procs, MakeRoom(p) PROVE BulkOps'
    BY <1>10, <1>t DEF MakeRoom, BulkOps, Merging, Goto, Job, meta
  <1>11. ASSUME NEW p \in Procs, MergeForRoom(p) PROVE BulkOps'
    BY <1>11, <1>t DEF MergeForRoom, BulkOps, Merging, Goto, Job, meta
  <1>12. ASSUME NEW p \in Procs, Lock(p) PROVE BulkOps'
    BY <1>12, <1>t DEF Lock, BulkOps, Merging, Goto, Job, meta
  <1>13. ASSUME NEW p \in Procs, Seal(p) PROVE BulkOps'
    <2>1. /\ pc[p] = "seal" /\ \A q \in Procs : q # p => pc'[q] = pc[q] /\ job'[q] = job[q]
          /\ job'[p].op = job[p].op /\ job'[p].vac = job[p].vac
      BY <1>13, <1>t, SealLocals
    <2>2. job[p].op = "bulkdelete" => pc'[p] \in {"bulk", "fold"}
      BY <1>13, <1>t DEF Seal, Goto, AfterFlush
    <2> QED BY <2>1, <2>2 DEF BulkOps, Merging
  <1>14. ASSUME NEW p \in Procs, Fold(p) PROVE BulkOps'
    BY <1>14, <1>t DEF Fold, BulkOps, Merging, Goto, Job
  <1>15. ASSUME NEW p \in Procs, FreePages(p) PROVE BulkOps'
    BY <1>15, <1>t DEF FreePages, BulkOps, Merging, Goto, Job
  <1>16. ASSUME NEW p \in Procs, MergeSelect(p) PROVE BulkOps'
    BY <1>16, <1>t DEF MergeSelect, BulkOps, Merging, Goto, Job, meta
  <1>17. ASSUME NEW p \in Procs, MergeStream(p) PROVE BulkOps'
    BY <1>17, <1>t DEF MergeStream, BulkOps, Merging, Goto, Job
  <1>18. ASSUME NEW p \in Procs, MergeSwap(p) PROVE BulkOps'
    BY <1>18, <1>t DEF MergeSwap, BulkOps, Merging, Goto, Job
  <1>19. ASSUME NEW p \in Procs, FreeInputs(p) PROVE BulkOps'
    BY <1>19, <1>t DEF FreeInputs, BulkOps, Merging, Goto, Job
  <1>20. ASSUME NEW p \in Procs, MergeReturn(p) PROVE BulkOps'
    BY <1>20, <1>t DEF MergeReturn, BulkOps, Merging, Goto, Job, meta, AfterFlush
  <1>21. ASSUME NEW p \in Procs, Unlock(p) PROVE BulkOps'
    BY <1>21, <1>t DEF Unlock, BulkOps, Merging, Goto, Job, meta, IdleJob
  <1>22. ASSUME NEW p \in Procs, Vacuum(p) PROVE BulkOps'
    BY <1>22, <1>t DEF Vacuum, BulkOps, Merging, Goto, Job, meta, Control, IdleClean, IdleJob
  <1>23. ASSUME NEW p \in Procs, FtsMerge(p) PROVE BulkOps'
    BY <1>23, <1>t DEF FtsMerge, BulkOps, Merging, Goto, Job, meta, Control, IdleClean, IdleJob
  <1>24. ASSUME NEW p \in Procs, BulkSnapshot(p) PROVE BulkOps'
    BY <1>24, <1>t DEF BulkSnapshot, BulkOps, Merging, Goto, Job, meta
  <1>25. ASSUME NEW p \in Procs, BulkSegment(p) PROVE BulkOps'
    BY <1>25, <1>t DEF BulkSegment, BulkOps, Merging, Goto, Job
  <1>26. ASSUME NEW p \in Procs, BulkDone(p) PROVE BulkOps'
    BY <1>26, <1>t DEF BulkDone, BulkOps, Merging, Goto, Job, meta
  <1>27. ASSUME NEW p \in Procs, Reclaim(p) PROVE BulkOps'
    BY <1>27, <1>t DEF Reclaim, BulkOps, Merging, Goto, Job, meta
  <1> QED BY <1>1, <1>2, <1>3, <1>4, <1>5, <1>6, <1>7, <1>8, <1>9, <1>10, <1>11, <1>12, <1>13,
     <1>14, <1>15, <1>16, <1>17, <1>18, <1>19, <1>20, <1>21, <1>22, <1>23, <1>24, <1>25, <1>26,
     <1>27
       DEF Next, Work, Serve, Continue, Insert, Flush, AddSegment, Merge, BulkDelete, Refuse

-----------------------------------------------------------------------------
\* The heap changes in five ways.
HeapMoves ==
    \/ \E p \in Procs : Commit(p) \/ Abort(p) \/ Reclaim(p) \/ \E d \in Docs : HeapInsert(p, d)
    \/ \E d \in Docs : Delete(d)

LEMMA HeapMovesOrNot == Next => HeapMoves \/ heap' = heap
  <1> SUFFICES ASSUME Next PROVE HeapMoves \/ heap' = heap OBVIOUS
  <1>1. ASSUME NEW p \in Procs, NEW d \in Docs, HeapInsert(p, d) PROVE HeapMoves
    BY <1>1 DEF HeapMoves
  <1>2. ASSUME NEW d \in Docs, Delete(d) PROVE HeapMoves BY <1>2 DEF HeapMoves
  <1>3. ASSUME NEW p \in Procs, Commit(p) \/ Abort(p) \/ Reclaim(p) PROVE HeapMoves
    BY <1>3 DEF HeapMoves
  <1>4. ASSUME NEW p \in Procs,
               AppendPending(p) \/ TryFlush(p) \/ WriteOversized(p) \/ Tidy(p)
        PROVE  heap' = heap
    BY <1>4 DEF AppendPending, TryFlush, WriteOversized, Tidy
  <1>5. ASSUME NEW p \in Procs,
               Lock(p) \/ Seal(p) \/ Fold(p) \/ FreePages(p)
        PROVE  heap' = heap
    BY <1>5 DEF Lock, Seal, Fold, FreePages
  <1>6. ASSUME NEW p \in Procs,
               Publish(p) \/ MakeRoom(p) \/ MergeForRoom(p)
        PROVE  heap' = heap
    BY <1>6 DEF Publish, MakeRoom, MergeForRoom
  <1>7. ASSUME NEW p \in Procs,
               MergeSelect(p) \/ MergeStream(p) \/ MergeSwap(p) \/ FreeInputs(p) \/ MergeReturn(p)
        PROVE  heap' = heap
    BY <1>7 DEF MergeSelect, MergeStream, MergeSwap, FreeInputs, MergeReturn
  <1>8. ASSUME NEW p \in Procs,
               BulkSnapshot(p) \/ BulkSegment(p) \/ BulkDone(p)
        PROVE  heap' = heap
    BY <1>8 DEF BulkSnapshot, BulkSegment, BulkDone
  <1>9. ASSUME NEW p \in Procs,
               Unlock(p) \/ Vacuum(p) \/ FtsMerge(p)
        PROVE  heap' = heap
    BY <1>9 DEF Unlock, Vacuum, FtsMerge
  <1> QED BY <1>1, <1>2, <1>3, <1>4, <1>5, <1>6, <1>7, <1>8, <1>9
       DEF Next, Work, Serve, Continue, Insert, Flush, AddSegment, Merge, BulkDelete, Refuse

\* How each of them changes a document's tuple.
Inserts(d) == /\ heap[d] = "absent" /\ SlotFree(d) /\ heap' = [heap EXCEPT ![d] = "inserting"]
Commits(d) == /\ heap[d] = "inserting" /\ heap' = [heap EXCEPT ![d] = "live"]
              /\ \E p \in Procs : Commit(p) /\ job[p].doc = d
Kills(d) == heap[d] \in {"inserting", "live"} /\ heap' = [heap EXCEPT ![d] = "dead"]
Reclaims(p) ==
    /\ Reclaim(p)
    /\ heap' = [d \in Docs |-> IF heap[d] = "dead" /\ TidOf[d] \in job[p].vac
                               THEN "gone" ELSE heap[d]]

LEMMA HeapChange ==
    TypeInv /\ Owners /\ Control /\ Next =>
        \/ heap' = heap
        \/ \E d \in Docs : Inserts(d) \/ Commits(d) \/ Kills(d)
        \/ \E p \in Procs : Reclaims(p)
  <1> SUFFICES ASSUME TypeInv, Owners, Control, HeapMoves
      PROVE  \/ heap' = heap
             \/ \E d \in Docs : Inserts(d) \/ Commits(d) \/ Kills(d)
             \/ \E p \in Procs : Reclaims(p)
    BY HeapMovesOrNot
  <1>t. heap \in [Docs -> {"absent", "inserting", "live", "dead", "gone"}]
    BY DEF TypeInv, TypeOK
  <1>1. ASSUME NEW p \in Procs, NEW d \in Docs, HeapInsert(p, d) PROVE Inserts(d)
    BY <1>1 DEF HeapInsert, Inserts
  <1>2. ASSUME NEW p \in Procs, Commit(p) PROVE \E d \in Docs : Commits(d)
    <2>1. pc[p] = "commit" /\ heap' = [heap EXCEPT ![job[p].doc] = "live"]
      BY <1>2 DEF Commit, Goto
    <2>2. job[p].doc \in Docs /\ heap[job[p].doc] = "inserting"
      BY <2>1 DEF Control, OpAt, Owners, DocOwned
    <2> QED BY <1>2, <2>1, <2>2 DEF Commits
  <1>3. ASSUME NEW p \in Procs, Abort(p) PROVE heap' = heap \/ \E d \in Docs : Kills(d)
    <2>1. heap' = [d \in Docs |-> IF d = job[p].doc THEN "dead" ELSE heap[d]] BY <1>3 DEF Abort
    <2>2. CASE job[p].doc \notin Docs BY <1>t, <2>1, <2>2
    <2>3. CASE job[p].doc \in Docs
      <3>1. heap[job[p].doc] = "inserting"
        BY <2>3, NoneAssumption DEF Owners, DocOwned
      <3>2. heap' = [heap EXCEPT ![job[p].doc] = "dead"] BY <1>t, <2>1, <2>3
      <3> QED BY <2>3, <3>1, <3>2 DEF Kills
    <2> QED BY <2>2, <2>3
  <1>4. ASSUME NEW d \in Docs, Delete(d) PROVE Kills(d) BY <1>4 DEF Delete, Kills
  <1>5. ASSUME NEW p \in Procs, Reclaim(p) PROVE Reclaims(p) BY <1>5 DEF Reclaim, Reclaims
  <1> QED BY <1>1, <1>2, <1>3, <1>4, <1>5 DEF HeapMoves

LEMMA StepSlotOnce ==
    TypeInv /\ Owners /\ Control /\ SlotOnce /\ Next => SlotOnce'
  <1> SUFFICES ASSUME TypeInv, Owners, Control, SlotOnce, Next PROVE SlotOnce'
    OBVIOUS
  <1>t. heap \in [Docs -> {"absent", "inserting", "live", "dead", "gone"}]
    BY DEF TypeInv, TypeOK
  <1>1. ASSUME NEW d \in Docs, Inserts(d) PROVE SlotOnce'
    <2>1. \A e \in Docs : TidOf[e] = TidOf[d] => ~Present(e)
      BY <1>1 DEF Inserts, SlotFree, Present
    <2>2. \A e \in Docs : e # d => (Present(e)' <=> Present(e))
      BY <1>1, <1>t DEF Inserts, Present
    <2> QED BY <2>1, <2>2 DEF SlotOnce
  <1>2. ASSUME \A d \in Docs : Present(d)' => Present(d) PROVE SlotOnce'
    BY <1>2 DEF SlotOnce
  <1>3. ASSUME NEW d \in Docs, Commits(d) \/ Kills(d) PROVE SlotOnce'
    <2>1. \A e \in Docs : Present(e)' => Present(e)
      BY <1>3, <1>t DEF Commits, Kills, Present
    <2> QED BY <1>2, <2>1
  <1>4. ASSUME NEW p \in Procs, Reclaims(p) PROVE SlotOnce'
    <2>1. \A e \in Docs : Present(e)' => Present(e) BY <1>4, <1>t DEF Reclaims, Present
    <2> QED BY <1>2, <2>1
  <1>5. CASE heap' = heap BY <1>2, <1>5 DEF Present
  <1> QED BY <1>1, <1>3, <1>4, <1>5, HeapChange

-----------------------------------------------------------------------------
\* How far a VACUUM is with the slots it collected.
VacSteady ==
    \A p \in Procs : job'[p].vac # {} =>
        \/ Vacuum(p)
        \/ /\ job'[p].vac = job[p].vac
           /\ job[p].op = "bulkdelete" /\ job'[p].op = "bulkdelete"
           /\ pc'[p] \notin {"lock", "seal"} => Seal(p) \/ pc[p] \notin {"lock", "seal"}
           /\ Sealed(p) => Sealed(p)' \/ Publish(p)
           /\ pc'[p] = "bulkseg" =>
                 \/ BulkSnapshot(p) \/ BulkSegment(p)
                 \/ /\ pc[p] = "bulkseg" /\ job'[p].next = job[p].next
                    /\ job'[p].snap = job[p].snap
           /\ pc'[p] \in {"unlock", "reclaim"} =>
                 BulkDone(p) \/ pc[p] \in {"unlock", "reclaim"}

LEMMA StepVacSteady ==
    TypeInv /\ Control /\ BulkOps /\ Next => VacSteady
  <1> SUFFICES ASSUME TypeInv, Control, BulkOps, Next PROVE VacSteady
    OBVIOUS
  <1> USE NoneAssumption
  <1>t. pc \in [Procs -> Points] /\ job \in [Procs -> Job] /\ OversizedWrites
    BY DEF TypeInv, TypeOK
  <1>1. ASSUME NEW p \in Procs, NEW d \in Docs, HeapInsert(p, d) PROVE VacSteady
    BY <1>1, <1>t DEF HeapInsert, VacSteady, Sealed, BulkOps, Goto, Job, meta, Control,
       IdleClean, IdleJob
  <1>2. ASSUME NEW d \in Docs, Delete(d) PROVE VacSteady
    BY <1>2, <1>t DEF Delete, VacSteady, Sealed, BulkOps, Goto, Job, meta
  <1>3. ASSUME NEW p \in Procs, Commit(p) PROVE VacSteady
    BY <1>3, <1>t DEF Commit, VacSteady, Sealed, BulkOps, Goto, Job, meta, IdleJob
  <1>4. ASSUME NEW p \in Procs, Abort(p) PROVE VacSteady
    BY <1>4, <1>t DEF Abort, VacSteady, Sealed, BulkOps, Goto, Job, meta, IdleJob
  <1>5. ASSUME NEW p \in Procs, AppendPending(p) PROVE VacSteady
    BY <1>5, <1>t DEF AppendPending, VacSteady, Sealed, BulkOps, Goto, Job
  <1>6. ASSUME NEW p \in Procs, TryFlush(p) PROVE VacSteady
    BY <1>6, <1>t DEF TryFlush, VacSteady, Sealed, BulkOps, Goto, Job, meta
  <1>7. ASSUME NEW p \in Procs, WriteOversized(p) PROVE VacSteady
    BY <1>7, <1>t DEF WriteOversized, VacSteady, Sealed, BulkOps, Goto, Job, OversizedWrites
  <1>8. ASSUME NEW p \in Procs, Tidy(p) PROVE VacSteady
    BY <1>8, <1>t DEF Tidy, VacSteady, Sealed, BulkOps, Goto, Job, meta, Control, OpAt, Storing
  <1>9. ASSUME NEW p \in Procs, Publish(p) PROVE VacSteady
    <2>1. /\ \A q \in Procs : q # p => pc'[q] = pc[q] /\ job'[q] = job[q]
          /\ pc[p] = "publish" /\ pc'[p] \in {"freepages", "tidy"}
          /\ job'[p].op = job[p].op /\ job'[p].vac = job[p].vac
      BY <1>9, <1>t DEF Publish, Goto, Job
    <2>3. \A q \in Procs : q # p => (Sealed(q)' <=> Sealed(q)) BY <2>1 DEF Sealed
    <2>4. \A q \in Procs : job[q].op # "bulkdelete" => job[q].vac = {} BY DEF BulkOps
    <2> QED BY <1>9, <2>1, <2>3, <2>4 DEF VacSteady
  <1>10. ASSUME NEW p \in Procs, MakeRoom(p) PROVE VacSteady
    BY <1>10, <1>t DEF MakeRoom, VacSteady, Sealed, BulkOps, Goto, Job, meta
  <1>11. ASSUME NEW p \in Procs, MergeForRoom(p) PROVE VacSteady
    BY <1>11, <1>t DEF MergeForRoom, VacSteady, Sealed, BulkOps, Goto, Job, meta
  <1>12. ASSUME NEW p \in Procs, Lock(p) PROVE VacSteady
    BY <1>12, <1>t DEF Lock, VacSteady, Sealed, BulkOps, Goto, Job, meta
  <1>13. ASSUME NEW p \in Procs, Seal(p) PROVE VacSteady
    <2>1. /\ \A q \in Procs : q # p => pc'[q] = pc[q] /\ job'[q] = job[q]
          /\ pc[p] = "seal" /\ pc'[p] \in {"fold", "tidy", "bulk", "select"}
          /\ job'[p].op = job[p].op /\ job'[p].vac = job[p].vac
      BY <1>13, <1>t, SealLocals
    <2>2. ~Sealed(p) BY <2>1 DEF Sealed
    <2>3. \A q \in Procs : q # p => (Sealed(q)' <=> Sealed(q)) BY <2>1 DEF Sealed
    <2>4. \A q \in Procs : job[q].op # "bulkdelete" => job[q].vac = {} BY DEF BulkOps
    <2> QED BY <1>13, <2>1, <2>2, <2>3, <2>4 DEF VacSteady
  <1>14. ASSUME NEW p \in Procs, Fold(p) PROVE VacSteady
    BY <1>14, <1>t DEF Fold, VacSteady, Sealed, BulkOps, Goto, Job
  <1>15. ASSUME NEW p \in Procs, FreePages(p) PROVE VacSteady
    BY <1>15, <1>t DEF FreePages, VacSteady, Sealed, BulkOps, Goto, Job, Control, OpAt
  <1>16. ASSUME NEW p \in Procs, MergeSelect(p) PROVE VacSteady
    BY <1>16, <1>t DEF MergeSelect, VacSteady, Sealed, BulkOps, Goto, Job, meta
  <1>17. ASSUME NEW p \in Procs, MergeStream(p) PROVE VacSteady
    BY <1>17, <1>t DEF MergeStream, VacSteady, Sealed, BulkOps, Goto, Job
  <1>18. ASSUME NEW p \in Procs, MergeSwap(p) PROVE VacSteady
    BY <1>18, <1>t DEF MergeSwap, VacSteady, Sealed, BulkOps, Goto, Job
  <1>19. ASSUME NEW p \in Procs, FreeInputs(p) PROVE VacSteady
    BY <1>19, <1>t DEF FreeInputs, VacSteady, Sealed, BulkOps, Goto, Job
  <1>20. ASSUME NEW p \in Procs, MergeReturn(p) PROVE VacSteady
    BY <1>20, <1>t DEF MergeReturn, VacSteady, Sealed, BulkOps, Goto, Job, meta, AfterFlush,
       Merging, Control, OpAt
  <1>21. ASSUME NEW p \in Procs, Unlock(p) PROVE VacSteady
    <2>1. /\ \A q \in Procs : q # p => pc'[q] = pc[q] /\ job'[q] = job[q]
          /\ pc[p] = "unlock" /\ pc'[p] \in {"commit", "reclaim", "idle"}
          /\ job'[p] = job[p] \/ job'[p].vac = {}
      BY <1>21, <1>t DEF Unlock, Goto, IdleJob
    <2>2. ~Sealed(p) BY <2>1 DEF Sealed
    <2>3. \A q \in Procs : q # p => (Sealed(q)' <=> Sealed(q)) BY <2>1 DEF Sealed
    <2>4. \A q \in Procs : job[q].op # "bulkdelete" => job[q].vac = {} BY DEF BulkOps
    <2> QED BY <2>1, <2>2, <2>3, <2>4 DEF VacSteady
  <1>22. ASSUME NEW p \in Procs, Vacuum(p) PROVE VacSteady
    <2>1. \A q \in Procs : q # p => pc'[q] = pc[q] /\ job'[q] = job[q]
      BY <1>22, <1>t DEF Vacuum, Goto
    <2>3. \A q \in Procs : q # p => (Sealed(q)' <=> Sealed(q)) BY <2>1 DEF Sealed
    <2>4. \A q \in Procs : job[q].op # "bulkdelete" => job[q].vac = {} BY DEF BulkOps
    <2> QED BY <1>22, <2>1, <2>3, <2>4 DEF VacSteady
  <1>23. ASSUME NEW p \in Procs, FtsMerge(p) PROVE VacSteady
    BY <1>23, <1>t DEF FtsMerge, VacSteady, Sealed, BulkOps, Goto, Job, meta, Control,
       IdleClean, IdleJob
  <1>24. ASSUME NEW p \in Procs, BulkSnapshot(p) PROVE VacSteady
    <2>1. /\ \A q \in Procs : q # p => pc'[q] = pc[q] /\ job'[q] = job[q]
          /\ pc[p] \in {"bulk", "bulkseg"} /\ pc'[p] \notin {"lock", "seal"}
          /\ job'[p].op = job[p].op /\ job'[p].vac = job[p].vac
      BY <1>24, <1>t DEF BulkSnapshot, Goto, Job
    <2>2. ~Sealed(p) BY <2>1 DEF Sealed
    <2>3. \A q \in Procs : q # p => (Sealed(q)' <=> Sealed(q)) BY <2>1 DEF Sealed
    <2>4. \A q \in Procs : job[q].op # "bulkdelete" => job[q].vac = {} BY DEF BulkOps
    <2>5. pc'[p] = "bulkseg" => BulkSnapshot(p) \/ BulkSegment(p)
      BY <1>24, <1>t DEF BulkSnapshot, Goto
    <2>6. pc'[p] \in {"unlock", "reclaim"} => BulkDone(p) BY <1>24, <1>t DEF BulkSnapshot, Goto
    <2> QED BY <2>1, <2>2, <2>3, <2>4, <2>5, <2>6 DEF VacSteady
  <1>25. ASSUME NEW p \in Procs, BulkSegment(p) PROVE VacSteady
    <2>1. /\ \A q \in Procs : q # p => pc'[q] = pc[q] /\ job'[q] = job[q]
          /\ pc[p] \in {"bulk", "bulkseg"} /\ pc'[p] \notin {"lock", "seal"}
          /\ job'[p].op = job[p].op /\ job'[p].vac = job[p].vac
      BY <1>25, <1>t DEF BulkSegment, Goto, Job
    <2>2. ~Sealed(p) BY <2>1 DEF Sealed
    <2>3. \A q \in Procs : q # p => (Sealed(q)' <=> Sealed(q)) BY <2>1 DEF Sealed
    <2>4. \A q \in Procs : job[q].op # "bulkdelete" => job[q].vac = {} BY DEF BulkOps
    <2>5. pc'[p] = "bulkseg" => BulkSnapshot(p) \/ BulkSegment(p)
      BY <1>25, <1>t DEF BulkSegment, Goto
    <2>6. pc'[p] \in {"unlock", "reclaim"} => BulkDone(p) BY <1>25, <1>t DEF BulkSegment, Goto
    <2> QED BY <2>1, <2>2, <2>3, <2>4, <2>5, <2>6 DEF VacSteady
  <1>26. ASSUME NEW p \in Procs, BulkDone(p) PROVE VacSteady
    <2>1. /\ \A q \in Procs : q # p => pc'[q] = pc[q] /\ job'[q] = job[q]
          /\ pc[p] \in {"bulk", "bulkseg"} /\ pc'[p] \notin {"lock", "seal"}
          /\ job'[p].op = job[p].op /\ job'[p].vac = job[p].vac
      BY <1>26, <1>t DEF BulkDone, Goto, Job
    <2>2. ~Sealed(p) BY <2>1 DEF Sealed
    <2>3. \A q \in Procs : q # p => (Sealed(q)' <=> Sealed(q)) BY <2>1 DEF Sealed
    <2>4. \A q \in Procs : job[q].op # "bulkdelete" => job[q].vac = {} BY DEF BulkOps
    <2>5. pc'[p] = "bulkseg" => BulkSnapshot(p) \/ BulkSegment(p)
      BY <1>26, <1>t DEF BulkDone, Goto
    <2>6. pc'[p] \in {"unlock", "reclaim"} => BulkDone(p) BY <1>26, <1>t DEF BulkDone, Goto
    <2> QED BY <2>1, <2>2, <2>3, <2>4, <2>5, <2>6 DEF VacSteady
  <1>27. ASSUME NEW p \in Procs, Reclaim(p) PROVE VacSteady
    BY <1>27, <1>t DEF Reclaim, VacSteady, Sealed, BulkOps, Goto, Job, meta
  <1> QED BY <1>1, <1>2, <1>3, <1>4, <1>5, <1>6, <1>7, <1>8, <1>9, <1>10, <1>11, <1>12, <1>13,
     <1>14, <1>15, <1>16, <1>17, <1>18, <1>19, <1>20, <1>21, <1>22, <1>23, <1>24, <1>25, <1>26,
     <1>27
       DEF Next, Work, Serve, Continue, Insert, Flush, AddSegment, Merge, BulkDelete, Refuse

LEMMA StepVacDead ==
    TypeInv /\ Owners /\ Control /\ HeapInv /\ Next => VacDead'
  <1> SUFFICES ASSUME TypeInv, Owners, Control, HeapInv, Next,
                      NEW p \in Procs, NEW t \in job'[p].vac
      PROVE \E e \in Docs : TidOf[e] = t /\ heap'[e] = "dead"
    BY DEF VacDead
  <1>t. /\ heap \in [Docs -> {"absent", "inserting", "live", "dead", "gone"}]
        /\ pc \in [Procs -> Points] /\ job \in [Procs -> Job]
    BY DEF TypeInv, TypeOK
  <1>1. CASE Vacuum(p)
    <2>1. heap' = heap /\ job'[p].vac = TidsOf({d \in Docs : heap[d] = "dead"})
      BY <1>1, <1>t DEF Vacuum, Job
    <2> QED BY <2>1 DEF TidsOf
  <1>2. CASE job'[p].vac = job[p].vac /\ job[p].op = "bulkdelete"
    <2>1. PICK e \in Docs : TidOf[e] = t /\ heap[e] = "dead" BY <1>2 DEF HeapInv, VacDead
    <2>2. ASSUME NEW q \in Procs, Reclaims(q) PROVE FALSE
      <3>1. pc[q] = "reclaim" /\ job'[q].vac = {} BY <2>2, <1>t DEF Reclaims, Reclaim, Goto, Job
      <3>2. job[q].op = "bulkdelete" BY <3>1 DEF Control, OpAt
      <3>3. p = q BY <1>2, <3>2 DEF HeapInv, OneVacuum
      <3> QED BY <3>1, <3>3
    <2>3. ASSUME NEW d \in Docs, Inserts(d) \/ Commits(d) \/ Kills(d) PROVE heap'[e] = "dead"
      BY <1>t, <2>1, <2>3 DEF Inserts, Commits, Kills
    <2>4. heap'[e] = "dead" BY <2>1, <2>2, <2>3, HeapChange
    <2> QED BY <2>1, <2>4
  <1> QED BY <1>1, <1>2, StepVacSteady DEF HeapInv, VacSteady

-----------------------------------------------------------------------------
\* An insert is filed by putting its document into the index, and stays so.
FiledSteady ==
    \A p \in Procs : Filed(p)' =>
        \/ AppendPending(p)
        \/ Publish(p) /\ job[p].op = "oversized"
        \/ Filed(p) /\ job'[p].doc = job[p].doc

LEMMA StepFiledSteady ==
    TypeInv /\ Control /\ Next => FiledSteady
  <1> SUFFICES ASSUME TypeInv, Control, Next PROVE FiledSteady
    OBVIOUS
  <1> USE NoneAssumption
  <1>t. pc \in [Procs -> Points] /\ job \in [Procs -> Job] /\ OversizedWrites
    BY DEF TypeInv, TypeOK
  <1>1. ASSUME NEW p \in Procs, NEW d \in Docs, HeapInsert(p, d) PROVE FiledSteady
    BY <1>1, <1>t DEF HeapInsert, FiledSteady, Filed, Storing, Adding, Merging, Goto, Job,
       meta, Control, IdleClean, IdleJob
  <1>2. ASSUME NEW d \in Docs, Delete(d) PROVE FiledSteady
    BY <1>2, <1>t DEF Delete, FiledSteady, Filed, Storing, Adding, Merging, Goto, Job, meta
  <1>3. ASSUME NEW p \in Procs, Commit(p) PROVE FiledSteady
    BY <1>3, <1>t DEF Commit, FiledSteady, Filed, Storing, Adding, Merging, Goto, Job, meta,
       IdleJob
  <1>4. ASSUME NEW p \in Procs, Abort(p) PROVE FiledSteady
    BY <1>4, <1>t DEF Abort, FiledSteady, Filed, Storing, Adding, Merging, Goto, Job, meta,
       IdleJob
  <1>5. ASSUME NEW p \in Procs, AppendPending(p) PROVE FiledSteady
    <2>1. \A q \in Procs : q # p => pc'[q] = pc[q] /\ job'[q] = job[q]
      BY <1>5, <1>t DEF AppendPending, Goto
    <2>2. \A q \in Procs : q # p => (Filed(q)' <=> Filed(q))
      BY <2>1 DEF Filed, Storing, Adding, Merging
    <2> QED BY <1>5, <2>1, <2>2 DEF FiledSteady
  <1>6. ASSUME NEW p \in Procs, TryFlush(p) PROVE FiledSteady
    BY <1>6, <1>t DEF TryFlush, FiledSteady, Filed, Storing, Adding, Merging, Goto, Job, meta
  <1>7. ASSUME NEW p \in Procs, WriteOversized(p) PROVE FiledSteady
    BY <1>7, <1>t DEF WriteOversized, FiledSteady, Filed, Storing, Adding, Merging, Goto, Job,
       OversizedWrites
  <1>8. ASSUME NEW p \in Procs, Tidy(p) PROVE FiledSteady
    BY <1>8, <1>t DEF Tidy, FiledSteady, Filed, Storing, Adding, Merging, Goto, Job, meta,
       Control, OpAt
  <1>9. ASSUME NEW p \in Procs, Publish(p) PROVE FiledSteady
    <2>1. /\ \A q \in Procs : q # p => pc'[q] = pc[q] /\ job'[q] = job[q]
          /\ pc[p] = "publish" /\ job'[p].op = job[p].op /\ job'[p].doc = job[p].doc
      BY <1>9, <1>t DEF Publish, Goto, Job
    <2>2. \A q \in Procs : q # p => (Filed(q)' <=> Filed(q))
      BY <2>1 DEF Filed, Storing, Adding, Merging
    <2>3. job[p].op # "oversized" => (Filed(p)' => Filed(p)) BY <2>1 DEF Filed, Storing
    <2> QED BY <1>9, <2>1, <2>2, <2>3 DEF FiledSteady
  <1>10. ASSUME NEW p \in Procs, MakeRoom(p) PROVE FiledSteady
    BY <1>10, <1>t DEF MakeRoom, FiledSteady, Filed, Storing, Adding, Merging, Goto, Job, meta
  <1>11. ASSUME NEW p \in Procs, MergeForRoom(p) PROVE FiledSteady
    BY <1>11, <1>t DEF MergeForRoom, FiledSteady, Filed, Storing, Adding, Merging, Goto, Job,
       meta
  <1>12. ASSUME NEW p \in Procs, Lock(p) PROVE FiledSteady
    BY <1>12, <1>t DEF Lock, FiledSteady, Filed, Storing, Adding, Merging, Goto, Job, meta
  <1>13. ASSUME NEW p \in Procs, Seal(p) PROVE FiledSteady
    <2>1. /\ \A q \in Procs : q # p => pc'[q] = pc[q] /\ job'[q] = job[q]
          /\ pc[p] = "seal" /\ job'[p].op = job[p].op /\ job'[p].doc = job[p].doc
      BY <1>13, <1>t, SealLocals
    <2>2. job[p].op # "oversized" BY <2>1 DEF Control, OpAt
    <2>3. \A q \in Procs : Filed(q)' => Filed(q)
      BY <2>1, <2>2 DEF Filed, Storing, Adding, Merging
    <2> QED BY <2>1, <2>3 DEF FiledSteady
  <1>14. ASSUME NEW p \in Procs, Fold(p) PROVE FiledSteady
    BY <1>14, <1>t DEF Fold, FiledSteady, Filed, Storing, Adding, Merging, Goto, Job
  <1>15. ASSUME NEW p \in Procs, FreePages(p) PROVE FiledSteady
    BY <1>15, <1>t DEF FreePages, FiledSteady, Filed, Storing, Adding, Merging, Goto, Job
  <1>16. ASSUME NEW p \in Procs, MergeSelect(p) PROVE FiledSteady
    BY <1>16, <1>t DEF MergeSelect, FiledSteady, Filed, Storing, Adding, Merging, Goto, Job,
       meta
  <1>17. ASSUME NEW p \in Procs, MergeStream(p) PROVE FiledSteady
    BY <1>17, <1>t DEF MergeStream, FiledSteady, Filed, Storing, Adding, Merging, Goto, Job
  <1>18. ASSUME NEW p \in Procs, MergeSwap(p) PROVE FiledSteady
    BY <1>18, <1>t DEF MergeSwap, FiledSteady, Filed, Storing, Adding, Merging, Goto, Job
  <1>19. ASSUME NEW p \in Procs, FreeInputs(p) PROVE FiledSteady
    BY <1>19, <1>t DEF FreeInputs, FiledSteady, Filed, Storing, Adding, Merging, Goto, Job
  <1>20. ASSUME NEW p \in Procs, MergeReturn(p) PROVE FiledSteady
    BY <1>20, <1>t DEF MergeReturn, FiledSteady, Filed, Storing, Adding, Merging, Goto, Job,
       meta, AfterFlush
  <1>21. ASSUME NEW p \in Procs, Unlock(p) PROVE FiledSteady
    BY <1>21, <1>t DEF Unlock, FiledSteady, Filed, Storing, Adding, Merging, Goto, Job, meta,
       IdleJob
  <1>22. ASSUME NEW p \in Procs, Vacuum(p) PROVE FiledSteady
    BY <1>22, <1>t DEF Vacuum, FiledSteady, Filed, Storing, Adding, Merging, Goto, Job, meta,
       Control, IdleClean, IdleJob
  <1>23. ASSUME NEW p \in Procs, FtsMerge(p) PROVE FiledSteady
    BY <1>23, <1>t DEF FtsMerge, FiledSteady, Filed, Storing, Adding, Merging, Goto, Job, meta,
       Control, IdleClean, IdleJob
  <1>24. ASSUME NEW p \in Procs, BulkSnapshot(p) PROVE FiledSteady
    BY <1>24, <1>t DEF BulkSnapshot, FiledSteady, Filed, Storing, Adding, Merging, Goto, Job,
       meta
  <1>25. ASSUME NEW p \in Procs, BulkSegment(p) PROVE FiledSteady
    BY <1>25, <1>t DEF BulkSegment, FiledSteady, Filed, Storing, Adding, Merging, Goto, Job
  <1>26. ASSUME NEW p \in Procs, BulkDone(p) PROVE FiledSteady
    BY <1>26, <1>t DEF BulkDone, FiledSteady, Filed, Storing, Adding, Merging, Goto, Job, meta
  <1>27. ASSUME NEW p \in Procs, Reclaim(p) PROVE FiledSteady
    BY <1>27, <1>t DEF Reclaim, FiledSteady, Filed, Storing, Adding, Merging, Goto, Job, meta
  <1> QED BY <1>1, <1>2, <1>3, <1>4, <1>5, <1>6, <1>7, <1>8, <1>9, <1>10, <1>11, <1>12, <1>13,
     <1>14, <1>15, <1>16, <1>17, <1>18, <1>19, <1>20, <1>21, <1>22, <1>23, <1>24, <1>25, <1>26,
     <1>27
       DEF Next, Work, Serve, Continue, Insert, Flush, AddSegment, Merge, BulkDelete, Refuse

\* A document a scan reports has a tuple.
IndexedKnown == \A d \in Indexed : Present(d)

\* What is committed, or filed by an insert, is indexed.
Placed ==
    \A d \in Docs \ Blank :
        heap[d] = "live" \/ (\E p \in Procs : Filed(p) /\ job[p].doc = d) => d \in Indexed

\* A VACUUM's flush takes the documents it collected off the pending list,
\* its bulkdelete out of the segments it has come to, and then all are gone.
VacOnPages ==
    \A p \in Procs : pc[p] \notin {"lock", "seal"} =>
        \A d \in PendingDocs : TidOf[d] \in job[p].vac => Sealed(p) /\ d \in SealedDocs(p)
VacInSegs ==
    \A p \in Procs : pc[p] = "bulkseg" =>
        \A i \in Dir : \A d \in LiveDocs(disk[i]) :
            TidOf[d] \in job[p].vac => i \in InSnapshot(p) /\ pos[i] >= job[p].next
VacOut ==
    \A p \in Procs : pc[p] \in {"unlock", "reclaim"} =>
        \A d \in Indexed : TidOf[d] \notin job[p].vac

StoredInv ==
    WriteInv /\ HeapInv /\ IndexedKnown /\ Placed /\ VacOnPages /\ VacInSegs /\ VacOut

\* A slot that VACUUM has collected is not given to a new tuple.
LEMMA VacDocs ==
    ASSUME HeapInv, NEW p \in Procs, NEW d \in Docs, TidOf[d] \in job[p].vac, Present(d)
    PROVE  heap[d] = "dead"
  <1>1. PICK e \in Docs : TidOf[e] = TidOf[d] /\ heap[e] = "dead" BY DEF HeapInv, VacDead
  <1>2. Present(e) BY <1>1 DEF Present
  <1> QED BY <1>1, <1>2 DEF HeapInv, SlotOnce

LEMMA VacNotStoring ==
    ASSUME HeapInv, Owners, NEW p \in Procs, NEW q \in Procs, Storing(q)
    PROVE  TidOf[job[q].doc] \notin job[p].vac
  <1>1. job[q].doc \in Docs /\ heap[job[q].doc] = "inserting" BY DEF Owners, DocOwned
  <1> QED BY <1>1, VacDocs DEF Present

\* A document enters the index while its insert is under way.
LEMMA EntersStoring ==
    ASSUME WriteInv, NEW p \in Procs, Enters(p)
    PROVE  /\ Storing(p) /\ job[p].doc \in Docs /\ heap[job[p].doc] = "inserting"
           /\ heap' = heap
  <1> USE DEF WriteInv, ListInv, SegmentsInv
  <1>1. Storing(p) /\ heap' = heap
    BY DEF Enters, AppendPending, Publish, Goto, Control, OpAt, Storing
  <1> QED BY <1>1 DEF Owners, DocOwned

LEMMA StepIndexedKnown == StoredInv /\ Next => IndexedKnown'
  <1> SUFFICES ASSUME StoredInv, Next, NEW d \in Indexed' PROVE Present(d)'
    BY DEF IndexedKnown
  <1> USE DEF StoredInv
  <1>w. TypeInv /\ Owners /\ Control BY DEF WriteInv, ListInv, SegmentsInv
  <1>t. heap \in [Docs -> {"absent", "inserting", "live", "dead", "gone"}]
    BY <1>w DEF TypeInv, TypeOK
  <1>d. d \in Docs BY DEF Indexed
  <1>1. ASSUME NEW p \in Procs, Enters(p), d \notin Indexed PROVE Present(d)'
    BY <1>1, EntersStoring DEF Enters, Present
  <1>2. CASE d \in Indexed
    <2>1. Present(d) BY <1>2 DEF IndexedKnown
    <2>2. ASSUME NEW p \in Procs, Reclaims(p) PROVE Present(d)'
      <3>1. pc[p] = "reclaim" BY <2>2 DEF Reclaims, Reclaim, Goto
      <3>2. TidOf[d] \notin job[p].vac BY <1>2, <3>1 DEF VacOut
      <3> QED BY <1>d, <2>1, <2>2, <3>2 DEF Reclaims, Present
    <2>3. ASSUME NEW e \in Docs, Inserts(e) \/ Commits(e) \/ Kills(e) PROVE Present(d)'
      BY <1>d, <1>t, <2>1, <2>3 DEF Inserts, Commits, Kills, Present
    <2> QED BY <1>w, <2>1, <2>2, <2>3, HeapChange DEF Present
  <1>3. CASE d \notin Indexed /\ \E p \in Procs : Enters(p) BY <1>1, <1>3
  <1> QED BY <1>2, <1>3, StepIndexed DEF Leaves

LEMMA StepPlaced == StoredInv /\ Next => Placed'
  <1> SUFFICES ASSUME StoredInv, Next, NEW d \in Docs \ Blank,
                      heap'[d] = "live" \/ \E p \in Procs : Filed(p)' /\ job'[p].doc = d
      PROVE d \in Indexed'
    BY DEF Placed
  <1> USE DEF StoredInv
  <1>w. TypeInv /\ Owners /\ Control /\ Holdings /\ Apart /\ ContentsInv /\ PendingInv
    BY DEF WriteInv, ListInv, SegmentsInv
  <1>t. /\ heap \in [Docs -> {"absent", "inserting", "live", "dead", "gone"}]
        /\ pc \in [Procs -> Points] /\ job \in [Procs -> Job]
    BY <1>w DEF TypeInv, TypeOK
  <1>1. ASSUME d \in Indexed, Present(d), heap[d] # "dead" PROVE d \in Indexed'
    <2>1. ASSUME NEW p \in Procs, Leaves(p) PROVE d \in Indexed'
      BY <1>1, <2>1, VacDocs DEF Leaves
    <2> QED BY <1>1, <2>1, StepIndexed DEF Enters
  <1>2. ASSUME NEW p \in Procs, Filed(p), job[p].doc = d PROVE d \in Indexed'
    <2>1. heap[d] = "inserting" /\ d \in Indexed
      BY <1>2, <1>w DEF Filed, Owners, DocOwned, Placed
    <2> QED BY <1>1, <2>1 DEF Present
  <1>3. ASSUME NEW p \in Procs, Filed(p)', job'[p].doc = d PROVE d \in Indexed'
    <2>1. CASE AppendPending(p)
      <3>1. PendingDocs' = PendingDocs \cup {job[p].doc} BY <1>w, <2>1, StepAppend
      <3>2. job[p].doc = d BY <1>3, <2>1 DEF AppendPending
      <3> QED BY <3>1, <3>2, InIndexedNext
    <2>2. CASE Publish(p) /\ job[p].op = "oversized"
      <3>1. SegDocs' = SegDocs \cup Meant(p) BY <1>w, <2>2, PublishSegDocs
      <3>2. job[p].doc = d BY <1>3, <1>t, <2>2 DEF Publish, Job
      <3> QED BY <2>2, <3>1, <3>2, InIndexedNext DEF Meant
    <2>3. CASE Filed(p) /\ job'[p].doc = job[p].doc BY <1>2, <1>3, <2>3
    <2> QED BY <1>3, <1>w, <2>1, <2>2, <2>3, StepFiledSteady DEF FiledSteady
  <1>4. ASSUME heap'[d] = "live" PROVE d \in Indexed'
    <2>1. CASE heap[d] = "live"
      <3>1. d \in Indexed BY <2>1 DEF Placed
      <3> QED BY <1>1, <2>1, <3>1 DEF Present
    <2>2. CASE heap[d] # "live"
      <3>1. ASSUME NEW e \in Docs, Inserts(e) \/ Commits(e) \/ Kills(e) PROVE Commits(d)
        BY <1>4, <1>t, <2>2, <3>1 DEF Inserts, Commits, Kills
      <3>2. ASSUME NEW p \in Procs, Reclaims(p) PROVE FALSE
        BY <1>4, <2>2, <3>2 DEF Reclaims
      <3>3. Commits(d) BY <1>4, <1>w, <2>2, <3>1, <3>2, HeapChange
      <3>4. PICK p \in Procs : Commit(p) /\ job[p].doc = d BY <3>3 DEF Commits
      <3>5. Filed(p) BY <1>w, <3>4 DEF Commit, Goto, Control, OpAt, Filed, Adding, Merging
      <3> QED BY <1>2, <3>4, <3>5
    <2> QED BY <2>1, <2>2
  <1> QED BY <1>3, <1>4

LEMMA StepVacOnPages == StoredInv /\ Next => VacOnPages'
  <1> SUFFICES ASSUME StoredInv, Next, NEW p \in Procs, pc'[p] \notin {"lock", "seal"},
                      NEW d \in PendingDocs', TidOf[d] \in job'[p].vac
      PROVE Sealed(p)' /\ d \in SealedDocs(p)'
    BY DEF VacOnPages
  <1> USE DEF StoredInv
  <1>w. /\ TypeInv /\ Exclusion /\ Owners /\ Control /\ Holdings /\ Apart /\ Dense
        /\ ContentsInv /\ PendingInv
    BY DEF WriteInv, ListInv, SegmentsInv
  <1>t. /\ pc \in [Procs -> Points] /\ job \in [Procs -> Job] /\ pos \in [Segs -> Nat]
    BY <1>w DEF TypeInv, TypeOK
  <1>1. /\ job'[p].vac = job[p].vac /\ job[p].op = "bulkdelete"
        /\ Seal(p) \/ pc[p] \notin {"lock", "seal"}
        /\ Sealed(p) => Sealed(p)' \/ Publish(p)
    <2>1. ~Vacuum(p) BY <1>t DEF Vacuum, Goto
    <2> QED BY <1>w, <2>1, StepVacSteady DEF HeapInv, VacSteady
  <1>2. CASE Seal(p)
    <2>1. PendingDocs' = PendingDocs BY <1>2, <1>w, StepSeal
    <2>2. npending # 0
      <3> SUFFICES ASSUME npending = 0 PROVE FALSE OBVIOUS
      <3>1. PendingDocs \in SUBSET Docs BY <1>w, PendingTypes
      <3>2. Cardinality(PendingDocs) = 0 BY <1>w DEF PendingInv, PendingCounted
      <3>3. PendingDocs = {} BY <3>1, <3>2, SetOfDocs, FS_EmptySet
      <3> QED BY <2>1, <3>3
    <2>3. SealedDocs(p)' = PendingDocs BY <1>2, <1>w, <2>2, SealTakesAll
    <2>4. pc'[p] = "fold" /\ job'[p].op = job[p].op
      <3>1. Goto(p, "seal", "fold") BY <1>2, <2>2 DEF Seal
      <3>2. pc'[p] = "fold" BY <1>t, <3>1 DEF Goto
      <3>3. job' = [job EXCEPT ![p].first = head, ![p].last = tail, ![p].sealed = npending]
        BY <1>2, <2>2 DEF Seal
      <3>4. job'[p].op = job[p].op BY <1>t, <3>3 DEF Job
      <3> QED BY <3>2, <3>4
    <2> QED BY <1>1, <2>1, <2>3, <2>4 DEF Sealed
  <1>3. CASE pc[p] \notin {"lock", "seal"}
    <2>1. CASE d \in PendingDocs
      <3>1. Sealed(p) /\ d \in SealedDocs(p) BY <1>1, <1>3, <2>1 DEF VacOnPages
      <3>2. CASE Sealed(p)'
        <4>1. SealedDocs(p)' = SealedDocs(p) BY <1>w, <3>1, <3>2, SealedDocsKept
        <4> QED BY <3>1, <3>2, <4>1
      <3>3. CASE Publish(p)
        <4>1. SealedDocs(p) \cap PendingDocs' = {} BY <1>1, <1>w, <3>3, StepPublishList
        <4> QED BY <3>1, <4>1
      <3> QED BY <1>1, <3>1, <3>2, <3>3
    <2>2. CASE d \notin PendingDocs
      <3>1. ASSUME NEW q \in Procs, AppendPending(q) PROVE FALSE
        <4>1. PendingDocs' = PendingDocs \cup {job[q].doc} BY <1>w, <3>1, StepAppend
        <4>2. Storing(q) BY <1>w, <3>1 DEF AppendPending, Goto, Control, OpAt, Storing
        <4> QED BY <1>1, <1>w, <2>2, <4>1, <4>2, VacNotStoring
      <3>2. ASSUME NEW q \in Procs, Publish(q) PROVE FALSE
        BY <1>w, <2>2, <3>2, StepPublishList
      <3> QED BY <2>2, <3>1, <3>2, PendingMoves
    <2> QED BY <2>1, <2>2
  <1> QED BY <1>1, <1>2, <1>3

LEMMA StepVacInSegs == StoredInv /\ Next => VacInSegs'
  <1> SUFFICES ASSUME StoredInv, Next, NEW p \in Procs, pc'[p] = "bulkseg",
                      NEW i \in Dir', NEW d \in LiveDocs(disk[i])', TidOf[d] \in job'[p].vac
      PROVE i \in InSnapshot(p)' /\ pos'[i] >= job'[p].next
    BY DEF VacInSegs
  <1> USE DEF StoredInv
  <1>w. /\ TypeInv /\ Exclusion /\ Owners /\ Control /\ Holdings /\ Apart /\ Dense
        /\ ContentsInv /\ PendingInv
    BY DEF WriteInv, ListInv, SegmentsInv
  <1>t. /\ pc \in [Procs -> Points] /\ job \in [Procs -> Job] /\ pos \in [Segs -> Nat]
    BY <1>w DEF TypeInv, TypeOK
  <1>1. job'[p].vac = job[p].vac
        /\ \/ BulkSnapshot(p) \/ BulkSegment(p)
           \/ /\ pc[p] = "bulkseg" /\ job'[p].next = job[p].next
              /\ job'[p].snap = job[p].snap
    <2>1. ~Vacuum(p) BY <1>t DEF Vacuum, Goto
    <2> QED BY <1>w, <2>1, StepVacSteady DEF HeapInv, VacSteady
  <1>i. i \in Segs /\ pos'[i] # 0 BY DEF Dir
  <1>2. CASE BulkSnapshot(p)
    <2>1. /\ job'[p].next = 1 /\ pos' = pos
          /\ job'[p].snap = [k \in Segs |->
                IF k \in Dir THEN [pos |-> pos[k], dead |-> disk[k].dead] ELSE None]
      BY <1>2, <1>t DEF BulkSnapshot, Job, meta
    <2>2. i \in Dir BY <1>i, <2>1 DEF Dir
    <2>3. job'[p].snap[i] = [pos |-> pos[i], dead |-> disk[i].dead] BY <1>i, <2>1, <2>2
    <2>4. disk[i] \in Segment BY <1>i, <1>w DEF TypeInv, TypeOK
    <2>5. job'[p].snap[i] # None BY <1>i, <1>t, <2>3, <2>4, NoneAssumption DEF Segment
    <2> QED BY <1>i, <1>t, <2>1, <2>5 DEF InSnapshot
  <1>3. CASE BulkSegment(p)
    <2>1. /\ Dir' = Dir
          /\ LiveDocs(disk[i])' =
                IF pos[i] = job[p].next
                THEN {e \in LiveDocs(disk[i]) : TidOf[e] \notin job[p].vac}
                ELSE LiveDocs(disk[i])
      BY <1>3, <1>w, BulkSegDocs
    <2>2. pos[i] # job[p].next /\ d \in LiveDocs(disk[i]) BY <1>1, <2>1
    <2>3. i \in InSnapshot(p) /\ pos[i] >= job[p].next
      BY <1>1, <1>3, <2>1, <2>2 DEF VacInSegs, BulkSegment
    <2>4. job'[p].next = job[p].next + 1 /\ job'[p].snap = job[p].snap /\ pos' = pos
      BY <1>3, <1>t DEF BulkSegment, Job
    <2>5. pos[i] \in Nat /\ job[p].next \in Nat BY <1>i, <1>t DEF Job
    <2> QED BY <2>2, <2>3, <2>4, <2>5 DEF InSnapshot
  <1>4. CASE pc[p] = "bulkseg" /\ job'[p].next = job[p].next /\ job'[p].snap = job[p].snap
    <2>x. \A q \in Procs : Maintaining(q) => q = p
      BY <1>4, <1>w DEF Exclusion, Maintaining
    <2>1. ASSUME i \in Dir, pos'[i] = pos[i], LiveDocs(disk[i])' = LiveDocs(disk[i])
          PROVE  i \in InSnapshot(p)' /\ pos'[i] >= job'[p].next
      BY <1>1, <1>4, <2>1 DEF VacInSegs, InSnapshot
    <2>2. ASSUME NEW q \in Procs, Publish(q) PROVE i \in Dir /\ pos'[i] = pos[i] /\ disk' = disk
      <3>1. pc[q] = "publish" BY <2>2 DEF Publish, Goto
      <3>2. job[q].op = "oversized"
        BY <1>4, <2>x, <3>1 DEF Maintaining
      <3>3. /\ Dir' = Dir \cup {job[q].out} /\ LiveDocs(disk[job[q].out]) = {job[q].doc}
            /\ disk' = disk /\ \A k \in Dir : pos'[k] = pos[k]
        BY <1>w, <2>2, <3>2, PublishDir DEF Meant
      <3>4. Storing(q) BY <3>2 DEF Storing
      <3>5. d # job[q].doc BY <1>1, <1>w, <3>4, VacNotStoring
      <3>6. d \in LiveDocs(disk[i]) BY <3>3 DEF LiveDocs
      <3>7. i \in Dir BY <3>3, <3>5, <3>6
      <3> QED BY <3>3, <3>7
    <2>3. ASSUME NEW q \in Procs, MergeSwap(q) PROVE FALSE
      BY <1>4, <2>x, <2>3 DEF MergeSwap, Goto, Maintaining
    <2>4. ASSUME NEW q \in Procs, BulkSegment(q) PROVE BulkSegment(p)
      <3>1. Maintaining(q) BY <2>4 DEF BulkSegment, Maintaining
      <3>2. q = p BY <2>x, <3>1
      <3> QED BY <2>4, <3>2
    <2>5. CASE DirSteady
      <3>1. i \in Dir /\ pos' = pos /\ disk'[i] = disk[i] BY <1>i, <2>5 DEF DirSteady, Dir
      <3> QED BY <2>1, <3>1 DEF LiveDocs
    <2> QED BY <1>3, <1>w, <2>1, <2>2, <2>3, <2>4, <2>5, MovesOrSteady DEF DirMoves, LiveDocs
  <1> QED BY <1>1, <1>2, <1>3, <1>4

LEMMA StepVacOut == StoredInv /\ Next => VacOut'
  <1> SUFFICES ASSUME StoredInv, Next, NEW p \in Procs, pc'[p] \in {"unlock", "reclaim"},
                      NEW d \in Indexed', TidOf[d] \in job'[p].vac
      PROVE FALSE
    BY DEF VacOut
  <1> USE DEF StoredInv
  <1>w. /\ TypeInv /\ Exclusion /\ Owners /\ Control /\ Holdings /\ Apart /\ Dense
        /\ ContentsInv /\ PendingInv
    BY DEF WriteInv, ListInv, SegmentsInv
  <1>t. /\ pc \in [Procs -> Points] /\ job \in [Procs -> Job] /\ pos \in [Segs -> Nat]
    BY <1>w DEF TypeInv, TypeOK
  <1>1. job'[p].vac = job[p].vac /\ (BulkDone(p) \/ pc[p] \in {"unlock", "reclaim"})
    <2>1. ~Vacuum(p) BY <1>t DEF Vacuum, Goto
    <2> QED BY <1>w, <2>1, StepVacSteady DEF HeapInv, VacSteady
  <1>2. CASE BulkDone(p)
    <2>1. /\ pc[p] = "bulkseg" /\ \A i \in InSnapshot(p) : job[p].snap[i].pos < job[p].next
          /\ UNCHANGED <<page, head, pos, disk>>
      BY <1>2 DEF BulkDone, Goto, meta
    <2>2. d \in Docs /\ (d \in PendingDocs \/ d \in SegDocs)
      <3>1. PendingDocs' = PendingDocs /\ SegDocs' = SegDocs
        BY <2>1 DEF PendingDocs, SegDocs, LiveDocs, Dir
      <3> QED BY <3>1, InIndexedNext
    <2>3. d \notin PendingDocs BY <1>1, <2>1 DEF VacOnPages, Sealed
    <2>4. PICK i \in Dir : d \in LiveDocs(disk[i]) BY <2>2, <2>3 DEF SegDocs
    <2>5. i \in InSnapshot(p) /\ pos[i] >= job[p].next BY <1>1, <2>1, <2>4 DEF VacInSegs
    <2>6. pos[i] = job[p].snap[i].pos BY <1>w, <2>1, <2>5 DEF ContentsInv, SnapKept
    <2>7. pos[i] \in Nat /\ job[p].next \in Nat BY <1>t DEF Job, Dir
    <2> QED BY <2>1, <2>5, <2>6, <2>7
  <1>3. CASE pc[p] \in {"unlock", "reclaim"}
    <2>1. d \notin Indexed BY <1>1, <1>3 DEF VacOut
    <2>2. ASSUME NEW q \in Procs, Enters(q) PROVE FALSE
      BY <1>1, <1>w, <2>1, <2>2, EntersStoring, VacNotStoring DEF Enters
    <2> QED BY <2>1, <2>2, StepIndexed DEF Leaves
  <1> QED BY <1>1, <1>2, <1>3

-----------------------------------------------------------------------------
LEMMA InitStoredInv == Init => StoredInv
  <1> SUFFICES ASSUME Init PROVE StoredInv OBVIOUS
  <1>1. HeapInv BY DEF Init, IdleJob, HeapInv, SlotOnce, Present, OneVacuum, BulkOps, VacDead
  <1>2. Indexed = {} /\ PendingDocs = {}
    <2>1. PendingDocs = {} /\ Dir = {} BY DEF Init, PendingDocs, Dir
    <2> QED BY <2>1, InIndexed DEF SegDocs
  <1>3. IndexedKnown /\ VacOnPages /\ VacInSegs /\ VacOut
    BY <1>2 DEF Init, IdleJob, IndexedKnown, VacOnPages, VacInSegs, VacOut
  <1>4. Placed BY DEF Init, IdleJob, Placed, Filed, Storing
  <1> QED BY <1>1, <1>3, <1>4, InitWriteInv DEF StoredInv

LEMMA StepStoredInv == StoredInv /\ [Next]_vars => StoredInv'
  <1>1. ASSUME StoredInv, UNCHANGED vars PROVE StoredInv'
    <2> USE <1>1 DEF StoredInv, vars, meta
    <2>1. WriteInv' BY StepWriteInv
    <2>2. HeapInv'
      BY DEF HeapInv, SlotOnce, Present, OneVacuum, BulkOps, Merging, VacDead
    <2>3. /\ Indexed' = Indexed /\ PendingDocs' = PendingDocs /\ Dir' = Dir
          /\ \A p \in Procs : /\ SealedDocs(p)' = SealedDocs(p) /\ Sealed(p)' = Sealed(p)
                             /\ Filed(p)' = Filed(p) /\ InSnapshot(p)' = InSnapshot(p)
      BY DEF Indexed, PlacesOf, PendingDocs, Dir, LiveDocs, SealedDocs, SealedPages, Sealed,
             Filed, Storing, Adding, Merging, InSnapshot
    <2>4. IndexedKnown' /\ Placed' BY <2>3 DEF IndexedKnown, Present, Placed
    <2>5. VacOnPages' /\ VacInSegs' /\ VacOut'
      BY <2>3 DEF VacOnPages, VacInSegs, VacOut, LiveDocs
    <2> QED BY <2>1, <2>2, <2>4, <2>5
  <1>2. ASSUME StoredInv, Next PROVE StoredInv'
    <2>w. TypeInv /\ Owners /\ Control /\ WriteInv /\ HeapInv
      BY <1>2 DEF StoredInv, WriteInv, ListInv, SegmentsInv
    <2>1. HeapInv'
      BY <1>2, <2>w, StepSlotOnce, StepOneVacuum, StepBulkOps, StepVacDead DEF HeapInv
    <2>2. WriteInv' BY <1>2, <2>w, StepWriteInv
    <2> QED BY <1>2, <2>1, <2>2, StepIndexedKnown, StepPlaced, StepVacOnPages, StepVacInSegs,
               StepVacOut DEF StoredInv
  <1> QED BY <1>1, <1>2

\* No document of a committed transaction is ever missing from the index,
\* whatever flush, merge or VACUUM is under way, failed or cancelled
\* (bm25_flush_pending, bm25_merge_selected, bm25_bulkdelete).
THEOREM NothingIsLost == Spec => []NothingLost
  <1>1. StoredInv => NothingLost BY DEF StoredInv, Placed, NothingLost
  <1> QED BY <1>1, InitStoredInv, StepStoredInv, PTL DEF Spec

\* Once VACUUM has freed a slot, nothing in the index reports it
\* (bm25_bulkdelete).
THEOREM NoneReclaimed == Spec => []NoReclaimed
  <1>1. StoredInv => NoReclaimed BY DEF StoredInv, IndexedKnown, Present, NoReclaimed
  <1> QED BY <1>1, InitStoredInv, StepStoredInv, PTL DEF Spec

\* A document taken out of the index never comes back into it: not from a
\* merge that read it before it was tombstoned, nor from a leftover page.
THEOREM NoneResurrected == Spec => NoResurrection
  <1>1. StoredInv /\ [Next]_vars =>
          [\A d \in Docs \ Blank : heap[d] \in {"dead", "gone"} /\ d \notin Indexed
                                      => d \notin Indexed']_vars
    <2> SUFFICES ASSUME StoredInv, Next, NEW d \in Docs \ Blank, heap[d] \in {"dead", "gone"},
                        d \notin Indexed
        PROVE d \notin Indexed'
      OBVIOUS
    <2>1. ASSUME NEW p \in Procs, Enters(p) PROVE d \notin Indexed'
      BY <2>1, EntersStoring DEF Enters, StoredInv
    <2> QED BY <2>1, StepIndexed DEF Leaves, StoredInv
  <1> QED BY <1>1, InitStoredInv, StepStoredInv, PTL DEF Spec, NoResurrection

-----------------------------------------------------------------------------
(***************************************************************************)
(* No heap slot is reported twice: a document is on one pending page or in *)
(* one segment, never in two, whatever is under way (FtsDirectory, for any *)
(* documents, backends and bounds).                                        *)
(***************************************************************************)

\* No two segments report the same document, and none a document without terms
\* or one still on the pending list.
SegsApart == \A i, j \in Dir : i # j => LiveDocs(disk[i]) \cap LiveDocs(disk[j]) = {}
NoBlankSegs == SegDocs \subseteq Docs \ Blank
PendingApart == PendingDocs \cap SegDocs = {}

\* A document is reported by its own insert first.
Fresh == \A p \in Procs : Storing(p) /\ ~Filed(p) => job[p].doc \notin Indexed

UniqueInv == StoredInv /\ SegsApart /\ NoBlankSegs /\ PendingApart /\ Fresh

-----------------------------------------------------------------------------
\* An insert that is not filed is new, or was not filed before.
UnfiledSteady ==
    \A p \in Procs : Storing(p)' /\ ~Filed(p)' =>
        \/ HeapInsert(p, job'[p].doc) /\ job'[p].doc \in Docs
        \/ Storing(p) /\ ~Filed(p) /\ job'[p].doc = job[p].doc

LEMMA StepUnfiledSteady ==
    TypeInv /\ Control /\ Next => UnfiledSteady
  <1> SUFFICES ASSUME TypeInv, Control, Next PROVE UnfiledSteady
    OBVIOUS
  <1> USE NoneAssumption
  <1>t. pc \in [Procs -> Points] /\ job \in [Procs -> Job] /\ OversizedWrites
    BY DEF TypeInv, TypeOK
  <1>1. ASSUME NEW p \in Procs, NEW d \in Docs, HeapInsert(p, d) PROVE UnfiledSteady
    BY <1>1, <1>t DEF HeapInsert, UnfiledSteady, Filed, Storing, Adding, Merging, Goto, Job,
       meta, Control, IdleClean, IdleJob
  <1>2. ASSUME NEW d \in Docs, Delete(d) PROVE UnfiledSteady
    BY <1>2, <1>t DEF Delete, UnfiledSteady, Filed, Storing, Adding, Merging, Goto, Job, meta
  <1>3. ASSUME NEW p \in Procs, Commit(p) PROVE UnfiledSteady
    BY <1>3, <1>t DEF Commit, UnfiledSteady, Filed, Storing, Adding, Merging, Goto, Job, meta,
       IdleJob
  <1>4. ASSUME NEW p \in Procs, Abort(p) PROVE UnfiledSteady
    BY <1>4, <1>t DEF Abort, UnfiledSteady, Filed, Storing, Adding, Merging, Goto, Job, meta,
       IdleJob
  <1>5. ASSUME NEW p \in Procs, AppendPending(p) PROVE UnfiledSteady
    <2>1. \A q \in Procs : q # p => pc'[q] = pc[q] /\ job'[q] = job[q]
      BY <1>5, <1>t DEF AppendPending, Goto
    <2>2. Filed(p)'
      BY <1>5, <1>t DEF AppendPending, Goto, Control, OpAt, Filed, Storing, Adding, Merging
    <2>3. \A q \in Procs : q # p => (Filed(q)' <=> Filed(q))
      BY <2>1 DEF Filed, Storing, Adding, Merging
    <2> QED BY <2>1, <2>2, <2>3 DEF UnfiledSteady, Storing
  <1>6. ASSUME NEW p \in Procs, TryFlush(p) PROVE UnfiledSteady
    BY <1>6, <1>t DEF TryFlush, UnfiledSteady, Filed, Storing, Adding, Merging, Goto, Job,
       meta, Control, OpAt
  <1>7. ASSUME NEW p \in Procs, WriteOversized(p) PROVE UnfiledSteady
    BY <1>7, <1>t DEF WriteOversized, UnfiledSteady, Filed, Storing, Adding, Merging, Goto,
       Job, Control, OpAt
  <1>8. ASSUME NEW p \in Procs, Tidy(p) PROVE UnfiledSteady
    BY <1>8, <1>t DEF Tidy, UnfiledSteady, Filed, Storing, Adding, Merging, Goto, Job, meta,
       Control, OpAt
  <1>9. ASSUME NEW p \in Procs, Publish(p) PROVE UnfiledSteady
    <2>1. /\ \A q \in Procs : q # p => pc'[q] = pc[q] /\ job'[q] = job[q]
          /\ pc[p] = "publish" /\ job'[p].op = job[p].op /\ job'[p].doc = job[p].doc
          /\ pc'[p] \in {"freepages", "tidy"}
      BY <1>9, <1>t DEF Publish, Goto, Job
    <2>2. \A q \in Procs : q # p => (Filed(q)' <=> Filed(q))
      BY <2>1 DEF Filed, Storing, Adding, Merging
    <2>3. Storing(p)' => Filed(p)' BY <2>1 DEF Filed, Storing, Adding, Merging
    <2> QED BY <2>1, <2>2, <2>3 DEF UnfiledSteady, Storing
  <1>10. ASSUME NEW p \in Procs, MakeRoom(p) PROVE UnfiledSteady
    BY <1>10, <1>t DEF MakeRoom, UnfiledSteady, Filed, Storing, Adding, Merging, Goto, Job,
       meta, Control, OpAt
  <1>11. ASSUME NEW p \in Procs, MergeForRoom(p) PROVE UnfiledSteady
    BY <1>11, <1>t DEF MergeForRoom, UnfiledSteady, Filed, Storing, Adding, Merging, Goto, Job,
       meta, Control, OpAt
  <1>12. ASSUME NEW p \in Procs, Lock(p) PROVE UnfiledSteady
    BY <1>12, <1>t DEF Lock, UnfiledSteady, Filed, Storing, Adding, Merging, Goto, Job, meta,
       Control, OpAt
  <1>13. ASSUME NEW p \in Procs, Seal(p) PROVE UnfiledSteady
    <2>1. /\ \A q \in Procs : q # p => pc'[q] = pc[q] /\ job'[q] = job[q]
          /\ pc[p] = "seal" /\ job'[p].op = job[p].op /\ job'[p].doc = job[p].doc
          /\ pc'[p] \notin {"append", "write", "publish", "makeroom"}
      BY <1>13, <1>t, SealLocals
    <2>2. job[p].op # "oversized" BY <2>1 DEF Control, OpAt
    <2>3. \A q \in Procs : Storing(q)' /\ ~Filed(q)' => Storing(q) /\ ~Filed(q)
      BY <2>1, <2>2 DEF Filed, Storing, Adding, Merging
    <2> QED BY <2>1, <2>3 DEF UnfiledSteady
  <1>14. ASSUME NEW p \in Procs, Fold(p) PROVE UnfiledSteady
    BY <1>14, <1>t DEF Fold, UnfiledSteady, Filed, Storing, Adding, Merging, Goto, Job,
       Control, OpAt
  <1>15. ASSUME NEW p \in Procs, FreePages(p) PROVE UnfiledSteady
    BY <1>15, <1>t DEF FreePages, UnfiledSteady, Filed, Storing, Adding, Merging, Goto, Job,
       Control, OpAt
  <1>16. ASSUME NEW p \in Procs, MergeSelect(p) PROVE UnfiledSteady
    BY <1>16, <1>t DEF MergeSelect, UnfiledSteady, Filed, Storing, Adding, Merging, Goto, Job,
       meta, Control, OpAt
  <1>17. ASSUME NEW p \in Procs, MergeStream(p) PROVE UnfiledSteady
    BY <1>17, <1>t DEF MergeStream, UnfiledSteady, Filed, Storing, Adding, Merging, Goto, Job,
       Control, OpAt
  <1>18. ASSUME NEW p \in Procs, MergeSwap(p) PROVE UnfiledSteady
    BY <1>18, <1>t DEF MergeSwap, UnfiledSteady, Filed, Storing, Adding, Merging, Goto, Job,
       Control, OpAt
  <1>19. ASSUME NEW p \in Procs, FreeInputs(p) PROVE UnfiledSteady
    BY <1>19, <1>t DEF FreeInputs, UnfiledSteady, Filed, Storing, Adding, Merging, Goto, Job,
       Control, OpAt
  <1>20. ASSUME NEW p \in Procs, MergeReturn(p) PROVE UnfiledSteady
    BY <1>20, <1>t DEF MergeReturn, UnfiledSteady, Filed, Storing, Adding, Merging, Goto, Job,
       meta, AfterFlush, Control, OpAt
  <1>21. ASSUME NEW p \in Procs, Unlock(p) PROVE UnfiledSteady
    BY <1>21, <1>t DEF Unlock, UnfiledSteady, Filed, Storing, Adding, Merging, Goto, Job, meta,
       Control, OpAt
  <1>22. ASSUME NEW p \in Procs, Vacuum(p) PROVE UnfiledSteady
    BY <1>22, <1>t DEF Vacuum, UnfiledSteady, Filed, Storing, Adding, Merging, Goto, Job, meta,
       Control, IdleClean, IdleJob
  <1>23. ASSUME NEW p \in Procs, FtsMerge(p) PROVE UnfiledSteady
    BY <1>23, <1>t DEF FtsMerge, UnfiledSteady, Filed, Storing, Adding, Merging, Goto, Job,
       meta, Control, IdleClean, IdleJob
  <1>24. ASSUME NEW p \in Procs, BulkSnapshot(p) PROVE UnfiledSteady
    BY <1>24, <1>t DEF BulkSnapshot, UnfiledSteady, Filed, Storing, Adding, Merging, Goto, Job,
       meta
  <1>25. ASSUME NEW p \in Procs, BulkSegment(p) PROVE UnfiledSteady
    BY <1>25, <1>t DEF BulkSegment, UnfiledSteady, Filed, Storing, Adding, Merging, Goto, Job
  <1>26. ASSUME NEW p \in Procs, BulkDone(p) PROVE UnfiledSteady
    BY <1>26, <1>t DEF BulkDone, UnfiledSteady, Filed, Storing, Adding, Merging, Goto, Job,
       meta
  <1>27. ASSUME NEW p \in Procs, Reclaim(p) PROVE UnfiledSteady
    BY <1>27, <1>t DEF Reclaim, UnfiledSteady, Filed, Storing, Adding, Merging, Goto, Job, meta
  <1> QED BY <1>1, <1>2, <1>3, <1>4, <1>5, <1>6, <1>7, <1>8, <1>9, <1>10, <1>11, <1>12, <1>13,
     <1>14, <1>15, <1>16, <1>17, <1>18, <1>19, <1>20, <1>21, <1>22, <1>23, <1>24, <1>25, <1>26,
     <1>27
       DEF Next, Work, Serve, Continue, Insert, Flush, AddSegment, Merge, BulkDelete, Refuse

LEMMA MeantIn ==
    ASSUME TypeInv, Owners, NEW p \in Procs, pc[p] = "publish", Control
    PROVE  Meant(p) \subseteq Docs \ Blank
  <1>t. page \in [Pages -> SUBSET Docs] BY DEF TypeInv, TypeOK
  <1>1. CASE job[p].op = "oversized"
    <2>1. Storing(p) BY <1>1 DEF Storing
    <2>2. job[p].doc \in Docs /\ job[p].doc \in Oversized BY <1>1, <2>1 DEF Owners, DocOwned
    <2> QED BY <1>1, <2>2, DocsAssumption DEF Meant
  <1>2. CASE job[p].op # "oversized"
    <2>1. SealedDocs(p) \subseteq Docs BY <1>t DEF SealedDocs, SealedPages
    <2> QED BY <1>2, <2>1 DEF Meant
  <1> QED BY <1>1, <1>2

\* What a publish puts into the directory was in none of its segments.
LEMMA MeantNew ==
    ASSUME UniqueInv, NEW p \in Procs, Publish(p)
    PROVE  Meant(p) \cap SegDocs = {} /\ Meant(p) \cap PendingDocs' = {}
  <1> USE DEF UniqueInv, StoredInv, WriteInv, ListInv, SegmentsInv
  <1>1. pc[p] = "publish" BY DEF Publish, Goto
  <1>2. Meant(p) \subseteq Docs \ Blank BY <1>1, MeantIn
  <1>3. CASE job[p].op = "oversized"
    <2>1. Storing(p) /\ ~Filed(p) BY <1>1, <1>3 DEF Storing, Filed, Adding
    <2>2. job[p].doc \notin Indexed BY <2>1 DEF Fresh
    <2>3. Meant(p) = {job[p].doc} BY <1>3 DEF Meant
    <2>4. job[p].doc \notin PendingDocs /\ job[p].doc \notin SegDocs
      BY <1>2, <2>2, <2>3, InIndexed
    <2>5. PendingDocs' = PendingDocs BY <1>3, StepPublishList
    <2> QED BY <2>3, <2>4, <2>5
  <1>4. CASE job[p].op # "oversized"
    <2>1. PendingDocs = SealedDocs(p) \cup PendingDocs' /\ SealedDocs(p) \cap PendingDocs' = {}
      BY <1>4, StepPublishList
    <2> QED BY <1>4, <2>1 DEF Meant, PendingApart
  <1> QED BY <1>3, <1>4

LEMMA StepFresh == UniqueInv /\ Next => Fresh'
  <1> SUFFICES ASSUME UniqueInv, Next, NEW p \in Procs, Storing(p)', ~Filed(p)'
      PROVE job'[p].doc \notin Indexed'
    BY DEF Fresh
  <1> USE DEF UniqueInv, StoredInv, WriteInv, ListInv, SegmentsInv
  <1>t. pc \in [Procs -> Points] /\ job \in [Procs -> Job] BY DEF TypeInv, TypeOK
  <1>1. CASE HeapInsert(p, job'[p].doc) /\ job'[p].doc \in Docs
    <2> DEFINE d == job'[p].doc
    <2>1. heap[d] = "absent" /\ heap' = [heap EXCEPT ![d] = "inserting"]
      BY <1>1 DEF HeapInsert
    <2>2. d \notin Indexed BY <2>1 DEF IndexedKnown, Present
    <2>3. heap' # heap BY <1>1, <2>1 DEF TypeInv, TypeOK
    <2>4. \A q \in Procs : ~Enters(q) BY <2>3, EntersStoring
    <2> QED BY <2>2, <2>4, StepIndexed DEF Leaves
  <1>2. CASE Storing(p) /\ ~Filed(p) /\ job'[p].doc = job[p].doc
    <2>1. job[p].doc \notin Indexed BY <1>2 DEF Fresh
    <2>2. ASSUME NEW q \in Procs, Enters(q) PROVE job[p].doc \notin Indexed'
      <3>1. q # p
        <4>1. AppendPending(q) => pc'[q] \in {"tryflush", "commit"} /\ job'[q].op = "insert"
          BY <1>t DEF AppendPending, Goto, Control, OpAt
        <4>2. Publish(q) => pc'[q] \notin {"append", "write", "publish", "makeroom",
                                           "select", "stream", "swap", "freeinputs"}
          BY <1>t DEF Publish, Goto
        <4> QED BY <2>2, <4>1, <4>2 DEF Enters, Filed, Storing, Adding, Merging
      <3>2. Storing(q) /\ job[q].doc \in Docs BY <2>2, EntersStoring
      <3>3. job[p].doc # job[q].doc
        BY <1>2, <3>1, <3>2, NoneAssumption DEF Owners, OneOwner
      <3> QED BY <2>1, <2>2, <3>3 DEF Enters
    <2> QED BY <1>2, <2>1, <2>2, StepIndexed DEF Leaves
  <1> QED BY <1>1, <1>2, StepUnfiledSteady DEF UnfiledSteady

LEMMA StepSegsApart == UniqueInv /\ Next => SegsApart'
  <1> SUFFICES ASSUME UniqueInv, Next PROVE SegsApart' OBVIOUS
  <1> USE DEF UniqueInv, StoredInv, WriteInv, ListInv, SegmentsInv
  <1>1. ASSUME NEW p \in Procs, Publish(p) PROVE SegsApart'
    <2> DEFINE o == job[p].out
    <2>1. /\ o \notin Dir /\ Dir' = Dir \cup {o} /\ LiveDocs(disk[o]) = Meant(p) /\ disk' = disk
      BY <1>1, PublishDir
    <2>2. Meant(p) \cap SegDocs = {} BY <1>1, MeantNew
    <2>3. \A i \in Dir : LiveDocs(disk[o]) \cap LiveDocs(disk[i]) = {}
      BY <2>1, <2>2 DEF SegDocs
    <2>4. \A i \in Dir' : LiveDocs(disk[i])' = LiveDocs(disk[i]) BY <2>1 DEF LiveDocs
    <2> HIDE DEF o
    <2> QED BY <2>1, <2>3, <2>4 DEF SegsApart
  <1>2. ASSUME NEW p \in Procs, MergeSwap(p) PROVE SegsApart'
    <2> DEFINE kept == Dir \ Inputs(p)
    <2> DEFINE m == job[p].mout
    <2>1. Dir' = kept \cup {m} BY <1>2, SwapDir
    <2>2. pc[p] = "swap" /\ disk' = disk BY <1>2 DEF MergeSwap, Goto
    <2>3. Inputs(p) \subseteq Dir /\ \A i \in Inputs(p) : disk[i] = job[p].inp[i]
      BY <2>2 DEF InputsKept, AllFound, Inputs, Dir
    <2>4. LiveDocs(disk[m]) = MergedDocs(p)
      <3>1. disk[m] = [docs |-> MergedDocs(p), dead |-> {}] BY <2>2 DEF ContentsInv, MoutHolds
      <3> QED BY <3>1 DEF LiveDocs
    <2>5. \A d \in MergedDocs(p) : \E i \in Inputs(p) : d \in LiveDocs(disk[i])
      BY <2>3 DEF MergedDocs
    <2>6. \A k \in kept : LiveDocs(disk[m]) \cap LiveDocs(disk[k]) = {}
      BY <2>3, <2>4, <2>5 DEF SegsApart
    <2>7. \A i \in Dir' : LiveDocs(disk[i])' = LiveDocs(disk[i]) BY <2>2 DEF LiveDocs
    <2> HIDE DEF m
    <2> QED BY <2>1, <2>6, <2>7 DEF SegsApart
  <1>3. ASSUME NEW p \in Procs, BulkSegment(p) PROVE SegsApart'
    <2>1. Dir' = Dir /\ \A k \in Dir : LiveDocs(disk[k])' \subseteq LiveDocs(disk[k])
      BY <1>3, BulkSegDocs
    <2> QED BY <2>1 DEF SegsApart
  <1>4. CASE DirSteady
    <2>1. Dir' = Dir /\ \A i \in Dir : LiveDocs(disk[i])' = LiveDocs(disk[i])
      BY <1>4 DEF DirSteady, Dir, LiveDocs
    <2> QED BY <2>1 DEF SegsApart
  <1> QED BY <1>1, <1>2, <1>3, <1>4, MovesOrSteady DEF DirMoves

LEMMA StepSegDocs ==
    UniqueInv /\ Next => \/ SegDocs' \subseteq SegDocs
                         \/ \E p \in Procs : Publish(p) /\ SegDocs' = SegDocs \cup Meant(p)
  <1> SUFFICES ASSUME UniqueInv, Next, ~\E p \in Procs : Publish(p)
      PROVE SegDocs' \subseteq SegDocs
    BY PublishSegDocs DEF UniqueInv, StoredInv, WriteInv, ListInv, SegmentsInv
  <1> USE DEF UniqueInv, StoredInv, WriteInv, ListInv, SegmentsInv
  <1>1. ASSUME NEW p \in Procs, MergeSwap(p) PROVE SegDocs' = SegDocs BY <1>1, SwapSegDocs
  <1>2. ASSUME NEW p \in Procs, BulkSegment(p) PROVE SegDocs' \subseteq SegDocs
    <2>1. Dir' = Dir /\ \A k \in Dir : LiveDocs(disk[k])' \subseteq LiveDocs(disk[k])
      BY <1>2, BulkSegDocs
    <2> QED BY <2>1 DEF SegDocs
  <1>3. CASE DirSteady
    <2>1. Dir' = Dir /\ \A i \in Dir : LiveDocs(disk[i])' = LiveDocs(disk[i])
      BY <1>3 DEF DirSteady, Dir, LiveDocs
    <2> QED BY <2>1 DEF SegDocs
  <1> QED BY <1>1, <1>2, <1>3, MovesOrSteady DEF DirMoves

LEMMA StepPendingApart == UniqueInv /\ Next => NoBlankSegs' /\ PendingApart'
  <1> SUFFICES ASSUME UniqueInv, Next PROVE NoBlankSegs' /\ PendingApart' OBVIOUS
  <1> USE DEF UniqueInv, StoredInv, WriteInv, ListInv, SegmentsInv
  <1>1. ASSUME NEW p \in Procs, Publish(p) PROVE NoBlankSegs' /\ PendingApart'
    <2>1. SegDocs' = SegDocs \cup Meant(p) BY <1>1, PublishSegDocs
    <2>2. Meant(p) \subseteq Docs \ Blank
      <3>1. pc[p] = "publish" BY <1>1 DEF Publish, Goto
      <3> QED BY <3>1, MeantIn
    <2>3. Meant(p) \cap PendingDocs' = {} BY <1>1, MeantNew
    <2>4. PendingDocs' \subseteq PendingDocs BY <1>1, StepPublishList
    <2> QED BY <2>1, <2>2, <2>3, <2>4 DEF NoBlankSegs, PendingApart
  <1>2. CASE ~\E p \in Procs : Publish(p)
    <2>1. SegDocs' \subseteq SegDocs BY <1>2, StepSegDocs
    <2>2. ASSUME NEW p \in Procs, AppendPending(p) PROVE PendingApart'
      <3>1. PendingDocs' = PendingDocs \cup {job[p].doc} BY <2>2, StepAppend
      <3>2. Storing(p) /\ ~Filed(p)
        BY <2>2 DEF AppendPending, Goto, Control, OpAt, Storing, Filed
      <3>3. job[p].doc \notin Indexed BY <3>2 DEF Fresh
      <3>4. job[p].doc \notin SegDocs BY <3>3, InIndexed DEF NoBlankSegs
      <3> QED BY <2>1, <3>1, <3>4 DEF PendingApart
    <2>3. CASE PendingDocs' = PendingDocs BY <2>1, <2>3 DEF NoBlankSegs, PendingApart
    <2> QED BY <1>2, <2>1, <2>2, <2>3, PendingMoves DEF NoBlankSegs
  <1> QED BY <1>1, <1>2

-----------------------------------------------------------------------------
LEMMA InitUniqueInv == Init => UniqueInv
  <1> SUFFICES ASSUME Init PROVE UniqueInv OBVIOUS
  <1>1. Dir = {} BY DEF Init, Dir
  <1>2. SegDocs = {} BY <1>1 DEF SegDocs
  <1>3. Fresh BY DEF Init, IdleJob, Fresh, Storing
  <1> QED BY <1>1, <1>2, <1>3, InitStoredInv
       DEF UniqueInv, SegsApart, NoBlankSegs, PendingApart

LEMMA StepUniqueInv == UniqueInv /\ [Next]_vars => UniqueInv'
  <1>1. ASSUME UniqueInv, UNCHANGED vars
        PROVE  SegsApart' /\ NoBlankSegs' /\ PendingApart' /\ Fresh'
    <2> USE <1>1 DEF vars, meta
    <2>1. Dir' = Dir /\ PendingDocs' = PendingDocs /\ Indexed' = Indexed
      BY DEF Dir, PendingDocs, Indexed, PlacesOf, LiveDocs
    <2>2. SegDocs' = SegDocs BY <2>1 DEF SegDocs, LiveDocs
    <2>3. SegsApart' BY <2>1 DEF UniqueInv, SegsApart, LiveDocs
    <2>4. NoBlankSegs' /\ PendingApart' BY <2>1, <2>2 DEF UniqueInv, NoBlankSegs, PendingApart
    <2>5. Fresh' BY <2>1 DEF UniqueInv, Fresh, Storing, Filed, Adding, Merging
    <2> QED BY <2>3, <2>4, <2>5
  <1>2. ASSUME UniqueInv, Next PROVE SegsApart' /\ NoBlankSegs' /\ PendingApart' /\ Fresh'
    BY <1>2, StepSegsApart, StepPendingApart, StepFresh
  <1> QED BY <1>1, <1>2, StepStoredInv DEF UniqueInv

LEMMA OnePlace ==
    ASSUME UniqueInv, NEW d \in Indexed
    PROVE  \A k, l \in PlacesOf(d) : k = l
  <1> USE DEF UniqueInv, StoredInv, WriteInv, ListInv, SegmentsInv
  <1> DEFINE P == {k \in Pages : head # 0 /\ k >= head /\ d \in page[k]}
  <1> DEFINE S == {i \in Dir : d \in LiveDocs(disk[i])}
  <1>1. \A k, l \in P : k = l BY DEF PendingInv, OnePage
  <1>2. \A i, j \in S : i = j BY DEF SegsApart
  <1>3. P # {} => d \in PendingDocs BY InPending
  <1>4. S # {} => d \in SegDocs BY DEF SegDocs
  <1>5. P = {} \/ S = {} BY <1>3, <1>4 DEF PendingApart
  <1>6. PlacesOf(d) = P \cup S BY DEF PlacesOf
  <1> HIDE DEF P, S
  <1> QED BY <1>1, <1>2, <1>5, <1>6

\* No heap slot is reported twice, by whatever part of the index: not while a
\* flush or a merge moves documents, nor after a failure between its steps, nor
\* by the old and the new tuple of a reused slot.
THEOREM NothingIsTwice == Spec => []NoDuplicate
  <1>1. ASSUME UniqueInv PROVE NoDuplicate
    <2> SUFFICES ASSUME NEW d \in Indexed, NEW e \in Indexed, TidOf[d] = TidOf[e]
        PROVE d = e /\ Cardinality(PlacesOf(d)) = 1
      BY DEF NoDuplicate
    <2>1. d \in Docs /\ e \in Docs /\ PlacesOf(d) # {} BY DEF Indexed
    <2>2. d = e
      BY <1>1, <2>1 DEF UniqueInv, StoredInv, IndexedKnown, HeapInv, SlotOnce
    <2>3. PICK k \in PlacesOf(d) : TRUE BY <2>1
    <2>4. PlacesOf(d) = {k} BY <1>1, <2>3, OnePlace
    <2> QED BY <2>2, <2>4, FS_Singleton
  <1> QED BY <1>1, InitUniqueInv, StepUniqueInv, PTL DEF Spec

-----------------------------------------------------------------------------
(***************************************************************************)
(* The write side implements FtsStore, a plain set of documents: every     *)
(* step of FtsDirectory changes what a scan reports and the heap the way   *)
(* one step of FtsStore does, or changes neither.                          *)
(***************************************************************************)

LEMMA InitStore == Init => Store!Init
  <1> SUFFICES ASSUME Init PROVE Store!Init OBVIOUS
  <1>1. Indexed = {}
    <2>1. PendingDocs = {} /\ Dir = {} BY DEF Init, PendingDocs, Dir
    <2> QED BY <2>1, InIndexed DEF SegDocs
  <1>2. [d \in Docs \ Blank |-> heap[d]] = [d \in Docs \ Blank |-> "absent"] BY DEF Init
  <1> QED BY <1>1, <1>2 DEF Store!Init

\* The steps that change what a scan reports leave the heap alone.
LEMMA EntersStore ==
    ASSUME StoredInv, NEW p \in Procs, Enters(p)
    PROVE  Store!Next \/ UNCHANGED Store!vars
  <1> DEFINE d == job[p].doc
  <1>1. d \in Docs /\ heap[d] = "inserting" /\ heap' = heap BY EntersStoring DEF StoredInv
  <1>2. Indexed' = Indexed \cup ({d} \ Blank) BY DEF Enters
  <1>3. CASE d \in Blank
    <2>1. Indexed' = Indexed BY <1>2, <1>3
    <2> QED BY <1>1, <2>1 DEF Store!vars
  <1>4. CASE d \notin Blank
    <2>1. d \in Docs \ Blank /\ Indexed' = Indexed \cup {d} BY <1>1, <1>2, <1>4
    <2>2. Store!Insert(d) BY <1>1, <2>1 DEF Store!Insert
    <2> QED BY <2>1, <2>2 DEF Store!Next
  <1> QED BY <1>3, <1>4

LEMMA LeavesStore ==
    ASSUME StoredInv, NEW p \in Procs, Leaves(p)
    PROVE  Store!Next
  <1> DEFINE D == Indexed \ Indexed'
  <1>1. heap' = heap BY DEF Leaves, BulkSegment
  <1>2. Indexed' = Indexed \ D BY DEF Leaves
  <1>3. Indexed \subseteq Docs \ Blank BY DEF Indexed
  <1>4. \A d \in D : heap[d] = "dead"
    BY <1>3, VacDocs DEF Leaves, StoredInv, IndexedKnown
  <1>5. D \in SUBSET (Docs \ Blank) BY <1>3
  <1>6. Store!Remove(D) BY <1>1, <1>2, <1>4, <1>5 DEF Store!Remove
  <1> QED BY <1>5, <1>6 DEF Store!Next

\* The steps that change the heap leave what a scan reports alone.
LEMMA HeapStore ==
    ASSUME StoredInv, Next, Indexed' = Indexed
    PROVE  Store!Next \/ UNCHANGED Store!vars
  <1> USE DEF StoredInv
  <1>w. TypeInv /\ Owners /\ Control BY DEF WriteInv, ListInv, SegmentsInv
  <1>t. heap \in [Docs -> {"absent", "inserting", "live", "dead", "gone"}]
    BY <1>w DEF TypeInv, TypeOK
  <1>1. CASE heap' = heap BY <1>1 DEF Store!vars
  <1>2. ASSUME NEW d \in Docs, NEW v \in {"inserting", "live", "dead"}, d \in Blank,
               heap' = [heap EXCEPT ![d] = v]
        PROVE  UNCHANGED Store!vars
    <2>1. [e \in Docs \ Blank |-> heap[e]]' = [e \in Docs \ Blank |-> heap[e]] BY <1>t, <1>2
    <2> QED BY <2>1 DEF Store!vars
  <1>3. ASSUME NEW d \in Docs, NEW v \in {"inserting", "live", "dead"}, d \notin Blank,
               heap' = [heap EXCEPT ![d] = v]
        PROVE  [e \in Docs \ Blank |-> heap[e]]'
                  = [[e \in Docs \ Blank |-> heap[e]] EXCEPT ![d] = v]
    BY <1>t, <1>3
  <1>4. ASSUME NEW d \in Docs, Inserts(d) PROVE Store!Next \/ UNCHANGED Store!vars
    <2>1. CASE d \in Blank BY <1>2, <1>4, <2>1 DEF Inserts
    <2>2. CASE d \notin Blank
      <3>1. Store!Store(d) BY <1>3, <1>4, <2>2 DEF Inserts, SlotFree, Store!Store
      <3> QED BY <2>2, <3>1 DEF Store!Next
    <2> QED BY <2>1, <2>2
  <1>5. ASSUME NEW d \in Docs, Commits(d) PROVE Store!Next \/ UNCHANGED Store!vars
    <2>1. CASE d \in Blank BY <1>2, <1>5, <2>1 DEF Commits
    <2>2. CASE d \notin Blank
      <3>1. PICK p \in Procs : Commit(p) /\ job[p].doc = d BY <1>5 DEF Commits
      <3>2. Filed(p)
        BY <1>w, <3>1 DEF Commit, Goto, Filed, Storing, Adding, Merging, Control, OpAt
      <3>3. d \in Indexed BY <2>2, <3>1, <3>2 DEF Placed
      <3>4. Store!Commit(d) BY <1>3, <1>5, <2>2, <3>3 DEF Commits, Store!Commit
      <3> QED BY <2>2, <3>4 DEF Store!Next
    <2> QED BY <2>1, <2>2
  <1>6. ASSUME NEW d \in Docs, Kills(d) PROVE Store!Next \/ UNCHANGED Store!vars
    <2>1. CASE d \in Blank BY <1>2, <1>6, <2>1 DEF Kills
    <2>2. CASE d \notin Blank
      <3>1. Store!Kill(d) BY <1>3, <1>6, <2>2 DEF Kills, Store!Kill
      <3> QED BY <2>2, <3>1 DEF Store!Next
    <2> QED BY <2>1, <2>2
  <1>7. ASSUME NEW p \in Procs, Reclaims(p) PROVE Store!Next
    <2>1. PICK D \in SUBSET (Docs \ Blank) :
                D = {d \in Docs \ Blank : heap[d] = "dead" /\ TidOf[d] \in job[p].vac}
      OBVIOUS
    <2> DEFINE old == [d \in Docs \ Blank |-> heap[d]]
    <2>2. pc[p] = "reclaim" BY <1>7 DEF Reclaims, Reclaim, Goto
    <2>3. \A d \in D : old[d] = "dead" /\ d \notin Indexed BY <2>1, <2>2 DEF VacOut
    <2>4. old' = [e \in Docs \ Blank |-> IF e \in D THEN "gone" ELSE old[e]]
      <3>1. old' = [e \in Docs \ Blank |-> heap'[e]] OBVIOUS
      <3>2. \A e \in Docs \ Blank : heap'[e] = IF e \in D THEN "gone" ELSE old[e]
        BY <1>7, <2>1 DEF Reclaims
      <3> HIDE DEF old
      <3> QED BY <3>1, <3>2
    <2>5. Store!Reclaim(D) BY <2>3, <2>4 DEF Store!Reclaim
    <2> QED BY <2>5 DEF Store!Next
  <1> QED BY <1>1, <1>4, <1>5, <1>6, <1>7, <1>w, HeapChange

LEMMA StepStore == StoredInv /\ [Next]_vars => [Store!Next]_(Store!vars)
  <1> SUFFICES ASSUME StoredInv, [Next]_vars PROVE Store!Next \/ UNCHANGED Store!vars
    OBVIOUS
  <1>1. CASE UNCHANGED vars
    <2>1. Indexed' = Indexed /\ heap' = heap
      BY <1>1 DEF vars, meta, Indexed, PlacesOf, LiveDocs, Dir
    <2> QED BY <2>1 DEF Store!vars
  <1>2. CASE Next BY <1>2, EntersStore, LeavesStore, HeapStore, StepIndexed DEF StoredInv
  <1> QED BY <1>1, <1>2

\* The segments, the pending list and all their maintenance implement a plain
\* set of documents, for any documents, slots, backends and bounds: flush and
\* merge are invisible, inserts and removals atomic, and only dead documents
\* leave (bm25_meta_add_segment, bm25_bulkdelete).
THEOREM WritesImplementStore == Spec => ImplementsStore
  <1> QED BY InitStore, StepStore, InitStoredInv, StepStoredInv, PTL
       DEF Spec, ImplementsStore, Store!Spec
=============================================================================
