-------------------------- MODULE FtsAlloc_proofs ---------------------------
(***************************************************************************)
(* Theorems about FtsAlloc, for any backends, scans, chains and bounds,    *)
(* with errors, crashes and skipped pages: no live page is handed out, a   *)
(* scan reads what it read the metapage for, and no page leaks.            *)
(***************************************************************************)
EXTENDS FtsAlloc, FiniteSetTheorems, WellFoundedInduction, SequenceTheorems, TLAPS

Building(w) == job[w].pc \in {"seal", "build"}

\* What an idle writer remembers, and which fields of a record mean anything
\* where, when n chains have been begun.
Fits(r, n) ==
    /\ r.pc = "idle" => r = Idle
    /\ r.gone # {} => r.pc = "free"
    /\ r.blk # Nothing =>
          r.pc = "free" \/ (r.pc \in {"seal", "build"} /\ r.at = "try" /\ r.want > 0)
    /\ r.pc \in {"seal", "build"} => r.id \in 1 .. n /\ (r.at = "try" => r.blk # Nothing)
    /\ r.xid # 0 => r.pc = "build" /\ r.stage \in {"append", "oversized"} /\ r.in = {}
    /\ r.exclusive => r.pc # "idle" /\ r.xid = 0

Points == \A w \in Writers : Fits(job[w], nchain)

\* The pages a writer has in mind are pages of the file.
InFile ==
    \A w \in Writers :
        job[w].list \subseteq 1 .. nblocks /\ job[w].gone \subseteq 1 .. nblocks
            /\ job[w].blk <= nblocks

\* The maintenance lock has one holder.
OneMaintainer == \A v, w \in Writers : Maintaining(v) /\ Maintaining(w) => v = w

\* Nobody scans beside fts_vacuum.
ExclusiveAlone == Exclusive => Scanning = {}

\* A chain that is being written is led to from nowhere and has one writer.
IdsApart ==
    \A w \in Writers : Building(w) =>
        /\ job[w].id \notin dir
        /\ \A c \in Scans : job[w].id \notin scan[c].dir
        /\ \A v \in Writers : Building(v) /\ v # w => job[v].id # job[w].id

ChainsFresh == \A i \in Chain : i > nchain => chain[i] = {}

ScanPast ==
    \A c \in Scans :
        /\ scan[c].dir \subseteq 1 .. nchain /\ scan[c].xmin <= xid
        /\ scan[c].xmin = 0 => scan[c].dir = {}

\* What a rewrite replaces is in the directory until it is replaced.
InKept == \A w \in Writers : job[w].pc = "build" => job[w].in \subseteq dir

\* The pages about to be freed are still live and belong to no chain that is
\* published or being written.
GoneApart ==
    \A w \in Writers : \A b \in job[w].gone :
        /\ page[b].kind = "live"
        /\ \A i \in dir : b \notin chain[i]
        /\ \A v \in Writers : Building(v) => b \notin chain[job[v].id]

\* A page a scan may still read is live, or was freed after the scan's snapshot.
Gated ==
    \A c \in Scanning : \A i \in scan[c].dir : \A b \in chain[i] :
        /\ b <= nblocks /\ page[b].own = i
        /\ \/ page[b].kind = "live"
           \/ page[b].kind = "freed" /\ scan[c].xmin <= page[b].stamp

Scope == Points /\ InFile /\ OneMaintainer /\ ExclusiveAlone
Chains == IdsApart /\ ChainsFresh /\ ScanPast /\ InKept
Contents == DirectoryIntact /\ OutputIntact /\ GoneApart /\ Gated
AllocInv == TypeOK /\ Scope /\ Chains /\ Contents /\ Accounted
-----------------------------------------------------------------------------
(* Facts about the operators. *)

\* Min, which the horizon and the truncation are defined with, is the least
\* element of any set of natural numbers that has one.
LEMMA LeastNat ==
    ASSUME NEW S \in SUBSET Nat, S # {}
    PROVE  Min(S) \in S /\ \A y \in S : Min(S) <= y
  <1> DEFINE R == OpToRel(<, Nat)
  <1>1. \A x, y \in Nat : y < x => <<y, x>> \in R
    BY DEF OpToRel
  <1>2. IsWellFoundedOn(R, Nat) BY NatLessThanWellFounded
  <1> HIDE DEF R
  <1>3. PICK x \in S : \A y \in S : <<y, x>> \notin R
    BY <1>2, WFMin
  <1>4. ASSUME NEW y \in S PROVE x <= y
    <2>1. x \in Nat /\ y \in Nat OBVIOUS
    <2>2. ~ (y < x) BY <1>1, <1>3, <2>1
    <2> QED BY <2>1, <2>2
  <1> QED BY <1>4 DEF Min

LEMMA LeastBlock ==
    ASSUME NEW L \in SUBSET Block, L # {}
    PROVE  Min(L) \in L
  BY LeastNat, AllocAssumption DEF Block

\* The horizon is behind every running snapshot, and never ahead of the next xid.
LEMMA HorizonBehind ==
    ASSUME TypeOK
    PROVE  \A c \in Scanning : Horizon <= scan[c].xmin /\ Horizon \in Nat
  <1> DEFINE H == {xid} \cup Running \cup {scan[c].xmin : c \in Scanning}
  <1>1. H \subseteq Nat /\ H # {} BY DEF TypeOK, Running, Scanning, Job
  <1>2. Min(H) \in H /\ \A y \in H : Min(H) <= y BY <1>1, LeastNat
  <1> QED BY <1>1, <1>2 DEF Horizon

\* A snapshot begins at or before the next xid.
LEMMA SnapshotBehind ==
    ASSUME TypeOK
    PROVE  Min({xid} \cup Running) \in Nat /\ Min({xid} \cup Running) <= xid
  <1> DEFINE H == {xid} \cup Running
  <1>1. H \subseteq Nat /\ xid \in H BY DEF TypeOK, Running, Job
  <1>2. Min(H) \in H /\ \A y \in H : Min(H) <= y BY <1>1, LeastNat
  <1> QED BY <1>1, <1>2

LEMMA TailStart ==
    ASSUME TypeOK
    PROVE  FreeTailStart \in 0 .. nblocks /\ (FreeTailStart + 1) .. nblocks \subseteq fsm
  <1> DEFINE T == {t \in 0 .. nblocks : (t + 1) .. nblocks \subseteq fsm}
  <1>1. T \subseteq Nat /\ nblocks \in T BY DEF TypeOK
  <1>2. Min(T) \in T BY <1>1, LeastNat
  <1> QED BY <1>2 DEF FreeTailStart

\* A chain of a stage has at most as many pages as there are blocks.
LEMMA PagesBounded ==
    ASSUME TypeOK, NEW S \in SUBSET Chain
    PROVE  /\ Pages(S) \in SUBSET Block
           /\ Cardinality(Pages(S)) \in 0 .. MaxBlock
           /\ 1 .. Max({1, Cardinality(Pages(S))}) \subseteq 1 .. MaxBlock
  <1>1. Pages(S) \in SUBSET Block BY DEF Pages, TypeOK
  <1>2. IsFiniteSet(Block) /\ Cardinality(Block) = MaxBlock
    BY FS_Interval, AllocAssumption DEF Block
  <1>3. Cardinality(Pages(S)) \in 0 .. MaxBlock
    BY <1>1, <1>2, FS_Subset, FS_CardinalityType, AllocAssumption
  <1>4. Max({1, Cardinality(Pages(S))}) \in 1 .. MaxBlock
    <2>1. CASE Cardinality(Pages(S)) <= 1
      <3>1. 1 >= Cardinality(Pages(S)) /\ 1 >= 1 BY <2>1, <1>3
      <3> QED BY <3>1, <1>3, AllocAssumption DEF Max
    <2>2. CASE Cardinality(Pages(S)) > 1
      <3>1. Cardinality(Pages(S)) >= 1 /\ Cardinality(Pages(S)) >= Cardinality(Pages(S)) BY <2>2, <1>3
      <3> QED BY <3>1, <1>3, AllocAssumption DEF Max
    <2> QED BY <2>1, <2>2, <1>3
  <1> QED BY <1>1, <1>3, <1>4, AllocAssumption

LEMMA JobTypes ==
    /\ Idle \in Job
    /\ \A op \in DOMAIN Program : Program[op] \in Seq(Stages)
    /\ \A r \in Job : r.todo # <<>> => Head(r.todo) \in Stages /\ Tail(r.todo) \in Seq(Stages)
    /\ \A r \in Job : Leveled \o r.todo \in Seq(Stages)
  <1>1. Leveled \in Seq(Stages) BY DEF Leveled, Stages
  <1>2. Idle \in Job
    <2>1. <<>> \in Seq(Stages) OBVIOUS
    <2> QED BY <2>1, AllocAssumption DEF Idle, Job, Nothing
  <1>3. \A op \in DOMAIN Program : Program[op] \in Seq(Stages)
    <2>1. <<"flush">> \o Leveled \o <<"cut", "pack", "cut">> \in Seq(Stages)
      <3>1. <<"flush">> \in Seq(Stages) /\ <<"cut", "pack", "cut">> \in Seq(Stages) BY DEF Stages
      <3> QED BY <3>1, <1>1, ConcatProperties
    <2>2. <<"flush", "tombs">> \in Seq(Stages) BY DEF Stages
    <2>3. <<"flush", "collapse">> \in Seq(Stages) BY DEF Stages
    <2>4. <<"flush", "pack", "cut", "vacate", "pack", "cut">> \in Seq(Stages) BY DEF Stages
    <2>5. DOMAIN Program = {"bulkdelete", "vacuumcleanup", "fts_merge", "fts_vacuum"}
      BY DEF Program
    <2>6. Program["vacuumcleanup"] = <<"flush">> \o Leveled \o <<"cut", "pack", "cut">>
      BY DEF Program
    <2>7. /\ Program["bulkdelete"] = <<"flush", "tombs">>
          /\ Program["fts_merge"] = <<"flush", "collapse">>
          /\ Program["fts_vacuum"] = <<"flush", "pack", "cut", "vacate", "pack", "cut">>
      BY DEF Program
    <2> QED BY <2>1, <2>2, <2>3, <2>4, <2>5, <2>6, <2>7
  <1>4. \A r \in Job : r.todo \in Seq(Stages) BY DEF Job
  <1>5. \A r \in Job : r.todo # <<>> => Head(r.todo) \in Stages /\ Tail(r.todo) \in Seq(Stages)
    BY <1>4, HeadTailProperties
  <1>6. \A r \in Job : Leveled \o r.todo \in Seq(Stages)
    BY <1>1, <1>4, ConcatProperties
  <1> QED BY <1>2, <1>3, <1>5, <1>6

\* What is reusable was never live.
LEMMA NotLive ==
    ASSUME NEW w, NEW b, Recyclable(w, b)
    PROVE  page[b].kind # "live"
  BY DEF Recyclable

-----------------------------------------------------------------------------
(* The shape of the state, step by step. *)

LEMMA SetJob ==
    ASSUME TypeOK, NEW w \in Writers, NEW r \in Job, job' = [job EXCEPT ![w] = r]
    PROVE  job' \in [Writers -> Job]
  BY DEF TypeOK

LEMMA BeginType ==
    ASSUME TypeOK, nchain < MaxChain, NEW r \in Job, NEW n \in 1 .. MaxBlock,
           NEW pc \in {"seal", "build"}
    PROVE  Begin(r, pc, n) \in Job
  <1> DEFINE i == nchain + 1
  <1>1. i \in Chain BY AllocAssumption DEF TypeOK, Chain
  <1>2. n \in 0 .. MaxBlock BY AllocAssumption
  <1>3. Begin(r, pc, n) = [r EXCEPT !.pc = pc, !.id = i, !.want = n, !.at = "start"]
    BY DEF Begin
  <1> HIDE DEF i
  <1>4. [r EXCEPT !.pc = pc, !.id = i, !.want = n, !.at = "start"] \in Job
    BY <1>1, <1>2 DEF Job
  <1> QED BY <1>3, <1>4

LEMMA TakeType ==
    ASSUME TypeOK, Points, NEW w \in Writers, Writing(w), NEW b \in Block,
           NEW list \in SUBSET Block, Take(w, b, list)
    PROVE  /\ page' \in [Block -> Page]
           /\ chain' \in [Chain -> SUBSET Block]
           /\ job' \in [Writers -> Job]
  <1> DEFINE n == job[w].want - 1
             r == [job[w] EXCEPT !.want = n, !.at = "start", !.blk = Nothing, !.list = list]
  <1>1. job[w] \in Job BY DEF TypeOK
  <1>2. job[w].id \in Chain
    BY AllocAssumption DEF Points, Fits, Writing, Chain, TypeOK
  <1>3. n \in 0 .. MaxBlock
    <2>1. job[w].want \in 0 .. MaxBlock BY <1>1 DEF Job
    <2> QED BY <2>1, AllocAssumption DEF Writing
  <1>4. job' = [job EXCEPT ![w] = r] BY DEF Take
  <1>5. page' \in [Block -> Page] /\ chain' \in [Chain -> SUBSET Block]
    <2>1. [kind |-> "live", own |-> job[w].id, stamp |-> 0] \in Page BY <1>2 DEF Page
    <2> QED BY <1>2, <2>1 DEF Take, TypeOK
  <1>6. r \in Job
    <2> HIDE DEF n
    <2> QED BY <1>1, <1>3 DEF Job
  <1> QED BY <1>4, <1>5, <1>6, SetJob

LEMMA WriteType ==
    ASSUME TypeOK, Points, InFile, lost = {}, NEW w \in Writers,
           FromList(w) \/ FromFsm(w) \/ Try(w) \/ Busy(w) \/ Extend(w)
    PROVE  TypeOK'
  <1> USE AllocAssumption
  <1>j. job[w] \in Job BY DEF TypeOK
  <1>n. nblocks \in Nat /\ 1 .. nblocks \subseteq Block BY DEF TypeOK, Block
  <1>1. ASSUME FromList(w) PROVE TypeOK'
    <2> DEFINE b == Min(job[w].list)
               rest == job[w].list \ {b}
    <2>1. job[w].list \in SUBSET Block BY <1>j DEF Job
    <2>2. b \in job[w].list BY <1>1, <2>1, LeastBlock DEF FromList
    <2>3. b \in Block /\ b \in 1 .. nblocks /\ rest \in SUBSET Block
      BY <2>1, <2>2 DEF InFile
    <2>4. fsm' \subseteq 1 .. nblocks BY <1>1, <2>3 DEF FromList, TypeOK
    <2> HIDE DEF b
    <2>5. CASE Recyclable(w, b)
      <3>1. Take(w, b, rest) BY <1>1, <2>5 DEF FromList, b
      <3>2. Writing(w) BY <1>1 DEF FromList
      <3>3. /\ page' \in [Block -> Page]
            /\ chain' \in [Chain -> SUBSET Block]
            /\ job' \in [Writers -> Job]
        BY <2>3, <3>1, <3>2, TakeType
      <3> QED BY <1>1, <2>4, <3>3 DEF FromList, TypeOK
    <2>6. CASE ~ Recyclable(w, b)
      <3>1. [job[w] EXCEPT !.list = rest] \in Job BY <1>j, <2>3 DEF Job
      <3>2. job' = [job EXCEPT ![w] = [job[w] EXCEPT !.list = rest]]
        BY <1>1, <2>6 DEF FromList, b
      <3>3. UNCHANGED <<page, chain>> BY <1>1, <2>6 DEF FromList, b
      <3>4. job' \in [Writers -> Job] BY <3>1, <3>2, SetJob
      <3> QED BY <1>1, <2>4, <3>3, <3>4 DEF FromList, TypeOK
    <2> QED BY <2>5, <2>6
  <1>2. ASSUME FromFsm(w) PROVE TypeOK'
    <2>1. PICK b \in fsm : fsm' = fsm \ {b} /\ job' = [job EXCEPT ![w].at = "try", ![w].blk = b]
      BY <1>2 DEF FromFsm
    <2>2. b \in Block BY <1>n DEF TypeOK
    <2>3. [job[w] EXCEPT !.at = "try", !.blk = b] \in Job BY <1>j, <2>2 DEF Job
    <2>4. job' = [job EXCEPT ![w] = [job[w] EXCEPT !.at = "try", !.blk = b]] BY <2>1
    <2>5. job' \in [Writers -> Job] BY <2>3, <2>4, SetJob
    <2> QED BY <1>2, <2>1, <2>5 DEF FromFsm, TypeOK
  <1>3. ASSUME Try(w) PROVE TypeOK'
    <2>1. job[w].blk \in Block /\ job[w].blk # Nothing
      BY <1>3, <1>j DEF Try, Writing, Points, Fits, Job
    <2>2. job[w].blk \in 1 .. nblocks BY <2>1, <1>n DEF InFile, Block
    <2>3. fsm' \subseteq 1 .. nblocks BY <1>3, <2>2 DEF Try, TypeOK
    <2>4. CASE Recyclable(w, job[w].blk)
      <3>1. Take(w, job[w].blk, {}) /\ Writing(w) BY <1>3, <2>4 DEF Try
      <3>2. {} \in SUBSET Block OBVIOUS
      <3>3. /\ page' \in [Block -> Page]
            /\ chain' \in [Chain -> SUBSET Block]
            /\ job' \in [Writers -> Job]
        BY <2>1, <3>1, <3>2, TakeType
      <3> QED BY <1>3, <2>3, <3>3 DEF Try, TypeOK
    <2>5. CASE ~ Recyclable(w, job[w].blk)
      <3>1. [job[w] EXCEPT !.at = "full", !.blk = Nothing] \in Job BY <1>j DEF Job
      <3>2. job' = [job EXCEPT ![w] = [job[w] EXCEPT !.at = "full", !.blk = Nothing]]
        BY <1>3, <2>5 DEF Try
      <3>3. job' \in [Writers -> Job] BY <3>1, <3>2, SetJob
      <3>4. UNCHANGED <<page, chain>> BY <1>3, <2>5 DEF Try
      <3> QED BY <1>3, <2>3, <3>3, <3>4 DEF Try, TypeOK
    <2> QED BY <2>4, <2>5
  <1>4. ASSUME Busy(w) PROVE TypeOK'
    <2>1. \/ job' = [job EXCEPT ![w] = [job[w] EXCEPT !.list = @ \ {Min(@)}]]
          \/ job' = [job EXCEPT ![w] = [job[w] EXCEPT !.at = "start", !.blk = Nothing]]
      BY <1>4 DEF Busy
    <2>2. job[w].list \ {Min(job[w].list)} \in SUBSET Block BY <1>j DEF Job
    <2>3. [job[w] EXCEPT !.list = @ \ {Min(@)}] \in Job BY <1>j, <2>2 DEF Job
    <2>4. [job[w] EXCEPT !.at = "start", !.blk = Nothing] \in Job BY <1>j DEF Job
    <2>5. job' \in [Writers -> Job] BY <2>1, <2>3, <2>4, SetJob
    <2> QED BY <1>4, <2>5 DEF Busy, TypeOK
  <1>5. ASSUME Extend(w) PROVE TypeOK'
    <2>1. nblocks + 1 \in Block BY <1>5, <1>n DEF Extend, Block
    <2>2. Take(w, nblocks + 1, {}) /\ Writing(w) BY <1>5 DEF Extend
    <2>3. {} \in SUBSET Block OBVIOUS
    <2>4. /\ page' \in [Block -> Page]
          /\ chain' \in [Chain -> SUBSET Block]
          /\ job' \in [Writers -> Job]
      BY <2>1, <2>2, <2>3, TakeType
    <2>5. nblocks' \in 0 .. MaxBlock /\ 1 .. nblocks \subseteq 1 .. nblocks'
      BY <1>5, <1>n DEF Extend
    <2> QED BY <1>5, <2>4, <2>5 DEF Extend, TypeOK
  <1> QED BY <1>1, <1>2, <1>3, <1>4, <1>5

LEMMA ServeType ==
    ASSUME TypeOK, Points, InFile, lost = {}, NEW w \in Writers,
           \/ FreePage(w) \/ RecordFree(w) \/ Insert(w) \/ Maintain(w) \/ Enter(w)
           \/ Seal(w) \/ Rewrite(w)
    PROVE  TypeOK'
  <1> USE AllocAssumption
  <1>j. job[w] \in Job BY DEF TypeOK
  <1>n. nblocks \in Nat /\ 1 .. nblocks \subseteq Block /\ nchain \in Nat
    BY DEF TypeOK, Block
  <1>6. ASSUME FreePage(w) PROVE TypeOK'
    <2>1. PICK b \in job[w].gone :
             /\ page' = [page EXCEPT ![b].kind = "freed", ![b].stamp = xid]
             /\ job' = [job EXCEPT ![w].gone = @ \ {b}, ![w].blk = b]
      BY <1>6 DEF FreePage
    <2>2. b \in Block /\ job[w].gone \ {b} \in SUBSET Block BY <1>j DEF Job
    <2>3. [job[w] EXCEPT !.gone = @ \ {b}, !.blk = b] \in Job BY <1>j, <2>2 DEF Job
    <2>4. job' = [job EXCEPT ![w] = [job[w] EXCEPT !.gone = @ \ {b}, !.blk = b]] BY <2>1
    <2>5. job' \in [Writers -> Job] BY <2>3, <2>4, SetJob
    <2>6. [page[b] EXCEPT !.kind = "freed", !.stamp = xid] \in Page
      BY <2>2 DEF TypeOK, Page
    <2>7. page' = [page EXCEPT ![b] = [page[b] EXCEPT !.kind = "freed", !.stamp = xid]] BY <2>1
    <2>8. page' \in [Block -> Page] BY <2>6, <2>7 DEF TypeOK
    <2> QED BY <1>6, <2>5, <2>8 DEF FreePage, TypeOK
  <1>7. ASSUME RecordFree(w) PROVE TypeOK'
    <2> DEFINE to == IF job[w].gone = {} THEN "stage" ELSE job[w].pc
    <2>1. job[w].blk \in 1 .. nblocks
      <3>1. job[w].blk \in Block BY <1>7, <1>j DEF RecordFree, Job
      <3> QED BY <3>1, <1>n DEF InFile, Block
    <2>2. job' = [job EXCEPT ![w] = [job[w] EXCEPT !.blk = Nothing, !.pc = to]]
      BY <1>7 DEF RecordFree
    <2>3. to \in {"idle", "stage", "seal", "build", "free"} BY <1>j DEF Job
    <2> HIDE DEF to
    <2>4. [job[w] EXCEPT !.blk = Nothing, !.pc = to] \in Job BY <1>j, <2>3 DEF Job
    <2>5. job' \in [Writers -> Job] BY <2>2, <2>4, SetJob
    <2> QED BY <1>7, <2>1, <2>5 DEF RecordFree, TypeOK
  <1>8. ASSUME Insert(w) PROVE TypeOK'
    <2>1. PICK stage \in {"append", "oversized"} :
             job' = [job EXCEPT ![w] = [Begin(Idle, "build", 1) EXCEPT !.stage = stage, !.xid = xid]]
      BY <1>8 DEF Insert
    <2>2. Begin(Idle, "build", 1) \in Job
      <3>1. Idle \in Job BY JobTypes
      <3>2. nchain < MaxChain BY <1>8 DEF Insert
      <3>3. 1 \in 1 .. MaxBlock BY AllocAssumption
      <3> QED BY <3>1, <3>2, <3>3, BeginType
    <2>3. [Begin(Idle, "build", 1) EXCEPT !.stage = stage, !.xid = xid] \in Job
      <3>1. stage \in Stages /\ xid \in Nat BY DEF Stages, TypeOK
      <3> QED BY <2>2, <3>1 DEF Job
    <2>4. job' \in [Writers -> Job] BY <2>1, <2>3, SetJob
    <2> QED BY <1>8, <1>n, <2>4 DEF Insert, TypeOK
  <1>9. ASSUME Maintain(w) PROVE TypeOK'
    <2>1. PICK op \in Ops :
             job' = [job EXCEPT ![w] = [Idle EXCEPT !.pc = "stage", !.todo = Program[op],
                                                    !.exclusive = (op = "fts_vacuum")]]
      BY <1>9 DEF Maintain
    <2>2. Program[op] \in Seq(Stages) /\ Idle \in Job BY JobTypes
    <2>3. [Idle EXCEPT !.pc = "stage", !.todo = Program[op],
                       !.exclusive = (op = "fts_vacuum")] \in Job
      <3> DEFINE e == (op = "fts_vacuum")
      <3>1. e \in BOOLEAN OBVIOUS
      <3> HIDE DEF e
      <3>2. [Idle EXCEPT !.pc = "stage", !.todo = Program[op], !.exclusive = e] \in Job
        BY <2>2, <3>1 DEF Job
      <3> QED BY <3>2 DEF e
    <2>4. job' \in [Writers -> Job] BY <2>1, <2>3, SetJob
    <2> QED BY <1>9, <2>4 DEF Maintain, TypeOK
  <1>10. ASSUME Enter(w) PROVE TypeOK'
    <2> DEFINE stage == Head(job[w].todo)
               list == ScopeList(stage)
               todo == Tail(job[w].todo)
               r == [job[w] EXCEPT !.stage = stage, !.todo = todo, !.in = {}, !.list = list]
    <2>1. r \in Job
      <3>1. list \in SUBSET Block
        <4>1. fsm \subseteq Block BY <1>n DEF TypeOK
        <4> QED BY <4>1 DEF ScopeList
      <3>2. stage \in Stages /\ todo \in Seq(Stages)
        BY <1>10, <1>j, JobTypes DEF Enter
      <3> HIDE DEF stage, todo, list
      <3> QED BY <1>j, <3>1, <3>2 DEF Job
    <2>2. CASE stage = "flush" /\ pend # {}
      <3>1. /\ nchain < MaxChain /\ nchain' = nchain + 1
            /\ job' = [job EXCEPT ![w] = [Begin(r, "seal", 1) EXCEPT !.todo = Leveled \o @]]
            /\ UNCHANGED <<nblocks, page, fsm, chain, dir, pend, xid, scan, lost, mishaps>>
        BY <1>10, <2>2 DEF Enter
      <3> HIDE DEF r
      <3>2. Begin(r, "seal", 1) \in Job BY <2>1, <3>1, BeginType
      <3>3. [Begin(r, "seal", 1) EXCEPT !.todo = Leveled \o @] \in Job
        <4> DEFINE q == Begin(r, "seal", 1)
        <4>1. q \in Job /\ Leveled \o q.todo \in Seq(Stages) BY <3>2, JobTypes
        <4> HIDE DEF q
        <4>2. [q EXCEPT !.todo = Leveled \o @] \in Job BY <4>1 DEF Job
        <4> QED BY <4>2 DEF q
      <3>4. job' \in [Writers -> Job] BY <3>1, <3>3, SetJob
      <3> QED BY <3>1, <3>4, <1>n DEF TypeOK
    <2>3. CASE ~(stage = "flush" /\ pend # {})
      <3>1. job' = [job EXCEPT ![w] = r] /\ UNCHANGED nchain
        BY <1>10, <2>3 DEF Enter
      <3> HIDE DEF r
      <3>2. job' \in [Writers -> Job] BY <2>1, <3>1, SetJob
      <3> QED BY <1>10, <3>1, <3>2 DEF Enter, TypeOK
    <2> QED BY <2>2, <2>3
  <1>11. ASSUME Seal(w) PROVE TypeOK'
    <2>1. pend \in SUBSET Chain BY DEF Chain, TypeOK
    <2>2. PICK n \in 1 .. Cardinality(Pages(pend)) :
             job' = [job EXCEPT ![w] = [Begin(job[w], "build", n) EXCEPT !.in = pend]]
      BY <1>11 DEF Seal
    <2>3. n \in 1 .. MaxBlock
      <3>1. Cardinality(Pages(pend)) \in 0 .. MaxBlock BY <2>1, PagesBounded
      <3> QED BY <3>1
    <2>4. Begin(job[w], "build", n) \in Job BY <1>11, <1>j, <2>3, BeginType DEF Seal
    <2>5. [Begin(job[w], "build", n) EXCEPT !.in = pend] \in Job BY <2>1, <2>4 DEF Job
    <2>6. job' \in [Writers -> Job] BY <2>2, <2>5, SetJob
    <2>7. job[w].id \in 1 .. nchain BY <1>11 DEF Seal, Points, Fits
    <2> QED BY <1>11, <1>n, <2>6, <2>7 DEF Seal, TypeOK
  <1>12. ASSUME Rewrite(w) PROVE TypeOK'
    <2>0. PICK in \in Inputs(w) : \E n \in 1 .. Max({1, Cardinality(Pages(in))}) :
             job' = [job EXCEPT ![w] = [Begin(job[w], "build", n) EXCEPT !.in = in]]
      BY <1>12 DEF Rewrite
    <2>1. PICK n \in 1 .. Max({1, Cardinality(Pages(in))}) :
             job' = [job EXCEPT ![w] = [Begin(job[w], "build", n) EXCEPT !.in = in]]
      BY <2>0
    <2>2. in \in SUBSET Chain BY DEF Inputs, Segments, Chain, TypeOK
    <2>3. n \in 1 .. MaxBlock BY <2>2, PagesBounded
    <2>4. Begin(job[w], "build", n) \in Job BY <1>12, <1>j, <2>3, BeginType DEF Rewrite
    <2>5. [Begin(job[w], "build", n) EXCEPT !.in = in] \in Job BY <2>2, <2>4 DEF Job
    <2>6. job' \in [Writers -> Job] BY <2>1, <2>5, SetJob
    <2> QED BY <1>12, <1>n, <2>6 DEF Rewrite, TypeOK
  <1> QED BY <1>6, <1>7, <1>8, <1>9, <1>10, <1>11, <1>12

LEMMA EndType ==
    ASSUME TypeOK, Points, InFile, lost = {}, NEW w \in Writers,
           Publish(w) \/ Truncate(w) \/ Finish(w) \/ Abort(w)
    PROVE  TypeOK'
  <1> USE AllocAssumption
  <1>j. job[w] \in Job BY DEF TypeOK
  <1>n. nblocks \in Nat /\ 1 .. nblocks \subseteq Block /\ nchain \in Nat
    BY DEF TypeOK, Block
  <1>13. ASSUME Publish(w) PROVE TypeOK'
    <2>1. job[w].id \in 1 .. nchain BY <1>13 DEF Publish, Points, Fits
    <2>2. CASE job[w].stage \in {"append", "oversized"}
      <3>1. job' = [job EXCEPT ![w] = Idle] BY <1>13, <2>2 DEF Publish
      <3>2. job' \in [Writers -> Job] BY <3>1, SetJob, JobTypes
      <3>3. dir' \subseteq 1 .. nchain /\ pend' \subseteq dir'
        BY <1>13, <2>1, <2>2 DEF Publish, TypeOK
      <3> QED BY <1>13, <3>2, <3>3 DEF Publish, TypeOK
    <2>3. CASE job[w].stage \notin {"append", "oversized"}
      <3>1. PICK out \in SUBSET Chain :
               /\ dir' = (dir \ out) \cup {job[w].id}
               /\ pend' = pend \ out
               /\ job' = [job EXCEPT ![w].pc = IF out = {} THEN "stage" ELSE "free",
                                     ![w].gone = Pages(out)]
        <4>1. pend \in SUBSET Chain BY DEF Chain, TypeOK
        <4>2. job[w].in \in SUBSET Chain BY <1>j DEF Job
        <4> QED BY <1>13, <2>3, <4>1, <4>2 DEF Publish
      <3> DEFINE to == IF out = {} THEN "stage" ELSE "free"
      <3>2. Pages(out) \in SUBSET Block BY PagesBounded
      <3>3. job' = [job EXCEPT ![w] = [job[w] EXCEPT !.pc = to, !.gone = Pages(out)]]
        BY <3>1
      <3>4. to \in {"stage", "free"} OBVIOUS
      <3> HIDE DEF to
      <3>5. [job[w] EXCEPT !.pc = to, !.gone = Pages(out)] \in Job BY <1>j, <3>2, <3>4 DEF Job
      <3>6. job' \in [Writers -> Job] BY <3>3, <3>5, SetJob
      <3>7. dir' \subseteq 1 .. nchain /\ pend' \subseteq dir'
        BY <2>1, <3>1 DEF TypeOK
      <3> QED BY <1>13, <3>6, <3>7 DEF Publish, TypeOK
    <2> QED BY <2>2, <2>3
  <1>14. ASSUME Truncate(w) PROVE TypeOK'
    <2> DEFINE todo == Tail(job[w].todo)
               r == [job[w] EXCEPT !.todo = todo, !.stage = "cut", !.list = {}]
    <2>1. job' \in [Writers -> Job]
      <3>1. todo \in Seq(Stages) /\ "cut" \in Stages
        BY <1>14, <1>j, JobTypes DEF Truncate, Stages
      <3>2. job' = [job EXCEPT ![w] = r] BY <1>14 DEF Truncate
      <3>3. r \in Job
        <4> HIDE DEF todo
        <4> QED BY <1>j, <3>1 DEF Job
      <3> QED BY <3>2, <3>3, SetJob
    <2>2. CASE /\ nblocks' = FreeTailStart /\ fsm' = MapLeft(nblocks')
               /\ page' = [b \in Block |-> IF b > nblocks' THEN New ELSE page[b]]
               /\ lost' = {b \in Pages(dir) : b > nblocks'}
      <3>1. nblocks' \in 0 .. nblocks BY <2>2, TailStart
      <3>2. Pages(dir) \in SUBSET Block
        <4>1. dir \in SUBSET Chain BY DEF Chain, TypeOK
        <4> QED BY <4>1, PagesBounded
      <3>3. fsm' \subseteq 1 .. nblocks' BY <2>2 DEF MapLeft
      <3>4. page' \in [Block -> Page]
        <4>1. New \in Page BY DEF New, Page, Nothing
        <4> QED BY <2>2, <4>1 DEF TypeOK
      <3>5. nblocks' \in 0 .. MaxBlock BY <3>1 DEF TypeOK
      <3>6. lost' \subseteq Block BY <2>2, <3>2
      <3> QED BY <1>14, <2>1, <3>3, <3>4, <3>5, <3>6 DEF Truncate, TypeOK
    <2>3. CASE UNCHANGED <<nblocks, fsm, page, lost>>
      BY <1>14, <2>1, <2>3 DEF Truncate, TypeOK
    <2> QED BY <1>14, <2>2, <2>3 DEF Truncate
  <1>15. ASSUME Finish(w) PROVE TypeOK'
    <2>1. job' \in [Writers -> Job] BY <1>15, JobTypes, SetJob DEF Finish
    <2> QED BY <1>15, <2>1 DEF Finish, TypeOK
  <1>16. ASSUME Abort(w) PROVE TypeOK'
    <2>1. job' \in [Writers -> Job] BY <1>16, JobTypes, SetJob DEF Abort
    <2> QED BY <1>16, <2>1 DEF Abort, TypeOK
  <1> QED BY <1>13, <1>14, <1>15, <1>16

LEMMA ScanType ==
    ASSUME TypeOK, NEW c \in Scans, BeginScan(c) \/ ReadMeta(c) \/ EndScan(c)
    PROVE  TypeOK'
  <1>1. CASE BeginScan(c)
    <2>1. scan' = [scan EXCEPT ![c] = [scan[c] EXCEPT !.xmin = Min({xid} \cup Running)]]
      BY <1>1 DEF BeginScan
    <2>2. [scan[c] EXCEPT !.xmin = Min({xid} \cup Running)] \in [xmin : Nat, dir : SUBSET Chain]
      BY SnapshotBehind DEF TypeOK
    <2> QED BY <1>1, <2>1, <2>2 DEF BeginScan, TypeOK
  <1>2. CASE ReadMeta(c)
    <2>1. scan' = [scan EXCEPT ![c] = [scan[c] EXCEPT !.dir = dir]]
      BY <1>2 DEF ReadMeta
    <2>2. dir \in SUBSET Chain BY AllocAssumption DEF TypeOK, Chain
    <2>3. [scan[c] EXCEPT !.dir = dir] \in [xmin : Nat, dir : SUBSET Chain]
      BY <2>2 DEF TypeOK
    <2> QED BY <1>2, <2>1, <2>3 DEF ReadMeta, TypeOK
  <1>3. CASE EndScan(c)
    BY <1>3 DEF EndScan, NoScan, TypeOK
  <1> QED BY <1>1, <1>2, <1>3

LEMMA CrashType == TypeOK /\ Crash => TypeOK'
  <1> SUFFICES ASSUME TypeOK, Crash PROVE TypeOK' OBVIOUS
  <1>1. job' \in [Writers -> Job] BY JobTypes DEF Crash
  <1>2. scan' \in [Scans -> [xmin : Nat, dir : SUBSET Chain]] BY DEF Crash, NoScan
  <1>3. nblocks' \in 0 .. MaxBlock /\ fsm' \subseteq 1 .. nblocks' /\ mishaps' \in 0 .. MaxMishaps
    BY AllocAssumption DEF Crash, TypeOK
  <1> QED BY <1>1, <1>2, <1>3 DEF Crash, TypeOK

LEMMA TypeStep ==
    ASSUME TypeOK, Points, InFile, Next
    PROVE  TypeOK'
  <1>1. lost = {} BY DEF Next
  <1>2. ASSUME NEW w \in Writers, Work(w) PROVE TypeOK'
    BY <1>1, <1>2, WriteType, ServeType, EndType DEF Work
  <1>3. ASSUME NEW c \in Scans, BeginScan(c) \/ ReadMeta(c) \/ EndScan(c) PROVE TypeOK'
    BY <1>3, ScanType
  <1> QED BY <1>2, <1>3, CrashType DEF Next


-----------------------------------------------------------------------------
(* One writer moves; what that leaves of the scope and of the chains. *)

Only(w) == \A v \in Writers \ {w} : job'[v] = job[v]

LEMMA OnlyOne ==
    ASSUME TypeOK, NEW w \in Writers, NEW r, job' = [job EXCEPT ![w] = r]
    PROVE  Only(w) /\ job'[w] = r
  BY DEF TypeOK, Only

\* A page that may be handed out belongs to no chain that anybody reads,
\* writes or frees.
LEMMA FreeApart ==
    ASSUME TypeOK, Points, InFile, ExclusiveAlone, Contents, lost = {},
           NEW w \in Writers, NEW b \in Block,
           Recyclable(w, b) \/ b > nblocks
    PROVE  /\ \A i \in dir : b \notin chain[i]
           /\ \A v \in Writers : Building(v) => b \notin chain[job[v].id]
           /\ \A v \in Writers : b \notin job[v].gone
           /\ \A c \in Scanning : \A i \in scan[c].dir : b \notin chain[i]
  <1>1. CASE b > nblocks
    <2>1. b \notin 1 .. nblocks /\ ~ (b <= nblocks) BY <1>1 DEF TypeOK, Block
    <2> QED
      BY <2>1 DEF Contents, DirectoryIntact, OutputIntact, Gated, Holds, Building, InFile
  <1>2. CASE Recyclable(w, b)
    <2>1. page[b].kind # "live" BY <1>2, NotLive
    <2>2. ASSUME NEW c \in Scanning, NEW i \in scan[c].dir, b \in chain[i] PROVE FALSE
      <3>1. page[b].kind = "freed" /\ scan[c].xmin <= page[b].stamp
        BY <2>1, <2>2 DEF Contents, Gated
      <3>2. ~ job[w].exclusive BY <2>2 DEF ExclusiveAlone, Exclusive
      <3>3. page[b].stamp < Horizon BY <1>2, <3>1, <3>2 DEF Recyclable
      <3>4. Horizon <= scan[c].xmin /\ Horizon \in Nat BY HorizonBehind
      <3>5. page[b].stamp \in Nat /\ scan[c].xmin \in Nat BY DEF TypeOK, Page, Scanning
      <3> QED BY <3>1, <3>3, <3>4, <3>5
    <2> QED
      BY <2>1, <2>2 DEF Contents, DirectoryIntact, OutputIntact, GoneApart, Building
  <1> QED BY <1>1, <1>2

LEMMA ScopeStep ==
    ASSUME TypeOK, Scope, NEW w \in Writers, Only(w), TypeOK', nchain <= nchain',
           Fits(job'[w], nchain'),
           nblocks <= nblocks' \/ \A v \in Writers \ {w} : job[v].pc = "idle",
           job'[w].list \subseteq 1 .. nblocks', job'[w].gone \subseteq 1 .. nblocks',
           job'[w].blk <= nblocks',
           job'[w].pc # "idle" /\ job'[w].xid = 0 =>
               Maintaining(w) \/ \A v \in Writers : ~ Maintaining(v),
           job'[w].exclusive => job[w].exclusive \/ Scanning = {},
           UNCHANGED scan
    PROVE  Scope'
  <1>t. nblocks \in Nat /\ nblocks' \in Nat /\ nchain \in Nat /\ nchain' \in Nat
    BY AllocAssumption DEF TypeOK
  <1>1. Points'
    <2>1. \A r : Fits(r, nchain) => Fits(r, nchain') BY <1>t DEF Fits
    <2> QED BY <2>1 DEF Scope, Points, Only
  <1>2. InFile'
    <2>1. ASSUME NEW v \in Writers \ {w}
          PROVE job[v].list \subseteq 1 .. nblocks' /\ job[v].gone \subseteq 1 .. nblocks'
                    /\ job[v].blk <= nblocks'
      <3>1. CASE job[v].pc = "idle"
        <4>1. job[v] = Idle BY <3>1 DEF Scope, Points, Fits
        <4> QED BY <4>1, <1>t DEF Idle, Nothing
      <3>2. CASE nblocks <= nblocks'
        <4>1. 1 .. nblocks \subseteq 1 .. nblocks' BY <3>2, <1>t
        <4>0. job[v] \in Job BY DEF TypeOK
        <4>2. job[v].blk \in 0 .. MaxBlock BY <4>0, AllocAssumption DEF Job, Block, Nothing
        <4>3. job[v].blk <= nblocks' BY <3>2, <1>t, <4>2, AllocAssumption DEF Scope, InFile
        <4> QED BY <4>1, <4>3 DEF Scope, InFile
      <3> QED BY <3>1, <3>2
    <2> QED BY <2>1 DEF Only, InFile
  <1>3. OneMaintainer' BY DEF Scope, OneMaintainer, Maintaining, Only
  <1>4. ExclusiveAlone'
    <2>1. Scanning' = Scanning BY DEF Scanning
    <2>2. Exclusive' => Exclusive \/ Scanning = {} BY DEF Exclusive, Only
    <2> QED BY <2>1, <2>2 DEF Scope, ExclusiveAlone
  <1> QED BY <1>1, <1>2, <1>3, <1>4 DEF Scope

\* A writer goes on with the chain it writes, or begins one, or has none; what
\* is published is the chain it wrote.
LEMMA ChainsStep ==
    ASSUME TypeOK, Points, OneMaintainer, Chains, NEW w \in Writers, Only(w), TypeOK',
           nchain <= nchain', xid <= xid', UNCHANGED scan,
           job'[w].pc \in {"seal", "build"} =>
               \/ job'[w].id = nchain + 1 /\ nchain < nchain'
               \/ Building(w) /\ job'[w].id = job[w].id /\ dir' = dir,
           job'[w].pc = "build" => job'[w].in \subseteq dir',
           \/ dir' = dir
           \/ dir' = dir \cup {job[w].id} /\ Building(w)
           \/ dir' = (dir \ job[w].in) \cup {job[w].id} /\ Building(w) /\ Maintaining(w)
           \/ dir' = (dir \ pend) \cup {job[w].id} /\ Building(w) /\ Maintaining(w),
           \/ UNCHANGED chain
           \/ Building(w) /\ \E b : chain' = [chain EXCEPT ![job[w].id] = @ \cup {b}]
    PROVE  Chains'
  <1>t. nchain \in Nat /\ nchain' \in Nat /\ xid \in Nat /\ xid' \in Nat
    BY AllocAssumption DEF TypeOK
  <1>a. \A v \in Writers : Building(v) => job[v].id \in 1 .. nchain
    BY DEF Points, Fits, Building
  <1>b. nchain + 1 \notin 1 .. nchain BY <1>t
  <1>1. IdsApart'
    <2>1. dir' \subseteq dir \cup {job[w].id} BY DEF Building
    <2>2. \A c \in Scans : scan[c].dir \subseteq 1 .. nchain BY DEF Chains, ScanPast
    <2>3. dir \subseteq 1 .. nchain BY DEF TypeOK
    <2>4. ASSUME NEW v \in Writers \ {w}, Building(v)
          PROVE /\ job[v].id \notin dir'
                /\ \A c \in Scans : job[v].id \notin scan[c].dir
                /\ Building(w)' => job'[w].id # job[v].id
      <3>1. job[v].id \in 1 .. nchain BY <2>4, <1>a
      <3>2. Building(w) => job[v].id # job[w].id BY <2>4 DEF Chains, IdsApart
      <3>3. job[v].id \notin dir /\ \A c \in Scans : job[v].id \notin scan[c].dir
        BY <2>4 DEF Chains, IdsApart
      <3>4. job[v].id \notin dir' BY <3>2, <3>3
      <3>5. Building(w)' => job'[w].id # job[v].id BY <3>1, <3>2, <1>b DEF Building
      <3> QED BY <3>3, <3>4, <3>5
    <2>5. ASSUME Building(w)'
          PROVE job'[w].id \notin dir' /\ \A c \in Scans : job'[w].id \notin scan[c].dir
      <3>1. CASE job'[w].id = nchain + 1
        <4>1. dir' \subseteq 1 .. nchain BY <2>3, <1>a DEF Building
        <4> QED BY <3>1, <4>1, <1>b, <2>2
      <3>2. CASE Building(w) /\ job'[w].id = job[w].id /\ dir' = dir
        BY <3>2 DEF Chains, IdsApart
      <3> QED BY <2>5, <3>1, <3>2 DEF Building
    <2>6. \A v \in Writers \ {w} : Building(v)' <=> Building(v) BY DEF Building, Only
    <2>7. \A c \in Scans : scan'[c] = scan[c] OBVIOUS
    <2>8. ASSUME NEW u \in Writers, NEW v \in Writers, Building(u)', Building(v)', u # v
          PROVE  job'[u].id # job'[v].id
      <3>1. CASE u = w BY <3>1, <2>8, <2>4, <2>6 DEF Only
      <3>2. CASE v = w BY <3>2, <2>8, <2>4, <2>6 DEF Only
      <3>3. CASE u # w /\ v # w BY <3>3, <2>8, <2>6 DEF Only, Chains, IdsApart
      <3> QED BY <3>1, <3>2, <3>3
    <2>9. ASSUME NEW u \in Writers, Building(u)'
          PROVE  job'[u].id \notin dir' /\ \A c \in Scans : job'[u].id \notin scan'[c].dir
      <3>1. CASE u = w BY <3>1, <2>9, <2>5, <2>7
      <3>2. CASE u # w BY <3>2, <2>9, <2>4, <2>6, <2>7 DEF Only
      <3> QED BY <3>1, <3>2
    <2> QED BY <2>8, <2>9 DEF IdsApart
  <1>2. ChainsFresh'
    <2>1. ASSUME NEW i \in Chain, i > nchain' PROVE chain'[i] = {}
      <3>1. i > nchain BY <2>1, <1>t DEF Chain
      <3>2. Building(w) => i # job[w].id BY <3>1, <1>a, <1>t DEF Chain
      <3>3. chain'[i] = chain[i] BY <3>2 DEF TypeOK
      <3> QED BY <3>1, <3>3 DEF Chains, ChainsFresh
    <2> QED BY <2>1 DEF ChainsFresh
  <1>3. ScanPast'
    <2>1. 1 .. nchain \subseteq 1 .. nchain' BY <1>t
    <2>2. \A c \in Scans : scan[c].xmin \in Nat BY DEF TypeOK
    <2>3. \A c \in Scans : scan[c].xmin <= xid' BY <2>2, <1>t DEF Chains, ScanPast
    <2> QED BY <2>1, <2>3 DEF Chains, ScanPast
  <1>4. InKept'
    <2>1. ASSUME NEW v \in Writers \ {w}, job[v].pc = "build" PROVE job[v].in \subseteq dir'
      <3>1. job[v].in \subseteq dir BY <2>1 DEF Chains, InKept
      <3>2. CASE Maintaining(w)
        <4>1. job[v].xid # 0 BY <2>1, <3>2 DEF OneMaintainer, Maintaining
        <4>2. job[v].in = {} BY <4>1 DEF Points, Fits
        <4> QED BY <4>2
      <3>3. CASE dir \subseteq dir' BY <3>1, <3>3
      <3> QED BY <3>2, <3>3
    <2> QED BY <2>1 DEF InKept, Only
  <1> QED BY <1>1, <1>2, <1>3, <1>4 DEF Chains

-----------------------------------------------------------------------------
(* What a step leaves of the pages. *)

\* A step that touches no page and no chain.  It may publish the chain that was
\* written, and put aside for freeing what it takes out of the directory.
LEMMA ContentsStep ==
    ASSUME TypeOK, Scope, Chains, Contents, lost = {}, NEW w \in Writers, Only(w), TypeOK',
           UNCHANGED <<nblocks, page, chain, scan, lost>>,
           \/ dir' = dir
           \/ dir' \subseteq dir \cup {job[w].id} /\ Building(w),
           job'[w].pc \in {"seal", "build"} =>
               \/ job'[w].id = nchain + 1
               \/ Building(w) /\ job'[w].id = job[w].id,
           \/ job'[w].gone = {}
           \/ job'[w].gone = job[w].gone /\ dir' = dir /\ ~ (job'[w].pc \in {"seal", "build"})
           \/ /\ ~ (job'[w].pc \in {"seal", "build"})
              /\ \E out \in SUBSET dir : job'[w].gone = Pages(out) /\ dir' \cap out = {}
    PROVE  Contents'
  <1>n. \A i \in dir' : i \in dir \/ (Building(w) /\ i = job[w].id) OBVIOUS
  <1>e. job'[w].pc \in {"seal", "build"} /\ job'[w].id = nchain + 1 => chain[job'[w].id] = {}
    <2>1. ASSUME job'[w].id = nchain + 1, job'[w].pc \in {"seal", "build"}
          PROVE  chain[job'[w].id] = {}
      <3>1. nchain + 1 > nchain BY AllocAssumption DEF TypeOK
      <3>2. job'[w].id \in Chain \cup {Nothing} BY DEF TypeOK, Job
      <3>3. job'[w].id # Nothing BY <2>1, AllocAssumption DEF TypeOK, Nothing
      <3> QED BY <2>1, <3>1, <3>2, <3>3 DEF Chains, ChainsFresh
    <2> QED BY <2>1
  <1>1. DirectoryIntact'
    <2>1. \A i \in dir' : Holds(i) /\ \A b \in chain[i] : page[b].kind = "live"
      BY <1>n DEF Contents, DirectoryIntact, OutputIntact, Building
    <2> QED BY <2>1 DEF DirectoryIntact, Holds
  <1>2. OutputIntact'
    <2>1. ASSUME NEW v \in Writers, job'[v].pc \in {"seal", "build"}
          PROVE  Holds(job'[v].id) /\ \A b \in chain[job'[v].id] : page[b].kind = "live"
      <3>1. CASE v # w BY <3>1, <2>1 DEF Only, Contents, OutputIntact
      <3>2. CASE v = w
        <4>1. CASE chain[job'[w].id] = {} BY <4>1, <3>2 DEF Holds
        <4>2. CASE Building(w) /\ job'[w].id = job[w].id
          BY <4>2, <3>2 DEF Contents, OutputIntact, Building
        <4> QED BY <2>1, <3>2, <4>1, <4>2, <1>e
      <3> QED BY <3>1, <3>2
    <2> QED BY <2>1 DEF OutputIntact, Holds
  <1>3. GoneApart'
    <2>1. ASSUME NEW v \in Writers \ {w}, NEW b \in job[v].gone
          PROVE  /\ page[b].kind = "live"
                 /\ \A i \in dir' : b \notin chain[i]
                 /\ \A u \in Writers : Building(u)' => b \notin chain[job'[u].id]
      <3>1. \A i \in dir' : b \notin chain[i] BY <1>n DEF Contents, GoneApart
      <3>2. \A u \in Writers \ {w} : Building(u)' => b \notin chain[job'[u].id]
        BY DEF Only, Contents, GoneApart, Building
      <3>3. Building(w)' => b \notin chain[job'[w].id]
        BY <1>e DEF Contents, GoneApart, Building
      <3> QED BY <3>1, <3>2, <3>3 DEF Contents, GoneApart
    <2>2. ASSUME NEW b \in job'[w].gone
          PROVE  /\ page[b].kind = "live"
                 /\ \A i \in dir' : b \notin chain[i]
                 /\ \A u \in Writers : Building(u)' => b \notin chain[job'[u].id]
      <3>1. CASE job'[w].gone = job[w].gone /\ dir' = dir /\ ~ (job'[w].pc \in {"seal", "build"})
        BY <3>1, <2>2 DEF Only, Contents, GoneApart, Building
      <3>2. CASE /\ ~ (job'[w].pc \in {"seal", "build"})
                 /\ \E out \in SUBSET dir : job'[w].gone = Pages(out) /\ dir' \cap out = {}
        <4>1. PICK out \in SUBSET dir : job'[w].gone = Pages(out) /\ dir' \cap out = {} BY <3>2
        <4>2. PICK i \in out : b \in chain[i] BY <4>1, <2>2 DEF Pages
        <4>3. page[b].own = i /\ page[b].kind = "live"
          BY <4>2 DEF Contents, DirectoryIntact, Holds
        <4>4. \A j \in dir' : b \in chain[j] => page[b].own = j
          BY <1>n DEF Contents, DirectoryIntact, OutputIntact, Holds, Building
        <4>5. \A u \in Writers \ {w} : Building(u) => job[u].id # i /\ (b \in chain[job[u].id] => page[b].own = job[u].id)
          BY DEF Chains, IdsApart, Contents, OutputIntact, Holds, Building
        <4> QED BY <4>1, <4>2, <4>3, <4>4, <4>5, <3>2 DEF Only, Building
      <3> QED BY <2>2, <3>1, <3>2
    <2> QED BY <2>1, <2>2 DEF GoneApart, Only
  <1>4. Gated' BY DEF Contents, Gated, Scanning
  <1> QED BY <1>1, <1>2, <1>3, <1>4 DEF Contents

\* A page is handed out.
LEMMA TakeContents ==
    ASSUME TypeOK, Scope, Chains, Contents, lost = {}, NEW w \in Writers, Building(w),
           NEW b \in Block, Recyclable(w, b) \/ b > nblocks,
           NEW list, Take(w, b, list), TypeOK',
           nblocks <= nblocks', b <= nblocks', UNCHANGED <<dir, scan, lost>>
    PROVE  Contents'
  <1> DEFINE r == [job[w] EXCEPT !.want = @ - 1, !.at = "start", !.blk = Nothing, !.list = list]
  <1>j. job[w] \in Job BY DEF TypeOK
  <1>0. job' = [job EXCEPT ![w] = r] BY DEF Take
  <1>1. Only(w) /\ job'[w] = r BY <1>0, OnlyOne
  <1>2. job'[w].pc = job[w].pc /\ job'[w].id = job[w].id /\ job'[w].gone = job[w].gone
    BY <1>j, <1>1 DEF Job
  <1>3. \A v \in Writers : /\ job'[v].pc = job[v].pc /\ job'[v].id = job[v].id
                           /\ job'[v].gone = job[v].gone
    BY <1>1, <1>2 DEF Only
  <1>4. job[w].id \in Chain BY AllocAssumption DEF Scope, Points, Fits, Building, Chain, TypeOK
  <1>5. /\ \A i \in dir : b \notin chain[i]
        /\ \A v \in Writers : Building(v) => b \notin chain[job[v].id]
        /\ \A v \in Writers : b \notin job[v].gone
        /\ \A c \in Scanning : \A i \in scan[c].dir : b \notin chain[i]
    BY FreeApart DEF Scope
  <1>6. /\ \A x \in Block \ {b} : page'[x] = page[x]
        /\ page'[b].kind = "live" /\ page'[b].own = job[w].id
    BY DEF Take, TypeOK
  <1>7. /\ \A i \in Chain \ {job[w].id} : chain'[i] = chain[i]
        /\ chain'[job[w].id] = chain[job[w].id] \cup {b}
    BY <1>4 DEF Take, TypeOK
  <1>8. dir \subseteq Chain /\ \A i \in Chain : chain[i] \subseteq Block
    BY AllocAssumption DEF TypeOK, Chain
  <1>9. \A x \in Block : x <= nblocks => x <= nblocks' BY AllocAssumption DEF TypeOK, Block
  <1>10. \A i \in Chain \ {job[w].id} : Holds(i) /\ b \notin chain[i] => Holds(i)'
    BY <1>6, <1>7, <1>8, <1>9 DEF Holds
  <1>11. DirectoryIntact'
    <2>1. job[w].id \notin dir BY DEF Chains, IdsApart
    <2>2. ASSUME NEW i \in dir PROVE Holds(i)' /\ \A x \in chain'[i] : page'[x].kind = "live"
      <3>1. i \in Chain \ {job[w].id} BY <2>1, <1>8
      <3>2. Holds(i) /\ \A x \in chain[i] : page[x].kind = "live"
        BY DEF Contents, DirectoryIntact
      <3> QED BY <3>1, <3>2, <1>5, <1>6, <1>7, <1>8, <1>10
    <2> QED BY <2>2 DEF DirectoryIntact
  <1>12. OutputIntact'
    <2>1. ASSUME NEW v \in Writers, job[v].pc \in {"seal", "build"}, NEW i, i = job[v].id
          PROVE  Holds(i)' /\ \A x \in chain'[i] : page'[x].kind = "live"
      <3>1. Holds(i) /\ (\A x \in chain[i] : page[x].kind = "live") /\ b \notin chain[i]
        BY <2>1, <1>5 DEF Contents, OutputIntact, Building
      <3>2. i \in Chain
        BY <2>1, AllocAssumption DEF Scope, Points, Fits, Chain, TypeOK
      <3>3. CASE v = w
        <4>1. \A x \in chain[i] : page'[x] = page[x] BY <3>1, <3>2, <1>6, <1>8
        <4>2. \A x \in chain[i] : x <= nblocks' BY <3>1, <3>2, <1>8, <1>9 DEF Holds
        <4> QED BY <3>1, <3>3, <2>1, <4>1, <4>2, <1>6, <1>7 DEF Holds
      <3>4. CASE v # w
        <4>1. i # job[w].id BY <3>4, <2>1 DEF Chains, IdsApart, Building
        <4> QED BY <3>1, <3>2, <4>1, <1>6, <1>7, <1>8, <1>10
      <3> QED BY <3>3, <3>4
    <2> QED BY <2>1, <1>3 DEF OutputIntact, Holds
  <1>13. GoneApart'
    <2>1. ASSUME NEW v \in Writers, NEW x \in job[v].gone
          PROVE  /\ page'[x].kind = "live"
                 /\ \A i \in dir : x \notin chain'[i]
                 /\ \A u \in Writers : Building(u) => x \notin chain'[job[u].id]
      <3>1. x # b BY <1>5
      <3>2. x \in Block BY <2>1 DEF TypeOK, Job
      <3>3. \A u \in Writers : Building(u) => job[u].id \in Chain
        BY AllocAssumption DEF Scope, Points, Fits, Building, Chain, TypeOK
      <3> QED BY <3>1, <3>2, <3>3, <1>6, <1>7, <1>8 DEF Contents, GoneApart
    <2> QED BY <2>1, <1>3 DEF GoneApart, Building
  <1>14. Gated'
    <2>1. ASSUME NEW c \in Scanning, NEW i \in scan[c].dir, NEW x \in chain'[i]
          PROVE  /\ x <= nblocks' /\ page'[x].own = i
                 /\ \/ page'[x].kind = "live"
                    \/ page'[x].kind = "freed" /\ scan[c].xmin <= page'[x].stamp
      <3>1. c \in Scans /\ i \in Chain /\ i # job[w].id
        BY DEF Scanning, TypeOK, Chains, IdsApart
      <3>2. x \in chain[i] /\ x # b /\ x \in Block BY <3>1, <2>1, <1>5, <1>7, <1>8
      <3> QED BY <3>1, <3>2, <1>6, <1>9 DEF Contents, Gated
    <2> QED BY <2>1 DEF Gated, Scanning
  <1> QED BY <1>11, <1>12, <1>13, <1>14 DEF Contents

Owned(w, b) ==
    \/ b \in job[w].gone \/ b = job[w].blk
    \/ job[w].pc \in {"seal", "build"} /\ b \in chain[job[w].id]

Somewhere(w, b) == b \in fsm \/ b \in Pages(dir) \/ Owned(w, b)

LEMMA AccountedStep ==
    ASSUME TypeOK, Points, Accounted, NEW w \in Writers, Only(w), TypeOK',
           mishaps' = mishaps, nblocks <= nblocks',
           \A i \in Chain : chain[i] \subseteq chain'[i],
           \A b \in 1 .. nblocks : Somewhere(w, b) => Somewhere(w, b)',
           \A b \in 1 .. nblocks' : b > nblocks => Somewhere(w, b)'
    PROVE  Accounted'
  <1>1. ASSUME mishaps = 0, NEW b \in 1 .. nblocks'
        PROVE  b \in fsm' \/ b \in Pages(dir)' \/ \E v \in Writers : Owned(v, b)'
    <2>0. CASE b > nblocks BY <2>0 DEF Somewhere
    <2>5. CASE b \in 1 .. nblocks
      <3>1. PICK v \in Writers : Somewhere(v, b) BY <1>1, <2>5 DEF Accounted, Somewhere, Owned
      <3>2. CASE v = w BY <2>5, <3>1, <3>2 DEF Somewhere
      <3>3. CASE b \in fsm \/ b \in Pages(dir) BY <2>5, <3>3 DEF Somewhere
      <3>4. CASE v # w /\ Owned(v, b)
        <4>1. job'[v] = job[v] BY <3>4 DEF Only
        <4>2. job[v].pc \in {"seal", "build"} => chain[job[v].id] \subseteq chain'[job[v].id]
          BY AllocAssumption DEF Points, Fits, Chain, TypeOK
        <4> QED BY <3>4, <4>1, <4>2 DEF Owned
      <3> QED BY <3>1, <3>2, <3>3, <3>4 DEF Somewhere
    <2> QED BY <2>0, <2>5 DEF TypeOK
  <1> QED BY <1>1 DEF Accounted, Owned

-----------------------------------------------------------------------------
(* The allocator. *)

Rest == Scope /\ Chains /\ Contents /\ Accounted

LEMMA TakeStep ==
    ASSUME AllocInv, TypeOK', lost = {}, NEW w \in Writers, Writing(w),
           NEW b \in Block, Recyclable(w, b) \/ b > nblocks, b <= nblocks',
           NEW list, list \subseteq 1 .. nblocks', Take(w, b, list),
           job[w].blk \in {Nothing, b}, fsm \ {b} \subseteq fsm',
           nblocks' = nblocks \/ (nblocks' = nblocks + 1 /\ b = nblocks + 1),
           UNCHANGED <<dir, scan, lost, nchain, xid, mishaps>>
    PROVE  Rest'
  <1> DEFINE r == [job[w] EXCEPT !.want = @ - 1, !.at = "start", !.blk = Nothing, !.list = list]
  <1>i. TypeOK /\ Scope /\ Points /\ InFile /\ OneMaintainer /\ Chains /\ Contents /\ Accounted
    BY DEF AllocInv, Scope
  <1>j. job[w] \in Job BY <1>i DEF TypeOK
  <1>t. nblocks \in Nat /\ nblocks' \in Nat /\ nblocks <= nblocks' /\ nchain \in Nat /\ xid \in Nat
    BY <1>i, AllocAssumption DEF TypeOK
  <1>0. job' = [job EXCEPT ![w] = r] BY DEF Take
  <1>1. Only(w) /\ job'[w] = r BY <1>0, <1>i, OnlyOne
  <1>2. /\ job'[w].pc = job[w].pc /\ job'[w].id = job[w].id /\ job'[w].gone = job[w].gone
        /\ job'[w].at = "start" /\ job'[w].blk = Nothing /\ job'[w].list = list
        /\ job'[w].xid = job[w].xid /\ job'[w].exclusive = job[w].exclusive
        /\ job'[w].in = job[w].in /\ job'[w].stage = job[w].stage
    BY <1>j, <1>1 DEF Job
  <1>3. Building(w) /\ Fits(job[w], nchain) /\ job[w].pc # "idle"
    BY <1>i DEF Writing, Building, Points
  <1>4. Fits(job'[w], nchain') BY <1>2, <1>3, <1>t DEF Fits, Building
  <1>5. job[w].id \in Chain BY <1>3, <1>i, AllocAssumption DEF Fits, Building, Chain, TypeOK
  <1>6. Contents' BY <1>i, <1>3, <1>t, TakeContents
  <1>7. Scope'
    <2>1. job'[w].gone \subseteq 1 .. nblocks'
      <3>1. job[w].gone \subseteq 1 .. nblocks BY <1>i DEF InFile
      <3> QED BY <3>1, <1>2, <1>t
    <2>2. job'[w].blk <= nblocks' BY <1>2, <1>t DEF Nothing
    <2>3. job'[w].pc # "idle" /\ job'[w].xid = 0 =>
               Maintaining(w) \/ \A v \in Writers : ~ Maintaining(v)
      BY <1>2 DEF Maintaining
    <2>4. /\ nchain <= nchain' /\ job'[w].list \subseteq 1 .. nblocks' /\ UNCHANGED scan
          /\ job'[w].exclusive => job[w].exclusive \/ Scanning = {}
      BY <1>2, <1>t
    <2> HIDE DEF r
    <2> QED BY <1>i, <1>1, <1>4, <1>t, <2>1, <2>2, <2>3, <2>4, ScopeStep
  <1>8. Chains'
    <2>1. \E x : chain' = [chain EXCEPT ![job[w].id] = @ \cup {x}] BY DEF Take
    <2>2. job'[w].pc = "build" => job'[w].in \subseteq dir'
      BY <1>2, <1>i DEF Chains, InKept
    <2>3. job'[w].pc \in {"seal", "build"} => Building(w) /\ job'[w].id = job[w].id /\ dir' = dir
      BY <1>2, <1>3
    <2>4. nchain <= nchain' /\ xid <= xid' /\ UNCHANGED scan /\ dir' = dir BY <1>t
    <2> HIDE DEF r
    <2> QED BY <1>i, <1>1, <1>3, <1>t, <2>1, <2>2, <2>3, <2>4, ChainsStep
  <1>9. Accounted'
    <2>1. \A i \in Chain : chain[i] \subseteq chain'[i] BY <1>5, <1>i DEF Take, TypeOK
    <2>2. b \in chain'[job'[w].id] BY <1>2, <1>5, <1>i DEF Take, TypeOK
    <2>3. Owned(w, b)' BY <1>2, <1>3, <2>2 DEF Owned, Building
    <2>4. \A x \in 1 .. nblocks' : x > nblocks => x = b BY <1>t
    <2>5. dir \subseteq Chain BY <1>i, AllocAssumption DEF TypeOK, Chain
    <2>6. ASSUME NEW x \in 1 .. nblocks, Somewhere(w, x), x # b PROVE Somewhere(w, x)'
      <3>1. x \in Pages(dir) => x \in Pages(dir)' BY <2>1, <2>5 DEF Pages
      <3>2. x # job[w].blk BY <2>6 DEF Nothing
      <3>3. Owned(w, x) => Owned(w, x)' BY <3>2, <1>2, <1>5, <2>1 DEF Owned
      <3> QED BY <2>6, <3>1, <3>3 DEF Somewhere
    <2> QED BY <1>i, <1>1, <1>t, <2>1, <2>3, <2>4, <2>6, AccountedStep DEF Somewhere
  <1> QED BY <1>6, <1>7, <1>8, <1>9 DEF Rest

\* A step of the allocator that hands out nothing.
LEMMA PassStep ==
    ASSUME AllocInv, TypeOK', lost = {}, NEW w \in Writers, Writing(w),
           NEW at \in {"start", "try", "full"}, NEW blk \in Block \cup {Nothing},
           NEW list, list \subseteq 1 .. nblocks,
           job' = [job EXCEPT ![w] = [job[w] EXCEPT !.at = at, !.blk = blk, !.list = list]],
           at = "try" <=> blk # Nothing, blk <= nblocks,
           \/ mishaps' = mishaps + 1
           \/ /\ mishaps' = mishaps
              /\ fsm \subseteq fsm' \cup {blk} /\ {job[w].blk} \ {Nothing} \subseteq fsm' \cup {blk},
           UNCHANGED <<nblocks, page, chain, nchain, dir, xid, scan, lost>>
    PROVE  Rest'
  <1>i. TypeOK /\ Scope /\ Points /\ InFile /\ OneMaintainer /\ Chains /\ Contents /\ Accounted
    BY DEF AllocInv, Scope
  <1>j. job[w] \in Job BY <1>i DEF TypeOK
  <1>t. nblocks \in Nat /\ nchain \in Nat /\ xid \in Nat
    BY <1>i, AllocAssumption DEF TypeOK
  <1>1. Only(w) /\ job'[w] = [job[w] EXCEPT !.at = at, !.blk = blk, !.list = list]
    BY <1>i, OnlyOne
  <1>2. /\ job'[w].pc = job[w].pc /\ job'[w].id = job[w].id /\ job'[w].gone = job[w].gone
        /\ job'[w].at = at /\ job'[w].blk = blk /\ job'[w].list = list
        /\ job'[w].xid = job[w].xid /\ job'[w].exclusive = job[w].exclusive
        /\ job'[w].in = job[w].in /\ job'[w].stage = job[w].stage
        /\ job'[w].want = job[w].want
    <2> DEFINE r == job[w]
               q == job'[w]
    <2>1. q = [r EXCEPT !.at = at, !.blk = blk, !.list = list] /\ r \in Job BY <1>j, <1>1
    <2> HIDE DEF q, r
    <2>2. /\ q.pc = r.pc /\ q.id = r.id /\ q.gone = r.gone
          /\ q.at = at /\ q.blk = blk /\ q.list = list
          /\ q.xid = r.xid /\ q.exclusive = r.exclusive
          /\ q.in = r.in /\ q.stage = r.stage /\ q.want = r.want
      BY <2>1 DEF Job
    <2> QED BY <2>2 DEF q, r
  <1>3. Building(w) /\ Fits(job[w], nchain) /\ job[w].pc # "idle" /\ job[w].pc # "free" /\ job[w].want > 0
    BY <1>i DEF Writing, Building, Points
  <1>4. Fits(job'[w], nchain') BY <1>2, <1>3, <1>t DEF Fits, Building
  <1>5. job[w].gone = {} BY <1>3 DEF Fits
  <1>6. Contents'
    <2>1. UNCHANGED <<nblocks, page, chain, scan, lost>> OBVIOUS
    <2> QED BY <1>i, <1>1, <1>2, <1>3, <1>5, <2>1, ContentsStep
  <1>7. Scope'
    <2>1. job'[w].gone \subseteq 1 .. nblocks' BY <1>2, <1>5
    <2>2. job'[w].blk <= nblocks' BY <1>2
    <2>3. job'[w].pc # "idle" /\ job'[w].xid = 0 =>
               Maintaining(w) \/ \A v \in Writers : ~ Maintaining(v)
      BY <1>2 DEF Maintaining
    <2> QED BY <1>i, <1>1, <1>2, <1>4, <1>t, <2>1, <2>2, <2>3, ScopeStep
  <1>8. Chains'
    <2>2. job'[w].pc = "build" => job'[w].in \subseteq dir'
      BY <1>2, <1>i DEF Chains, InKept
    <2>3. job'[w].pc \in {"seal", "build"} => Building(w) /\ job'[w].id = job[w].id /\ dir' = dir
      BY <1>2, <1>3
    <2> QED BY <1>i, <1>1, <1>3, <1>t, <2>2, <2>3, ChainsStep
  <1>9. Accounted'
    <2>1. CASE mishaps' = mishaps + 1
      <3>1. mishaps' # 0 BY <2>1, <1>i, AllocAssumption DEF TypeOK
      <3> QED BY <3>1 DEF Accounted
    <2>2. CASE /\ mishaps' = mishaps
               /\ fsm \subseteq fsm' \cup {blk} /\ {job[w].blk} \ {Nothing} \subseteq fsm' \cup {blk}
      <3>1. ASSUME NEW x \in 1 .. nblocks, Somewhere(w, x) PROVE Somewhere(w, x)'
        <4>1. x # Nothing BY DEF Nothing
        <4>2. Pages(dir)' = Pages(dir) BY DEF Pages
        <4> QED BY <3>1, <4>1, <4>2, <1>2, <1>5, <2>2 DEF Somewhere, Owned
      <3>2. \A x \in 1 .. nblocks' : ~ (x > nblocks) BY <1>t
      <3> QED BY <1>i, <1>1, <1>t, <2>2, <3>1, <3>2, AccountedStep
    <2> QED BY <2>1, <2>2
  <1> QED BY <1>6, <1>7, <1>8, <1>9 DEF Rest

LEMMA AllocatorRest ==
    ASSUME AllocInv, TypeOK', lost = {}, NEW w \in Writers,
           FromList(w) \/ FromFsm(w) \/ Try(w) \/ Busy(w) \/ Extend(w)
    PROVE  Rest'
  <1>i. TypeOK /\ Points /\ InFile BY DEF AllocInv, Scope
  <1>j. job[w] \in Job BY <1>i DEF TypeOK
  <1>n. nblocks \in Nat /\ 1 .. nblocks \subseteq Block /\ MaxBlock \in Nat
    BY <1>i, AllocAssumption DEF TypeOK, Block
  <1>w. Writing(w) BY DEF FromList, FromFsm, Try, Busy, Extend
  <1>f. /\ Fits(job[w], nchain) /\ Building(w) /\ job[w].pc # "free"
        /\ job[w].list \subseteq 1 .. nblocks /\ job[w].blk <= nblocks
    BY <1>i, <1>w DEF Points, InFile, Writing, Building
  <1>b. job[w].at # "try" => job[w].blk = Nothing BY <1>f DEF Fits
  <1>0. Nothing \in Block \cup {Nothing} /\ Nothing <= nblocks BY <1>n DEF Nothing
  <1>1. ASSUME FromList(w) PROVE Rest'
    <2> DEFINE b == Min(job[w].list)
               rest == job[w].list \ {b}
    <2>1. job[w].list \in SUBSET Block BY <1>j DEF Job
    <2>2. b \in job[w].list BY <1>1, <2>1, LeastBlock DEF FromList
    <2>3. b \in Block /\ b <= nblocks /\ rest \subseteq 1 .. nblocks
      BY <2>1, <2>2, <1>f, <1>n
    <2>4. job[w].blk = Nothing /\ job[w].at = "start" BY <1>1, <1>b DEF FromList
    <2>5. UNCHANGED <<nblocks, nchain, dir, xid, scan, lost, mishaps>> BY <1>1 DEF FromList
    <2> HIDE DEF b
    <2>6. CASE Recyclable(w, b) /\ fsm' = fsm \ {b} /\ Take(w, b, rest)
      BY <2>6, <2>3, <2>4, <2>5, <1>n, <1>w, TakeStep
    <2>7. CASE fsm' = fsm \cup {b} /\ job' = [job EXCEPT ![w].list = rest] /\ UNCHANGED <<page, chain>>
      <3> HIDE DEF rest
      <3>1. [job[w] EXCEPT !.at = "start", !.blk = Nothing, !.list = rest]
               = [job[w] EXCEPT !.list = rest]
        BY <1>j, <2>4 DEF Job
      <3>2. job' = [job EXCEPT ![w] = [job[w] EXCEPT !.at = "start", !.blk = Nothing, !.list = rest]]
        BY <2>7, <3>1
      <3> QED BY <2>7, <3>2, <2>3, <2>4, <2>5, <1>0, <1>w, PassStep
    <2> QED BY <1>1, <2>6, <2>7 DEF FromList, b
  <1>2. ASSUME FromFsm(w) PROVE Rest'
    <2>1. PICK b \in fsm : fsm' = fsm \ {b} /\ job' = [job EXCEPT ![w].at = "try", ![w].blk = b]
      BY <1>2 DEF FromFsm
    <2>2. b \in Block /\ b <= nblocks /\ b # Nothing BY <1>i, <1>n DEF TypeOK, Nothing
    <2>3. job[w].blk = Nothing BY <1>2, <1>b DEF FromFsm
    <2>4. job' = [job EXCEPT ![w] = [job[w] EXCEPT !.at = "try", !.blk = b, !.list = job[w].list]]
      <3>1. [job[w] EXCEPT !.at = "try", !.blk = b, !.list = job[w].list]
              = [job[w] EXCEPT !.at = "try", !.blk = b]
        BY <1>j DEF Job
      <3> QED BY <2>1, <3>1
    <2>5. UNCHANGED <<nblocks, page, chain, nchain, dir, xid, scan, lost, mishaps>>
      BY <1>2 DEF FromFsm
    <2> QED BY <2>1, <2>2, <2>3, <2>4, <2>5, <1>f, <1>w, PassStep
  <1>3. ASSUME Try(w) PROVE Rest'
    <2> DEFINE b == job[w].blk
    <2>1. b \in Block /\ b # Nothing
      BY <1>3, <1>j, <1>f DEF Try, Fits, Building, Job
    <2>2. UNCHANGED <<nblocks, nchain, dir, xid, scan, lost, mishaps>> BY <1>3 DEF Try
    <2>3. CASE Recyclable(w, b) /\ Take(w, b, {}) /\ UNCHANGED fsm
      <3>1. {} \subseteq 1 .. nblocks' OBVIOUS
      <3> QED BY <2>1, <2>2, <2>3, <3>1, <1>f, <1>w, TakeStep
    <2>4. CASE /\ fsm' = fsm \cup {b} /\ UNCHANGED <<page, chain>>
               /\ job' = [job EXCEPT ![w].at = "full", ![w].blk = Nothing]
      <3>1. [job[w] EXCEPT !.at = "full", !.blk = Nothing, !.list = job[w].list]
              = [job[w] EXCEPT !.at = "full", !.blk = Nothing]
        BY <1>j DEF Job
      <3>2. job' = [job EXCEPT ![w] = [job[w] EXCEPT !.at = "full", !.blk = Nothing,
                                                     !.list = job[w].list]]
        BY <2>4, <3>1
      <3> QED BY <2>2, <2>4, <3>2, <1>0, <1>f, <1>w, PassStep
    <2> QED BY <1>3, <2>3, <2>4 DEF Try
  <1>4. ASSUME Busy(w) PROVE Rest'
    <2>1. UNCHANGED <<nblocks, page, chain, nchain, dir, xid, scan, lost>> /\ mishaps' = mishaps + 1
      BY <1>4 DEF Busy
    <2>2. CASE job[w].at = "start" /\ job' = [job EXCEPT ![w].list = @ \ {Min(@)}]
      <3> DEFINE rest == job[w].list \ {Min(job[w].list)}
      <3>1. rest \subseteq 1 .. nblocks BY <1>f
      <3>2. job' = [job EXCEPT ![w] = [job[w] EXCEPT !.list = rest]] BY <2>2
      <3> HIDE DEF rest
      <3>3. [job[w] EXCEPT !.at = "start", !.blk = Nothing, !.list = rest]
               = [job[w] EXCEPT !.list = rest]
        BY <1>j, <2>2, <1>b DEF Job
      <3>4. job' = [job EXCEPT ![w] = [job[w] EXCEPT !.at = "start", !.blk = Nothing, !.list = rest]]
        BY <3>2, <3>3
      <3> QED BY <2>1, <3>1, <3>4, <1>0, <1>w, PassStep
    <2>3. CASE job' = [job EXCEPT ![w].at = "start", ![w].blk = Nothing]
      <3>1. [job[w] EXCEPT !.at = "start", !.blk = Nothing, !.list = job[w].list]
               = [job[w] EXCEPT !.at = "start", !.blk = Nothing]
        BY <1>j DEF Job
      <3>2. job' = [job EXCEPT ![w] = [job[w] EXCEPT !.at = "start", !.blk = Nothing,
                                                     !.list = job[w].list]]
        BY <2>3, <3>1
      <3> QED BY <2>1, <3>2, <1>0, <1>f, <1>w, PassStep
    <2> QED BY <1>4, <2>2, <2>3 DEF Busy
  <1>5. ASSUME Extend(w) PROVE Rest'
    <2>1. Take(w, nblocks + 1, {}) /\ nblocks' = nblocks + 1 BY <1>5 DEF Extend
    <2>2. nblocks + 1 \in Block BY <1>5, <1>n DEF Extend, Block
    <2>3. job[w].blk = Nothing BY <1>5, <1>b DEF Extend
    <2>4. UNCHANGED <<fsm, dir, scan, lost, nchain, xid, mishaps>> BY <1>5 DEF Extend
    <2>5. {} \subseteq 1 .. nblocks' /\ nblocks + 1 > nblocks /\ nblocks + 1 <= nblocks'
      BY <2>1, <1>n
    <2> QED BY <2>1, <2>2, <2>3, <2>4, <2>5, <1>w, TakeStep
  <1> QED BY <1>1, <1>2, <1>3, <1>4, <1>5

-----------------------------------------------------------------------------
(* The steps that touch no page. *)

LEMMA MoveStep ==
    ASSUME AllocInv, TypeOK', lost = {}, NEW w \in Writers, NEW r,
           job' = [job EXCEPT ![w] = r], Fits(r, nchain'),
           UNCHANGED <<nblocks, page, chain, scan, lost>>, nchain <= nchain', xid <= xid',
           r.list \subseteq 1 .. nblocks, r.blk = Nothing,
           r.pc # "idle" /\ r.xid = 0 => Maintaining(w) \/ \A v \in Writers : ~ Maintaining(v),
           r.exclusive => job[w].exclusive \/ Scanning = {},
           r.pc \in {"seal", "build"} => r.id = nchain + 1 /\ nchain < nchain',
           r.pc = "build" => r.in \subseteq dir',
           \/ dir' = dir
           \/ dir' = dir \cup {job[w].id} /\ Building(w)
           \/ dir' = (dir \ job[w].in) \cup {job[w].id} /\ Building(w) /\ Maintaining(w)
           \/ dir' = (dir \ pend) \cup {job[w].id} /\ Building(w) /\ Maintaining(w),
           \/ r.gone = {}
           \/ r.gone = job[w].gone /\ dir' = dir /\ r.pc = "free"
           \/ r.pc = "free" /\ \E out \in SUBSET dir : r.gone = Pages(out) /\ dir' \cap out = {},
           \/ mishaps' = mishaps + 1
           \/ mishaps' = mishaps /\ \A b \in 1 .. nblocks : Somewhere(w, b) => Somewhere(w, b)'
    PROVE  Rest'
  <1>i. TypeOK /\ Scope /\ Points /\ InFile /\ OneMaintainer /\ Chains /\ Contents /\ Accounted
    BY DEF AllocInv, Scope
  <1>t. nblocks \in Nat /\ nchain \in Nat /\ xid \in Nat /\ nblocks' = nblocks /\ nblocks <= nblocks'
    BY <1>i, AllocAssumption DEF TypeOK
  <1>1. Only(w) /\ job'[w] = r BY <1>i, OnlyOne
  <1>2. Contents'
    <2>1. UNCHANGED <<nblocks, page, chain, scan, lost>> OBVIOUS
    <2>2. dir' = dir \/ (dir' \subseteq dir \cup {job[w].id} /\ Building(w)) OBVIOUS
    <2>3. \/ job'[w].gone = {}
          \/ job'[w].gone = job[w].gone /\ dir' = dir /\ ~ (job'[w].pc \in {"seal", "build"})
          \/ /\ ~ (job'[w].pc \in {"seal", "build"})
             /\ \E out \in SUBSET dir : job'[w].gone = Pages(out) /\ dir' \cap out = {}
      BY <1>1
    <2>4. job'[w].pc \in {"seal", "build"} => job'[w].id = nchain + 1 BY <1>1
    <2> QED BY <1>i, <1>1, <2>1, <2>2, <2>3, <2>4, ContentsStep
  <1>3. Scope'
    <2>1. r.gone \subseteq 1 .. nblocks
      <3>1. job[w].gone \subseteq 1 .. nblocks BY <1>i DEF InFile
      <3>2. ASSUME NEW out \in SUBSET dir PROVE Pages(out) \subseteq 1 .. nblocks
        <4>1. \A i \in dir : chain[i] \subseteq 1 .. nblocks
          <5>1. dir \subseteq Chain BY <1>i, AllocAssumption DEF TypeOK, Chain
          <5>2. \A i \in dir : chain[i] \subseteq Block BY <5>1, <1>i DEF TypeOK
          <5>3. \A i \in dir : \A b \in chain[i] : b <= nblocks
            BY <1>i DEF Contents, DirectoryIntact, Holds
          <5> QED BY <5>2, <5>3, <1>t DEF Block
        <4> QED BY <4>1 DEF Pages
      <3> QED BY <3>1, <3>2
    <2>2. Fits(job'[w], nchain') /\ job'[w].gone \subseteq 1 .. nblocks' /\ job'[w].blk <= nblocks'
          /\ job'[w].list \subseteq 1 .. nblocks'
      BY <1>1, <1>t, <2>1 DEF Nothing
    <2>3. /\ job'[w].pc # "idle" /\ job'[w].xid = 0 =>
               Maintaining(w) \/ \A v \in Writers : ~ Maintaining(v)
          /\ job'[w].exclusive => job[w].exclusive \/ Scanning = {}
      BY <1>1
    <2> QED BY <1>i, <1>1, <1>t, <2>2, <2>3, ScopeStep
  <1>4. Chains'
    <2>1. job'[w].pc \in {"seal", "build"} => job'[w].id = nchain + 1 /\ nchain < nchain'
      BY <1>1
    <2>2. job'[w].pc = "build" => job'[w].in \subseteq dir' BY <1>1
    <2>3. UNCHANGED chain /\ UNCHANGED scan OBVIOUS
    <2> QED BY <1>i, <1>1, <1>t, <2>1, <2>2, <2>3, ChainsStep
  <1>5. Accounted'
    <2>1. CASE mishaps' = mishaps + 1
      <3>1. mishaps' # 0 BY <2>1, <1>i, AllocAssumption DEF TypeOK
      <3> QED BY <3>1 DEF Accounted
    <2>2. CASE mishaps' = mishaps /\ \A b \in 1 .. nblocks : Somewhere(w, b) => Somewhere(w, b)'
      <3>1. \A b \in 1 .. nblocks' : ~ (b > nblocks) BY <1>t
      <3>2. \A i \in Chain : chain[i] \subseteq chain'[i] OBVIOUS
      <3> QED BY <1>i, <1>1, <1>t, <2>2, <3>1, <3>2, AccountedStep
    <2> QED BY <2>1, <2>2
  <1> QED BY <1>2, <1>3, <1>4, <1>5 DEF Rest

\* The record of a writer that begins a chain.
LEMMA BeginFields ==
    ASSUME NEW r \in Job, NEW pc, NEW n, NEW q, q = Begin(r, pc, n)
    PROVE  /\ q.pc = pc /\ q.id = nchain + 1 /\ q.want = n /\ q.at = "start"
           /\ q.list = r.list /\ q.blk = r.blk /\ q.stage = r.stage /\ q.todo = r.todo
           /\ q.in = r.in /\ q.gone = r.gone /\ q.xid = r.xid /\ q.exclusive = r.exclusive
           /\ DOMAIN q = {"pc", "todo", "stage", "at", "list", "blk", "id", "want", "in", "gone",
                          "xid", "exclusive"}
  <1> DEFINE i == nchain + 1
  <1>1. q = [r EXCEPT !.pc = pc, !.id = i, !.want = n, !.at = "start"] BY DEF Begin
  <1> HIDE DEF i
  <1>2. /\ q.pc = pc /\ q.id = i /\ q.want = n /\ q.at = "start"
        /\ q.list = r.list /\ q.blk = r.blk /\ q.stage = r.stage /\ q.todo = r.todo
        /\ q.in = r.in /\ q.gone = r.gone /\ q.xid = r.xid /\ q.exclusive = r.exclusive
        /\ DOMAIN q = {"pc", "todo", "stage", "at", "list", "blk", "id", "want", "in", "gone",
                       "xid", "exclusive"}
    BY <1>1 DEF Job
  <1> QED BY <1>2 DEF i

\* A writer that holds no page and is not building.
LEMMA AtRest ==
    ASSUME AllocInv, NEW w \in Writers, job[w].pc \in {"idle", "stage"}
    PROVE  /\ job[w].blk = Nothing /\ job[w].gone = {} /\ job[w].xid = 0
           /\ job[w].list \subseteq 1 .. nblocks
           /\ \A b \in 1 .. nblocks : ~ Owned(w, b)
           /\ job[w].pc = "stage" => Maintaining(w)
           /\ job[w].pc = "idle" => ~ job[w].exclusive
  <1>1. Fits(job[w], nchain) BY DEF AllocInv, Scope, Points
  <1>2. job[w].list \subseteq 1 .. nblocks BY DEF AllocInv, Scope, InFile
  <1>3. job[w].blk = Nothing /\ job[w].gone = {} /\ job[w].xid = 0 BY <1>1 DEF Fits
  <1> QED BY <1>1, <1>2, <1>3 DEF Fits, Owned, Maintaining, Nothing

LEMMA InsertRest ==
    ASSUME AllocInv, TypeOK', lost = {}, NEW w \in Writers, Insert(w)
    PROVE  Rest'
  <1>i. TypeOK /\ nchain \in Nat /\ xid \in Nat \ {0} BY AllocAssumption DEF AllocInv, TypeOK
  <1>1. PICK stage \in {"append", "oversized"} :
           job' = [job EXCEPT ![w] = [Begin(Idle, "build", 1) EXCEPT !.stage = stage, !.xid = xid]]
    BY DEF Insert
  <1> DEFINE q == Begin(Idle, "build", 1)
             r == [q EXCEPT !.stage = stage, !.xid = xid]
  <1>2. /\ q.pc = "build" /\ q.id = nchain + 1 /\ q.want = 1 /\ q.at = "start"
        /\ q.list = {} /\ q.blk = Nothing
        /\ q.in = {} /\ q.gone = {} /\ q.exclusive = FALSE
        /\ DOMAIN q = {"pc", "todo", "stage", "at", "list", "blk", "id", "want", "in", "gone",
                       "xid", "exclusive"}
    <2>1. /\ Idle.list = {} /\ Idle.blk = Nothing /\ Idle.in = {} /\ Idle.gone = {}
          /\ Idle.exclusive = FALSE
      BY DEF Idle
    <2>2. Idle \in Job BY JobTypes
    <2>3. q = Begin(Idle, "build", 1) OBVIOUS
    <2> HIDE DEF q
    <2>4. /\ q.pc = "build" /\ q.id = nchain + 1 /\ q.want = 1 /\ q.at = "start"
          /\ q.list = Idle.list /\ q.blk = Idle.blk
          /\ q.in = Idle.in /\ q.gone = Idle.gone /\ q.exclusive = Idle.exclusive
          /\ DOMAIN q = {"pc", "todo", "stage", "at", "list", "blk", "id", "want", "in", "gone",
                         "xid", "exclusive"}
      BY <2>2, <2>3, BeginFields
    <2> QED BY <2>1, <2>4
  <1>3. job' = [job EXCEPT ![w] = r] BY <1>1
  <1> HIDE DEF q
  <1>4. /\ r.pc = "build" /\ r.id = nchain + 1 /\ r.want = 1 /\ r.at = "start"
        /\ r.list = {} /\ r.blk = Nothing /\ r.stage = stage
        /\ r.in = {} /\ r.gone = {} /\ r.exclusive = FALSE /\ r.xid = xid
    BY <1>2
  <1> HIDE DEF r
  <1>5. nchain' = nchain + 1 /\ xid' = xid + 1
        /\ UNCHANGED <<nblocks, page, chain, scan, lost, fsm, dir, mishaps>>
    BY DEF Insert
  <1>6. Fits(r, nchain') BY <1>4, <1>5, <1>i DEF Fits
  <1>7. nchain <= nchain' /\ nchain < nchain' /\ xid <= xid' BY <1>5, <1>i
  <1>8. \A b \in 1 .. nblocks : Somewhere(w, b) => Somewhere(w, b)'
    <2>1. \A b \in 1 .. nblocks : ~ Owned(w, b) BY AtRest DEF Insert
    <2>2. Pages(dir)' = Pages(dir) BY <1>5 DEF Pages
    <2> QED BY <2>1, <2>2, <1>5 DEF Somewhere
  <1> QED BY <1>3, <1>4, <1>5, <1>6, <1>7, <1>8, <1>i, MoveStep

LEMMA MaintainRest ==
    ASSUME AllocInv, TypeOK', lost = {}, NEW w \in Writers, Maintain(w)
    PROVE  Rest'
  <1>i. TypeOK /\ nchain \in Nat /\ xid \in Nat \ {0} BY AllocAssumption DEF AllocInv, TypeOK
  <1>1. PICK op \in Ops :
           /\ op = "fts_vacuum" => OthersIdle(w)
           /\ job' = [job EXCEPT ![w] = [Idle EXCEPT !.pc = "stage", !.todo = Program[op],
                                                    !.exclusive = (op = "fts_vacuum")]]
    BY DEF Maintain
  <1> DEFINE e == (op = "fts_vacuum")
             r == [Idle EXCEPT !.pc = "stage", !.todo = Program[op], !.exclusive = e]
  <1>3. job' = [job EXCEPT ![w] = r] BY <1>1
  <1>4. /\ r.pc = "stage" /\ r.at = "start" /\ r.list = {} /\ r.blk = Nothing
        /\ r.in = {} /\ r.gone = {} /\ r.exclusive = e /\ r.xid = 0
    BY DEF Idle
  <1> HIDE DEF r
  <1>5. UNCHANGED <<nblocks, page, chain, nchain, xid, scan, lost, fsm, dir, mishaps>>
    BY DEF Maintain
  <1>6. Fits(r, nchain') BY <1>4, <1>5, <1>i DEF Fits
  <1>7. nchain <= nchain' /\ xid <= xid' BY <1>5, <1>i
  <1>8. \A b \in 1 .. nblocks : Somewhere(w, b) => Somewhere(w, b)'
    <2>1. \A b \in 1 .. nblocks : ~ Owned(w, b) BY AtRest DEF Maintain
    <2>2. Pages(dir)' = Pages(dir) BY <1>5 DEF Pages
    <2> QED BY <2>1, <2>2, <1>5 DEF Somewhere
  <1>9. r.exclusive => Scanning = {} BY <1>1, <1>4 DEF OthersIdle
  <1>10. \A v \in Writers : ~ Maintaining(v) BY DEF Maintain
  <1> HIDE DEF e
  <1>11. r.list \subseteq 1 .. nblocks BY <1>4
  <1> QED BY <1>3, <1>4, <1>5, <1>6, <1>7, <1>8, <1>9, <1>10, <1>11, MoveStep

LEMMA EnterRest ==
    ASSUME AllocInv, TypeOK', lost = {}, NEW w \in Writers, Enter(w)
    PROVE  Rest'
  <1> DEFINE stage == Head(job[w].todo)
             list == ScopeList(stage)
             todo == Tail(job[w].todo)
             r == [job[w] EXCEPT !.stage = stage, !.todo = todo, !.in = {}, !.list = list]
  <1>i. TypeOK /\ nchain \in Nat /\ xid \in Nat \ {0} BY AllocAssumption DEF AllocInv, TypeOK
  <1>j. job[w] \in Job BY <1>i DEF TypeOK
  <1>a. /\ job[w].pc = "stage" /\ job[w].blk = Nothing /\ job[w].gone = {} /\ job[w].xid = 0
        /\ Maintaining(w) /\ \A b \in 1 .. nblocks : ~ Owned(w, b)
    BY AtRest DEF Enter
  <1>l. list \subseteq 1 .. nblocks BY DEF ScopeList
  <1>t. r \in Job
    <2>1. list \in SUBSET Block
      <3>1. 1 .. nblocks \subseteq Block BY <1>i, AllocAssumption DEF TypeOK, Block
      <3> QED BY <3>1, <1>l
    <2>2. stage \in Stages /\ todo \in Seq(Stages)
      BY <1>j, JobTypes DEF Enter
    <2> HIDE DEF stage, todo, list
    <2> QED BY <1>j, <2>1, <2>2 DEF Job
  <1>1. /\ r.pc = "stage" /\ r.list = list /\ r.blk = Nothing /\ r.in = {} /\ r.gone = {}
        /\ r.xid = 0 /\ r.exclusive = job[w].exclusive /\ r.todo = todo
    <2> HIDE DEF stage, todo, list
    <2> QED BY <1>j, <1>a DEF Job
  <1>2. UNCHANGED <<nblocks, page, chain, xid, scan, lost, fsm, dir, mishaps>>
    BY DEF Enter
  <1>3. \A b \in 1 .. nblocks : Somewhere(w, b) => Somewhere(w, b)'
    <2>2. Pages(dir)' = Pages(dir) BY <1>2 DEF Pages
    <2> QED BY <1>a, <2>2, <1>2 DEF Somewhere
  <1>4. CASE stage = "flush" /\ pend # {}
    <2> DEFINE q == Begin(r, "seal", 1)
               s == [q EXCEPT !.todo = Leveled \o @]
    <2>1. nchain' = nchain + 1 /\ job' = [job EXCEPT ![w] = s]
      BY <1>4 DEF Enter
    <2>2. q = Begin(r, "seal", 1) OBVIOUS
    <2> HIDE DEF q, r, list
    <2>3. /\ q.pc = "seal" /\ q.id = nchain + 1 /\ q.want = 1 /\ q.at = "start"
          /\ q.list = list /\ q.blk = Nothing /\ q.in = {} /\ q.gone = {}
          /\ q.xid = 0 /\ q.exclusive = job[w].exclusive
          /\ DOMAIN q = {"pc", "todo", "stage", "at", "list", "blk", "id", "want", "in", "gone",
                         "xid", "exclusive"}
      BY <2>2, <1>t, <1>1, BeginFields
    <2>4. /\ s.pc = "seal" /\ s.id = nchain + 1 /\ s.want = 1 /\ s.at = "start"
          /\ s.list = list /\ s.blk = Nothing /\ s.in = {} /\ s.gone = {}
          /\ s.xid = 0 /\ s.exclusive = job[w].exclusive
      BY <2>3
    <2> HIDE DEF s
    <2>5. Fits(s, nchain') BY <2>4, <2>1, <1>i, <1>a DEF Fits
    <2>6. nchain <= nchain' /\ nchain < nchain' /\ xid <= xid' BY <2>1, <1>2, <1>i
    <2>7. s.list \subseteq 1 .. nblocks BY <2>4, <1>l
    <2> QED BY <2>1, <2>4, <2>5, <2>6, <2>7, <1>a, <1>2, <1>3, MoveStep
  <1>5. CASE ~ (stage = "flush" /\ pend # {})
    <2>1. job' = [job EXCEPT ![w] = r] /\ nchain' = nchain BY <1>5 DEF Enter
    <2> HIDE DEF r, list
    <2>2. Fits(r, nchain') BY <1>1, <1>a, <2>1, <1>i DEF Fits
    <2>3. nchain <= nchain' /\ xid <= xid' BY <2>1, <1>2, <1>i
    <2>4. r.list \subseteq 1 .. nblocks BY <1>1, <1>l
    <2> QED BY <2>1, <2>2, <2>3, <2>4, <1>1, <1>a, <1>2, <1>3, MoveStep
  <1> QED BY <1>4, <1>5

LEMMA SealRest ==
    ASSUME AllocInv, TypeOK', lost = {}, NEW w \in Writers, Seal(w)
    PROVE  Rest'
  <1>i. TypeOK /\ nchain \in Nat /\ xid \in Nat \ {0} BY AllocAssumption DEF AllocInv, TypeOK
  <1>j. job[w] \in Job BY <1>i DEF TypeOK
  <1>f. Fits(job[w], nchain) /\ job[w].list \subseteq 1 .. nblocks
    BY DEF AllocInv, Scope, Points, InFile
  <1>a. /\ job[w].pc = "seal" /\ job[w].blk = Nothing /\ job[w].gone = {} /\ job[w].xid = 0
        /\ Maintaining(w) /\ Building(w)
    <2>1. job[w].pc = "seal" /\ job[w].want = 0 BY DEF Seal
    <2> QED BY <2>1, <1>f DEF Fits, Maintaining, Building
  <1>1. PICK n \in 1 .. Cardinality(Pages(pend)) :
           job' = [job EXCEPT ![w] = [Begin(job[w], "build", n) EXCEPT !.in = pend]]
    BY DEF Seal
  <1> DEFINE q == Begin(job[w], "build", n)
             r == [q EXCEPT !.in = pend]
  <1>2. q = Begin(job[w], "build", n) /\ job' = [job EXCEPT ![w] = r] BY <1>1
  <1> HIDE DEF q
  <1>3. /\ q.pc = "build" /\ q.id = nchain + 1 /\ q.at = "start"
        /\ q.list = job[w].list /\ q.blk = Nothing /\ q.gone = {}
        /\ q.xid = 0 /\ q.exclusive = job[w].exclusive
        /\ DOMAIN q = {"pc", "todo", "stage", "at", "list", "blk", "id", "want", "in", "gone",
                       "xid", "exclusive"}
    BY <1>2, <1>j, <1>a, BeginFields
  <1>4. /\ r.pc = "build" /\ r.id = nchain + 1 /\ r.at = "start"
        /\ r.list = job[w].list /\ r.blk = Nothing /\ r.gone = {} /\ r.in = pend
        /\ r.xid = 0 /\ r.exclusive = job[w].exclusive
    BY <1>3
  <1> HIDE DEF r
  <1>5. /\ UNCHANGED <<nblocks, page, chain, xid, scan, lost, fsm, mishaps>>
        /\ nchain' = nchain + 1 /\ dir' = dir \cup {job[w].id}
    BY DEF Seal
  <1>6. Fits(r, nchain') BY <1>4, <1>5, <1>i DEF Fits
  <1>7. nchain <= nchain' /\ nchain < nchain' /\ xid <= xid' BY <1>5, <1>i
  <1>8. \A b \in 1 .. nblocks : Somewhere(w, b) => Somewhere(w, b)'
    <2>1. \A b \in 1 .. nblocks : Owned(w, b) => b \in chain[job[w].id]
      BY <1>a DEF Owned, Nothing
    <2>2. \A b : b \in Pages(dir) \/ b \in chain[job[w].id] => b \in Pages(dir)'
      BY <1>5 DEF Pages
    <2> QED BY <2>1, <2>2, <1>5 DEF Somewhere
  <1>9. r.in \subseteq dir' /\ r.list \subseteq 1 .. nblocks BY <1>4, <1>5, <1>i, <1>f DEF TypeOK
  <1> QED BY <1>2, <1>4, <1>5, <1>6, <1>7, <1>8, <1>9, <1>a, MoveStep

LEMMA RewriteRest ==
    ASSUME AllocInv, TypeOK', lost = {}, NEW w \in Writers, Rewrite(w)
    PROVE  Rest'
  <1>i. TypeOK /\ nchain \in Nat /\ xid \in Nat \ {0} BY AllocAssumption DEF AllocInv, TypeOK
  <1>j. job[w] \in Job BY <1>i DEF TypeOK
  <1>a. /\ job[w].pc = "stage" /\ job[w].blk = Nothing /\ job[w].gone = {} /\ job[w].xid = 0
        /\ Maintaining(w) /\ job[w].list \subseteq 1 .. nblocks
        /\ \A b \in 1 .. nblocks : ~ Owned(w, b)
    BY AtRest DEF Rewrite
  <1>0. PICK in \in Inputs(w) : \E n \in 1 .. Max({1, Cardinality(Pages(in))}) :
           job' = [job EXCEPT ![w] = [Begin(job[w], "build", n) EXCEPT !.in = in]]
    BY DEF Rewrite
  <1>1. PICK n \in 1 .. Max({1, Cardinality(Pages(in))}) :
           job' = [job EXCEPT ![w] = [Begin(job[w], "build", n) EXCEPT !.in = in]]
    BY <1>0
  <1>b. in \subseteq dir BY DEF Inputs, Segments
  <1> DEFINE q == Begin(job[w], "build", n)
             r == [q EXCEPT !.in = in]
  <1>2. q = Begin(job[w], "build", n) /\ job' = [job EXCEPT ![w] = r] BY <1>1
  <1> HIDE DEF q
  <1>3. /\ q.pc = "build" /\ q.id = nchain + 1 /\ q.at = "start"
        /\ q.list = job[w].list /\ q.blk = Nothing /\ q.gone = {}
        /\ q.xid = 0 /\ q.exclusive = job[w].exclusive
        /\ DOMAIN q = {"pc", "todo", "stage", "at", "list", "blk", "id", "want", "in", "gone",
                       "xid", "exclusive"}
    BY <1>2, <1>j, <1>a, BeginFields
  <1>4. /\ r.pc = "build" /\ r.id = nchain + 1 /\ r.at = "start"
        /\ r.list = job[w].list /\ r.blk = Nothing /\ r.gone = {} /\ r.in = in
        /\ r.xid = 0 /\ r.exclusive = job[w].exclusive
    BY <1>3
  <1> HIDE DEF r
  <1>5. /\ UNCHANGED <<nblocks, page, chain, xid, scan, lost, fsm, mishaps, dir>>
        /\ nchain' = nchain + 1
    BY DEF Rewrite
  <1>6. Fits(r, nchain') BY <1>4, <1>5, <1>i DEF Fits
  <1>7. nchain <= nchain' /\ nchain < nchain' /\ xid <= xid' BY <1>5, <1>i
  <1>8. \A b \in 1 .. nblocks : Somewhere(w, b) => Somewhere(w, b)'
    <2>2. Pages(dir)' = Pages(dir) BY <1>5 DEF Pages
    <2> QED BY <1>a, <2>2, <1>5 DEF Somewhere
  <1>9. r.in \subseteq dir' /\ r.list \subseteq 1 .. nblocks BY <1>4, <1>5, <1>a, <1>b
  <1> QED BY <1>2, <1>4, <1>5, <1>6, <1>7, <1>8, <1>9, <1>a, MoveStep

\* Whoever stops is as if he had never begun, but for the pages he leaves.
LEMMA StopRest ==
    ASSUME AllocInv, TypeOK', lost = {}, NEW w \in Writers, Finish(w) \/ Abort(w)
    PROVE  Rest'
  <1>i. TypeOK /\ nchain \in Nat /\ xid \in Nat \ {0} BY AllocAssumption DEF AllocInv, TypeOK
  <1>1. job' = [job EXCEPT ![w] = Idle] BY DEF Finish, Abort
  <1>2. UNCHANGED <<nblocks, page, chain, nchain, xid, scan, lost, fsm, dir>> BY DEF Finish, Abort
  <1>3. /\ Idle.pc = "idle" /\ Idle.list = {} /\ Idle.blk = Nothing /\ Idle.gone = {}
        /\ Idle.exclusive = FALSE /\ Idle.xid = 0
    BY DEF Idle
  <1>4. Fits(Idle, nchain') BY <1>3 DEF Fits
  <1>5. nchain <= nchain' /\ xid <= xid' BY <1>2, <1>i
  <1>6. \/ mishaps' = mishaps + 1
        \/ mishaps' = mishaps /\ \A b \in 1 .. nblocks : Somewhere(w, b) => Somewhere(w, b)'
    <2>1. CASE Abort(w) BY <2>1 DEF Abort
    <2>2. CASE Finish(w)
      <3>1. \A b \in 1 .. nblocks : ~ Owned(w, b) BY <2>2, AtRest DEF Finish
      <3>2. Pages(dir)' = Pages(dir) BY <1>2 DEF Pages
      <3> QED BY <2>2, <3>1, <3>2, <1>2 DEF Finish, Somewhere
    <2> QED BY <2>1, <2>2
  <1>7. Idle.list \subseteq 1 .. nblocks BY <1>3
  <1> QED BY <1>1, <1>2, <1>3, <1>4, <1>5, <1>6, <1>7, MoveStep

LEMMA RecordFreeRest ==
    ASSUME AllocInv, TypeOK', lost = {}, NEW w \in Writers, RecordFree(w)
    PROVE  Rest'
  <1> DEFINE to == IF job[w].gone = {} THEN "stage" ELSE job[w].pc
             r == [job[w] EXCEPT !.blk = Nothing, !.pc = to]
  <1>i. TypeOK /\ nchain \in Nat /\ xid \in Nat \ {0} BY AllocAssumption DEF AllocInv, TypeOK
  <1>j. job[w] \in Job BY <1>i DEF TypeOK
  <1>f. Fits(job[w], nchain) /\ job[w].list \subseteq 1 .. nblocks
    BY DEF AllocInv, Scope, Points, InFile
  <1>a. job[w].pc = "free" /\ job[w].xid = 0 /\ Maintaining(w)
    BY <1>f DEF RecordFree, Fits, Maintaining
  <1>1. job' = [job EXCEPT ![w] = r] /\ fsm' = fsm \cup {job[w].blk}
    BY DEF RecordFree
  <1>2. UNCHANGED <<nblocks, page, chain, nchain, xid, scan, lost, dir, mishaps>> BY DEF RecordFree
  <1>3. to \in {"stage", "free"} /\ (to = "stage" => job[w].gone = {}) BY <1>a
  <1>4. /\ r.pc = to /\ r.list = job[w].list /\ r.blk = Nothing /\ r.gone = job[w].gone
        /\ r.exclusive = job[w].exclusive /\ r.xid = 0
    <2> HIDE DEF to
    <2> QED BY <1>j, <1>a DEF Job
  <1> HIDE DEF r, to
  <1>5. Fits(r, nchain') BY <1>3, <1>4 DEF Fits
  <1>6. nchain <= nchain' /\ xid <= xid' BY <1>2, <1>i
  <1>7. \A b \in 1 .. nblocks : Somewhere(w, b) => Somewhere(w, b)'
    <2>1. Pages(dir)' = Pages(dir) BY <1>2 DEF Pages
    <2>2. job'[w] = r BY <1>1, <1>i DEF TypeOK
    <2> QED BY <2>1, <2>2, <1>1, <1>4, <1>a DEF Somewhere, Owned
  <1>8. \/ r.gone = {}
        \/ r.gone = job[w].gone /\ dir' = dir /\ r.pc = "free"
    BY <1>2, <1>3, <1>4
  <1>9. r.list \subseteq 1 .. nblocks BY <1>4, <1>f
  <1>10. r.pc \notin {"seal", "build"} BY <1>3, <1>4
  <1> QED BY <1>1, <1>2, <1>4, <1>5, <1>6, <1>7, <1>8, <1>9, <1>10, <1>a, MoveStep

LEMMA PublishRest ==
    ASSUME AllocInv, TypeOK', lost = {}, NEW w \in Writers, Publish(w)
    PROVE  Rest'
  <1>i. TypeOK /\ nchain \in Nat /\ xid \in Nat \ {0} BY AllocAssumption DEF AllocInv, TypeOK
  <1>j. job[w] \in Job BY <1>i DEF TypeOK
  <1>f. Fits(job[w], nchain) /\ job[w].list \subseteq 1 .. nblocks
    BY DEF AllocInv, Scope, Points, InFile
  <1>a. job[w].pc = "build" /\ job[w].blk = Nothing /\ job[w].gone = {} /\ Building(w)
    <2>1. job[w].pc = "build" /\ job[w].want = 0 BY DEF Publish
    <2> QED BY <2>1, <1>f DEF Fits, Building
  <1>2. UNCHANGED <<nblocks, page, chain, nchain, xid, scan, lost, fsm, mishaps>> BY DEF Publish
  <1>6. nchain <= nchain' /\ xid <= xid' BY <1>2, <1>i
  <1>o. \A b \in 1 .. nblocks : Owned(w, b) => b \in chain[job[w].id]
    BY <1>a DEF Owned, Nothing
  <1>1. CASE job[w].stage \in {"append", "oversized"}
    <2>1. job' = [job EXCEPT ![w] = Idle] /\ dir' = dir \cup {job[w].id}
      BY <1>1 DEF Publish
    <2>2. /\ Idle.pc = "idle" /\ Idle.list = {} /\ Idle.blk = Nothing /\ Idle.gone = {}
          /\ Idle.exclusive = FALSE /\ Idle.xid = 0
      BY DEF Idle
    <2>3. Fits(Idle, nchain') BY <2>2 DEF Fits
    <2>4. \A b \in 1 .. nblocks : Somewhere(w, b) => Somewhere(w, b)'
      <3>1. \A b : b \in Pages(dir) \/ b \in chain[job[w].id] => b \in Pages(dir)'
        BY <2>1, <1>2 DEF Pages
      <3> QED BY <3>1, <1>o, <1>2 DEF Somewhere
    <2>5. Idle.list \subseteq 1 .. nblocks BY <2>2
    <2> QED BY <2>1, <2>2, <2>3, <2>4, <2>5, <1>2, <1>6, <1>a, MoveStep
  <1>3. CASE job[w].stage \notin {"append", "oversized"}
    <2>0. job[w].xid = 0 /\ Maintaining(w) BY <1>3, <1>f, <1>a DEF Fits, Maintaining
    <2>1. PICK out \in {job[w].in, pend} :
               /\ dir' = (dir \ out) \cup {job[w].id}
               /\ job' = [job EXCEPT ![w].pc = IF out = {} THEN "stage" ELSE "free",
                                     ![w].gone = Pages(out)]
      BY <1>3 DEF Publish
    <2> DEFINE to == IF out = {} THEN "stage" ELSE "free"
               gone == Pages(out)
               r == [job[w] EXCEPT !.pc = to, !.gone = gone]
    <2>2. out \in SUBSET dir
      <3>1. job[w].in \subseteq dir BY <1>a DEF AllocInv, Chains, InKept
      <3> QED BY <3>1, <1>i DEF TypeOK
    <2>3. dir' \cap out = {}
      <3>1. job[w].id \notin dir BY <1>a DEF AllocInv, Chains, IdsApart
      <3> QED BY <3>1, <2>1, <2>2
    <2>4. job' = [job EXCEPT ![w] = r] BY <2>1
    <2>5. to \in {"stage", "free"} /\ (to = "stage" => gone = {}) BY DEF Pages
    <2>6. /\ r.pc = to /\ r.list = job[w].list /\ r.blk = Nothing /\ r.gone = gone
          /\ r.exclusive = job[w].exclusive /\ r.xid = 0
      <3> HIDE DEF to, gone
      <3> QED BY <1>j, <1>a, <2>0 DEF Job
    <2>7. job'[w] = r BY <2>4, <1>i DEF TypeOK
    <2> HIDE DEF r, to
    <2>8. Fits(r, nchain') BY <2>5, <2>6 DEF Fits
    <2>9. \A b \in 1 .. nblocks : Somewhere(w, b) => Somewhere(w, b)'
      <3>1. \A b : b \in Pages(dir) \/ b \in chain[job[w].id] => b \in Pages(dir)' \/ b \in gone
        BY <2>1, <1>2 DEF Pages
      <3>2. \A b \in gone : Owned(w, b)' BY <2>6, <2>7 DEF Owned
      <3> HIDE DEF gone
      <3> QED BY <3>1, <3>2, <1>o, <1>2 DEF Somewhere
    <2>10. r.list \subseteq 1 .. nblocks BY <2>6, <1>f
    <2>11. r.pc \notin {"seal", "build"} BY <2>5, <2>6
    <2>12. \/ r.gone = {}
           \/ r.pc = "free" /\ \E o \in SUBSET dir : r.gone = Pages(o) /\ dir' \cap o = {}
      BY <2>2, <2>3, <2>5, <2>6
    <2>13. \/ dir' = (dir \ job[w].in) \cup {job[w].id} /\ Building(w) /\ Maintaining(w)
           \/ dir' = (dir \ pend) \cup {job[w].id} /\ Building(w) /\ Maintaining(w)
      BY <2>0, <2>1, <1>a
    <2> HIDE DEF gone
    <2> QED BY <2>0, <2>4, <2>6, <2>8, <2>9, <2>10, <2>11, <2>12, <2>13, <1>2, <1>6, MoveStep
  <1> QED BY <1>1, <1>3

-----------------------------------------------------------------------------
(* A page is freed; the file is cut. *)

LEMMA FreePageRest ==
    ASSUME AllocInv, TypeOK', lost = {}, NEW w \in Writers, FreePage(w)
    PROVE  Rest'
  <1>i. TypeOK /\ Scope /\ Points /\ InFile /\ OneMaintainer /\ Chains /\ Contents /\ Accounted
        /\ nchain \in Nat /\ xid \in Nat \ {0} /\ nblocks \in Nat
    BY AllocAssumption DEF AllocInv, Scope, TypeOK
  <1>j. job[w] \in Job BY <1>i DEF TypeOK
  <1>1. PICK b \in job[w].gone :
           /\ page' = [page EXCEPT ![b].kind = "freed", ![b].stamp = xid]
           /\ job' = [job EXCEPT ![w].gone = @ \ {b}, ![w].blk = b]
    BY DEF FreePage
  <1> DEFINE gone == job[w].gone \ {b}
             r == [job[w] EXCEPT !.gone = gone, !.blk = b]
  <1>2. UNCHANGED <<nblocks, fsm, chain, nchain, dir, pend, xid, scan, lost, mishaps>>
    BY DEF FreePage
  <1>f. Fits(job[w], nchain) /\ job[w].list \subseteq 1 .. nblocks
        /\ job[w].gone \subseteq 1 .. nblocks
    BY <1>i DEF Points, InFile
  <1>a. job[w].pc = "free" /\ job[w].xid = 0 /\ Maintaining(w) /\ job[w].blk = Nothing
    BY <1>f DEF FreePage, Fits, Maintaining
  <1>3. job' = [job EXCEPT ![w] = r] BY <1>1
  <1>4. Only(w) /\ job'[w] = r BY <1>3, <1>i, OnlyOne
  <1>5. /\ r.pc = "free" /\ r.list = job[w].list /\ r.blk = b /\ r.gone = gone
        /\ r.exclusive = job[w].exclusive /\ r.xid = 0
    <2> HIDE DEF gone
    <2> QED BY <1>j, <1>a DEF Job
  <1>6. b \in Block /\ b <= nblocks /\ b # Nothing BY <1>f, <1>j DEF Job, Block, Nothing
  <1>7. /\ \A x \in Block \ {b} : page'[x] = page[x]
        /\ page'[b].kind = "freed" /\ page'[b].own = page[b].own /\ page'[b].stamp = xid
    <2>1. page[b] \in Page BY <1>6, <1>i DEF TypeOK
    <2>2. page'[b] = [page[b] EXCEPT !.kind = "freed", !.stamp = xid]
      BY <1>1, <1>6, <1>i DEF TypeOK
    <2>3. /\ page'[b].kind = "freed" /\ page'[b].own = page[b].own /\ page'[b].stamp = xid
      BY <2>1, <2>2 DEF Page
    <2>4. \A x \in Block \ {b} : page'[x] = page[x] BY <1>1, <1>i DEF TypeOK
    <2> QED BY <2>3, <2>4
  <1>8. \A v \in Writers \ {w} : job[v].gone = {}
    BY <1>i, <1>a DEF Points, Fits, OneMaintainer, Maintaining
  <1> HIDE DEF r
  <1>c. \A v \in Writers : Building(v)' => v # w /\ Building(v) /\ job'[v].id = job[v].id
    BY <1>4, <1>5 DEF Building, Only
  <1>d. \A i \in Chain : chain'[i] = chain[i] /\ chain[i] \subseteq Block BY <1>2, <1>i DEF TypeOK
  <1>e. dir \subseteq Chain /\ \A v \in Writers : Building(v) => job[v].id \in Chain
    BY <1>i, AllocAssumption DEF TypeOK, Chain, Points, Fits, Building
  <1>g. \A i \in dir : b \notin chain[i] BY <1>i DEF Contents, GoneApart
  <1>h. \A v \in Writers : Building(v) => b \notin chain[job[v].id] BY <1>i DEF Contents, GoneApart
  <1>9. Contents'
    <2>1. DirectoryIntact'
      <3>1. \A i \in dir : Holds(i) /\ \A x \in chain[i] : page[x].kind = "live"
        BY <1>i DEF Contents, DirectoryIntact
      <3> QED BY <3>1, <1>2, <1>7, <1>d, <1>e, <1>g DEF DirectoryIntact, Holds
    <2>2. OutputIntact'
      <3>1. \A v \in Writers : Building(v) =>
               \A x \in chain[job[v].id] : x \in Block \ {b} /\ x <= nblocks /\ page[x].own = job[v].id
                                           /\ page[x].kind = "live"
        BY <1>i, <1>d, <1>e, <1>h DEF Contents, OutputIntact, Holds, Building
      <3>2. \A v \in Writers : Building(v)' =>
               \A x \in chain[job'[v].id] : x <= nblocks /\ page'[x].own = job'[v].id
                                           /\ page'[x].kind = "live"
        BY <3>1, <1>c, <1>7
      <3> QED BY <3>2, <1>2 DEF OutputIntact, Holds, Building
    <2>3. GoneApart'
      <3>1. \A x \in gone : x \in Block \ {b} /\ page[x].kind = "live"
               /\ (\A i \in dir : x \notin chain[i])
               /\ \A v \in Writers : Building(v) => x \notin chain[job[v].id]
        BY <1>i, <1>j DEF Contents, GoneApart, Job
      <3>2. \A v \in Writers : job'[v].gone = IF v = w THEN gone ELSE {}
        BY <1>4, <1>5, <1>8 DEF Only
      <3> HIDE DEF gone
      <3> QED BY <3>1, <3>2, <1>2, <1>7, <1>c DEF GoneApart
    <2>4. Gated'
      <3>1. ASSUME NEW c \in Scanning, NEW i \in scan[c].dir, NEW x \in chain[i]
            PROVE  /\ x <= nblocks /\ page'[x].own = i
                   /\ \/ page'[x].kind = "live"
                      \/ page'[x].kind = "freed" /\ scan[c].xmin <= page'[x].stamp
        <4>1. x \in Block BY <1>d, <1>i DEF TypeOK, Scanning
        <4>2. x <= nblocks /\ page[x].own = i
               /\ (page[x].kind = "live" \/ (page[x].kind = "freed" /\ scan[c].xmin <= page[x].stamp))
          BY <1>i DEF Contents, Gated
        <4>3. scan[c].xmin <= xid BY <1>i DEF Chains, ScanPast, Scanning
        <4> QED BY <4>1, <4>2, <4>3, <1>7
      <3> QED BY <3>1, <1>2 DEF Gated, Scanning
    <2> QED BY <2>1, <2>2, <2>3, <2>4 DEF Contents
  <1>10. Scope'
    <2>1. Fits(job'[w], nchain') BY <1>4, <1>5, <1>f DEF Fits
    <2>2. /\ job'[w].list \subseteq 1 .. nblocks' /\ job'[w].gone \subseteq 1 .. nblocks'
          /\ job'[w].blk <= nblocks'
      BY <1>4, <1>5, <1>f, <1>2, <1>6
    <2>3. /\ job'[w].pc # "idle" /\ job'[w].xid = 0 =>
               Maintaining(w) \/ \A v \in Writers : ~ Maintaining(v)
          /\ job'[w].exclusive => job[w].exclusive \/ Scanning = {}
      BY <1>4, <1>5, <1>a
    <2>4. nchain <= nchain' /\ nblocks <= nblocks' /\ UNCHANGED scan BY <1>2, <1>i
    <2> HIDE DEF gone
    <2> QED BY <1>i, <1>4, <2>1, <2>2, <2>3, <2>4, ScopeStep
  <1>11. Chains'
    <2>1. job'[w].pc \notin {"seal", "build"} /\ job'[w].pc # "build" BY <1>4, <1>5
    <2>2. nchain <= nchain' /\ xid <= xid' /\ UNCHANGED scan /\ UNCHANGED chain /\ dir' = dir
      BY <1>2, <1>i
    <2> HIDE DEF gone
    <2> QED BY <1>i, <1>4, <2>1, <2>2, ChainsStep
  <1>12. Accounted'
    <2>1. \A x \in 1 .. nblocks : Somewhere(w, x) => Somewhere(w, x)'
      <3>1. Pages(dir)' = Pages(dir) BY <1>2 DEF Pages
      <3> QED BY <3>1, <1>2, <1>4, <1>5, <1>a DEF Somewhere, Owned, Nothing
    <2>2. /\ \A x \in 1 .. nblocks' : ~ (x > nblocks)
          /\ \A i \in Chain : chain[i] \subseteq chain'[i]
          /\ nblocks <= nblocks' /\ mishaps' = mishaps
      BY <1>2, <1>i
    <2> HIDE DEF gone
    <2> QED BY <1>i, <1>4, <2>1, <2>2, AccountedStep
  <1> QED BY <1>9, <1>10, <1>11, <1>12 DEF Rest

LEMMA TruncateRest ==
    ASSUME AllocInv, TypeOK', lost = {}, NEW w \in Writers, Truncate(w)
    PROVE  Rest'
  <1> DEFINE todo == Tail(job[w].todo)
             r == [job[w] EXCEPT !.todo = todo, !.stage = "cut", !.list = {}]
  <1>i. TypeOK /\ Scope /\ Points /\ InFile /\ OneMaintainer /\ Chains /\ Contents /\ Accounted
        /\ nchain \in Nat /\ xid \in Nat \ {0} /\ nblocks \in Nat
    BY AllocAssumption DEF AllocInv, Scope, TypeOK
  <1>j. job[w] \in Job BY <1>i DEF TypeOK
  <1>a. /\ job[w].pc = "stage" /\ job[w].blk = Nothing /\ job[w].gone = {} /\ job[w].xid = 0
        /\ Maintaining(w) /\ \A b \in 1 .. nblocks : ~ Owned(w, b)
    BY AtRest DEF Truncate
  <1>1. job' = [job EXCEPT ![w] = r] BY DEF Truncate
  <1>2. UNCHANGED <<chain, nchain, dir, pend, xid, scan, mishaps>> BY DEF Truncate
  <1>3. /\ r.pc = "stage" /\ r.list = {} /\ r.blk = Nothing /\ r.gone = {}
        /\ r.exclusive = job[w].exclusive /\ r.xid = 0
    <2> HIDE DEF todo
    <2> QED BY <1>j, <1>a DEF Job
  <1>4. Only(w) /\ job'[w] = r BY <1>1, <1>i, OnlyOne
  <1> HIDE DEF r
  <1>5. Fits(r, nchain') BY <1>3 DEF Fits
  <1>6. nchain <= nchain' /\ xid <= xid' BY <1>2, <1>i
  <1>7. CASE UNCHANGED <<nblocks, fsm, page, lost>>
    <2>1. \A b \in 1 .. nblocks : Somewhere(w, b) => Somewhere(w, b)'
      <3>1. Pages(dir)' = Pages(dir) BY <1>2 DEF Pages
      <3> QED BY <3>1, <1>7, <1>a DEF Somewhere
    <2>2. r.list \subseteq 1 .. nblocks /\ r.pc \notin {"seal", "build"} BY <1>3
    <2>3. UNCHANGED <<nblocks, page, chain, scan, lost>> /\ dir' = dir /\ mishaps' = mishaps
      BY <1>2, <1>7
    <2> QED BY <1>1, <1>3, <1>5, <1>6, <1>a, <2>1, <2>2, <2>3, MoveStep
  <1>8. CASE /\ OthersIdle(w) /\ nblocks' = FreeTailStart /\ fsm' = MapLeft(nblocks')
             /\ page' = [b \in Block |-> IF b > nblocks' THEN New ELSE page[b]]
             /\ lost' = {b \in Pages(dir) : b > nblocks'}
    <2>1. nblocks' \in 0 .. nblocks BY <1>8, <1>i, TailStart
    <2>2. /\ \A v \in Writers \ {w} : job[v].pc = "idle" /\ job[v] = Idle
          /\ Scanning = {}
      BY <1>8, <1>i DEF OthersIdle, Points, Fits
    <2>3. Scope'
      <3>1. Fits(job'[w], nchain') BY <1>4, <1>5
      <3>2. /\ job'[w].list \subseteq 1 .. nblocks' /\ job'[w].gone \subseteq 1 .. nblocks'
            /\ job'[w].blk <= nblocks'
        BY <1>3, <1>4, <2>1 DEF Nothing
      <3>3. /\ job'[w].pc # "idle" /\ job'[w].xid = 0 =>
                 Maintaining(w) \/ \A v \in Writers : ~ Maintaining(v)
            /\ job'[w].exclusive => job[w].exclusive \/ Scanning = {}
        BY <1>a, <2>2
      <3>4. UNCHANGED scan BY <1>2
      <3> QED BY <1>i, <1>4, <1>6, <2>2, <3>1, <3>2, <3>3, <3>4, ScopeStep
    <2>4. Chains'
      <3>1. job'[w].pc \notin {"seal", "build"} /\ job'[w].pc # "build" BY <1>3, <1>4
      <3>2. UNCHANGED scan /\ UNCHANGED chain /\ dir' = dir BY <1>2
      <3> QED BY <1>i, <1>4, <1>6, <3>1, <3>2, ChainsStep
    <2>5. \A v \in Writers : job'[v].gone = {} /\ job'[v].pc \notin {"seal", "build"}
                             /\ job[v].gone = {} /\ job[v].pc \notin {"seal", "build"}
      BY <1>3, <1>4, <1>a, <2>2 DEF Only, Idle
    <2>6. Contents'
      <3>1. DirectoryIntact'
        <4>1. SUFFICES ASSUME lost' = {}, NEW i \in dir, NEW b \in chain[i]
                       PROVE  b <= nblocks' /\ page'[b].own = i /\ page'[b].kind = "live"
          BY <1>2 DEF DirectoryIntact, Holds
        <4>2. b \in Block
          <5>1. dir \subseteq Chain BY <1>i, AllocAssumption DEF TypeOK, Chain
          <5> QED BY <5>1, <1>i DEF TypeOK
        <4>3. b \in Pages(dir) BY DEF Pages
        <4>4. ~ (b > nblocks') BY <1>8, <4>1, <4>3
        <4>5. page'[b] = page[b] BY <1>8, <4>2, <4>4
        <4>6. page[b].own = i /\ page[b].kind = "live"
          BY <1>i DEF Contents, DirectoryIntact, Holds
        <4> QED BY <4>2, <4>4, <4>5, <4>6, <2>1 DEF Block
      <3>2. OutputIntact' BY <2>5 DEF OutputIntact
      <3>3. GoneApart' BY <2>5 DEF GoneApart
      <3>4. Gated' BY <1>2, <2>2 DEF Gated, Scanning
      <3> QED BY <3>1, <3>2, <3>3, <3>4 DEF Contents
    <2>7. Accounted'
      <3>1. SUFFICES ASSUME mishaps = 0, NEW b \in 1 .. nblocks'
                     PROVE  b \in fsm' \/ b \in Pages(dir)'
        BY <1>2 DEF Accounted
      <3>2. b \in 1 .. nblocks BY <2>1, <1>i
      <3>3. b \in fsm \/ b \in Pages(dir)
        <4>1. \A v \in Writers : ~ Owned(v, b)
          BY <2>2, <2>5, <1>a, <3>2 DEF Owned, Idle, Nothing
        <4> QED BY <1>i, <3>1, <3>2, <4>1 DEF Accounted, Owned
      <3>4. Pages(dir)' = Pages(dir) BY <1>2 DEF Pages
      <3> QED BY <3>3, <3>4, <1>8 DEF MapLeft
    <2> QED BY <2>3, <2>4, <2>6, <2>7 DEF Rest
  <1> QED BY <1>7, <1>8 DEF Truncate

-----------------------------------------------------------------------------
(* The scans, and a crash. *)

LEMMA ScanRest ==
    ASSUME AllocInv, TypeOK', lost = {}, NEW c \in Scans,
           BeginScan(c) \/ ReadMeta(c) \/ EndScan(c)
    PROVE  Rest'
  <1>i. TypeOK /\ Scope /\ Chains /\ Contents /\ Accounted BY DEF AllocInv
  <1>t. scan[c].xmin \in Nat /\ xid \in Nat BY <1>i DEF TypeOK
  <1>1. UNCHANGED <<nblocks, page, fsm, chain, nchain, dir, xid, job, lost, mishaps>>
    BY DEF BeginScan, ReadMeta, EndScan
  <1>2. \A d \in Scans \ {c} : scan'[d] = scan[d]
    BY <1>i DEF BeginScan, ReadMeta, EndScan, TypeOK
  <1>3. \/ scan'[c].dir = {} /\ scan'[c].xmin <= xid /\ scan'[c].xmin \in Nat
             /\ (Exclusive => scan'[c].xmin = 0)
        \/ scan'[c].dir = dir /\ scan'[c].xmin = scan[c].xmin /\ scan[c].xmin # 0
    <2>1. CASE BeginScan(c)
      <3>1. scan'[c] = [scan[c] EXCEPT !.xmin = Min({xid} \cup Running)]
        BY <2>1, <1>i DEF BeginScan, TypeOK
      <3>2. scan'[c].xmin = Min({xid} \cup Running) /\ scan'[c].dir = scan[c].dir
        BY <3>1, <1>i DEF TypeOK
      <3>3. scan[c].dir = {} /\ ~ Exclusive BY <2>1, <1>i DEF BeginScan, Chains, ScanPast
      <3> QED BY <3>2, <3>3, <1>i, SnapshotBehind
    <2>2. CASE ReadMeta(c)
      <3>1. scan'[c] = [scan[c] EXCEPT !.dir = dir] BY <2>2, <1>i DEF ReadMeta, TypeOK
      <3> QED BY <2>2, <3>1, <1>i DEF ReadMeta, TypeOK
    <2>3. CASE EndScan(c)
      <3>1. scan'[c] = NoScan BY <2>3, <1>i DEF EndScan, TypeOK
      <3> QED BY <3>1, <1>t DEF NoScan
    <2> QED BY <2>1, <2>2, <2>3
  <1>4. Scope'
    <2>1. Points' /\ InFile' /\ OneMaintainer'
      BY <1>i, <1>1 DEF Scope, Points, InFile, OneMaintainer, Maintaining
    <2>2. ExclusiveAlone'
      <3>1. ASSUME Exclusive, NEW d \in Scans, scan'[d].xmin # 0 PROVE FALSE
        <4>1. scan[d].xmin = 0 BY <1>i, <3>1 DEF Scope, ExclusiveAlone, Scanning
        <4>2. CASE d # c BY <4>1, <4>2, <3>1, <1>2
        <4>3. CASE d = c BY <4>1, <4>3, <3>1, <1>3
        <4> QED BY <4>2, <4>3
      <3> QED BY <3>1, <1>1 DEF ExclusiveAlone, Exclusive, Scanning
    <2> QED BY <2>1, <2>2 DEF Scope
  <1>5. Chains'
    <2>1. ASSUME NEW w \in Writers, Building(w)
          PROVE  job[w].id \notin dir /\ \A d \in Scans : job[w].id \notin scan'[d].dir
      BY <1>i, <1>2, <1>3, <2>1 DEF Chains, IdsApart
    <2>2. IdsApart'
      BY <2>1, <1>i, <1>1 DEF Chains, IdsApart, Building
    <2>3. ScanPast'
      <3>1. \A d \in Scans : /\ scan'[d].dir \subseteq 1 .. nchain /\ scan'[d].xmin <= xid
                             /\ scan'[d].xmin = 0 => scan'[d].dir = {}
        BY <1>i, <1>2, <1>3 DEF Chains, ScanPast, TypeOK
      <3> QED BY <3>1, <1>1 DEF ScanPast
    <2>4. ChainsFresh' /\ InKept' BY <1>i, <1>1 DEF Chains, ChainsFresh, InKept
    <2> QED BY <2>2, <2>3, <2>4 DEF Chains
  <1>6. Contents'
    <2>1. DirectoryIntact' /\ OutputIntact' /\ GoneApart'
      BY <1>i, <1>1 DEF Contents, DirectoryIntact, OutputIntact, GoneApart, Holds, Building
    <2>2. Gated'
      <3>1. ASSUME NEW d \in Scans, scan'[d].xmin # 0, NEW i \in scan'[d].dir, NEW b \in chain[i]
            PROVE  /\ b <= nblocks /\ page[b].own = i
                   /\ \/ page[b].kind = "live"
                      \/ page[b].kind = "freed" /\ scan'[d].xmin <= page[b].stamp
        <4>1. CASE d # c BY <3>1, <4>1, <1>i, <1>2 DEF Contents, Gated, Scanning
        <4>2. CASE d = c
          BY <3>1, <4>2, <1>i, <1>3 DEF Contents, DirectoryIntact, Holds
        <4> QED BY <4>1, <4>2
      <3> QED BY <3>1, <1>1 DEF Gated, Scanning
    <2> QED BY <2>1, <2>2 DEF Contents
  <1>7. Accounted' BY <1>i, <1>1 DEF Accounted, Pages
  <1> QED BY <1>4, <1>5, <1>6, <1>7 DEF Rest

LEMMA CrashRest ==
    ASSUME AllocInv, TypeOK', lost = {}, Crash
    PROVE  Rest'
  <1>i. TypeOK /\ Scope /\ Chains /\ Contents /\ mishaps \in Nat
    BY AllocAssumption DEF AllocInv, TypeOK
  <1>1. UNCHANGED <<page, chain, nchain, dir, pend, xid, lost>> /\ mishaps' = mishaps + 1
    BY DEF Crash
  <1>2. nblocks \in Nat /\ nblocks' \in Nat /\ nblocks <= nblocks'
    BY <1>i, AllocAssumption DEF Crash, TypeOK
  <1>3. \A w \in Writers : job'[w] = Idle BY DEF Crash
  <1>4. \A c \in Scans : scan'[c] = NoScan BY DEF Crash
  <1>5. /\ Idle.pc = "idle" /\ Idle.list = {} /\ Idle.blk = Nothing /\ Idle.gone = {}
        /\ Idle.exclusive = FALSE /\ Idle.xid = 0
    BY DEF Idle
  <1>6. NoScan.xmin = 0 /\ NoScan.dir = {} BY DEF NoScan
  <1>7. Scope'
    <2>1. Fits(Idle, nchain') BY <1>5 DEF Fits
    <2>2. Points' /\ OneMaintainer' /\ ExclusiveAlone'
      BY <1>3, <1>5, <2>1 DEF Points, OneMaintainer, ExclusiveAlone, Exclusive, Maintaining
    <2>3. InFile' BY <1>2, <1>3, <1>5 DEF InFile, Nothing
    <2> QED BY <2>2, <2>3 DEF Scope
  <1>8. Chains'
    <2>1. IdsApart' /\ InKept' BY <1>3, <1>5 DEF IdsApart, InKept, Building
    <2>2. ChainsFresh' BY <1>i, <1>1 DEF Chains, ChainsFresh
    <2>3. ScanPast' BY <1>i, <1>1, <1>4, <1>6 DEF ScanPast, TypeOK
    <2> QED BY <2>1, <2>2, <2>3 DEF Chains
  <1>9. Contents'
    <2>1. DirectoryIntact'
      <3>1. \A i \in dir : chain[i] \subseteq Block
        <4>1. dir \subseteq Chain BY <1>i, AllocAssumption DEF TypeOK, Chain
        <4> QED BY <4>1, <1>i DEF TypeOK
      <3>2. \A b \in Block : b <= nblocks => b <= nblocks' BY <1>2 DEF Block
      <3> QED BY <3>1, <3>2, <1>i, <1>1 DEF Contents, DirectoryIntact, Holds
    <2>2. OutputIntact' /\ GoneApart' BY <1>3, <1>5 DEF OutputIntact, GoneApart
    <2>3. Gated' BY <1>4, <1>6 DEF Gated, Scanning
    <2> QED BY <2>1, <2>2, <2>3 DEF Contents
  <1>10. Accounted' BY <1>1, <1>i DEF Accounted
  <1> QED BY <1>7, <1>8, <1>9, <1>10 DEF Rest

-----------------------------------------------------------------------------
LEMMA AllocInit == Init => AllocInv
  <1> SUFFICES ASSUME Init PROVE AllocInv OBVIOUS
  <1>t. Built \in Nat /\ MaxBlock \in Nat \ {0} /\ MaxChain \in Nat /\ MaxMishaps \in Nat
        /\ Built <= MaxBlock /\ Built <= MaxChain
    BY AllocAssumption
  <1>1. /\ Idle.pc = "idle" /\ Idle.list = {} /\ Idle.blk = Nothing /\ Idle.gone = {}
        /\ Idle.exclusive = FALSE /\ Idle.xid = 0
    BY DEF Idle
  <1>2. NoScan.xmin = 0 /\ NoScan.dir = {} BY DEF NoScan
  <1>3. \A w \in Writers : job[w] = Idle BY DEF Init
  <1>4. \A c \in Scans : scan[c] = NoScan BY DEF Init
  <1>5. TypeOK
    <2>1. job \in [Writers -> Job] BY JobTypes DEF Init
    <2>2. scan \in [Scans -> [xmin : Nat, dir : SUBSET Chain]] BY DEF Init, NoScan
    <2>3. page \in [Block -> Page]
      <3>1. New \in Page BY DEF New, Page
      <3>2. \A b \in Block : b <= Built => [kind |-> "live", own |-> b, stamp |-> 0] \in Page
        BY <1>t DEF Page, Block, Chain
      <3> QED BY <3>1, <3>2 DEF Init
    <2>4. chain \in [Chain -> SUBSET Block] BY <1>t DEF Init, Chain, Block
    <2>5. /\ nblocks \in 0 .. MaxBlock /\ fsm \subseteq 1 .. nblocks
          /\ nchain \in 0 .. MaxChain /\ dir \subseteq 1 .. nchain /\ pend \subseteq dir
          /\ xid \in Nat \ {0} /\ lost \subseteq Block /\ mishaps \in 0 .. MaxMishaps
      BY <1>t DEF Init
    <2> QED BY <2>1, <2>2, <2>3, <2>4, <2>5 DEF TypeOK
  <1>6. Scope
    <2>1. Fits(Idle, nchain) BY <1>1 DEF Fits
    <2>2. Points /\ OneMaintainer /\ ExclusiveAlone
      BY <1>1, <1>3, <2>1 DEF Points, OneMaintainer, ExclusiveAlone, Exclusive, Maintaining
    <2>3. InFile BY <1>t, <1>1, <1>3 DEF InFile, Nothing, Init
    <2> QED BY <2>2, <2>3 DEF Scope
  <1>7. Chains
    <2>1. IdsApart /\ InKept BY <1>1, <1>3 DEF IdsApart, InKept, Building
    <2>2. ChainsFresh BY <1>t DEF ChainsFresh, Init, Chain
    <2>3. ScanPast
      <3>1. xid = 1 BY DEF Init
      <3> QED BY <1>2, <1>4, <3>1 DEF ScanPast
    <2> QED BY <2>1, <2>2, <2>3 DEF Chains
  <1>d. \A i \in dir : i \in Chain /\ chain[i] = {i} /\ i \in Block /\ i <= nblocks
                       /\ page[i] = [kind |-> "live", own |-> i, stamp |-> 0]
    BY <1>t DEF Init, Chain, Block
  <1>8. Contents
    <2>1. DirectoryIntact
      <3>1. \A i \in dir : \A b \in chain[i] :
               b <= nblocks /\ page[b].own = i /\ page[b].kind = "live"
        <4>1. \A i \in dir : page[i].own = i /\ page[i].kind = "live" /\ i <= nblocks
          <5>1. \A i : LET p == [kind |-> "live", own |-> i, stamp |-> 0]
                       IN  p.own = i /\ p.kind = "live"
            OBVIOUS
          <5>2. \A i \in dir : page[i] = [kind |-> "live", own |-> i, stamp |-> 0] BY <1>d
          <5>3. \A i \in dir : page[i].own = i /\ page[i].kind = "live"
            BY <5>1, <5>2, Zenon
          <5> QED BY <5>3, <1>d
        <4>2. \A i \in dir : \A b \in chain[i] : b = i BY <1>d
        <4> QED BY <4>1, <4>2
      <3> QED BY <3>1 DEF DirectoryIntact, Holds
    <2>2. OutputIntact /\ GoneApart BY <1>1, <1>3 DEF OutputIntact, GoneApart
    <2>3. Gated BY <1>2, <1>4 DEF Gated, Scanning
    <2> QED BY <2>1, <2>2, <2>3 DEF Contents
  <1>9. Accounted
    <2>1. \A b \in 1 .. nblocks : b \in Pages(dir)
      <3>1. \A b \in 1 .. nblocks : b \in dir /\ b \in chain[b] BY <1>d DEF Init
      <3> QED BY <3>1 DEF Pages
    <2> QED BY <2>1 DEF Accounted
  <1> QED BY <1>5, <1>6, <1>7, <1>8, <1>9 DEF AllocInv

LEMMA AllocStep == AllocInv /\ [Next]_vars => AllocInv'
  <1> SUFFICES ASSUME AllocInv, [Next]_vars PROVE AllocInv' OBVIOUS
  <1>1. CASE Next
    <2>1. lost = {} BY <1>1 DEF Next
    <2>2. TypeOK' BY <1>1, TypeStep DEF AllocInv, Scope
    <2>3. ASSUME NEW w \in Writers, Work(w) PROVE Rest'
      BY <2>1, <2>2, <2>3, AllocatorRest, FreePageRest, RecordFreeRest, InsertRest, MaintainRest,
         EnterRest, SealRest, RewriteRest, PublishRest, TruncateRest, StopRest DEF Work
    <2>4. ASSUME NEW c \in Scans, BeginScan(c) \/ ReadMeta(c) \/ EndScan(c) PROVE Rest'
      BY <2>1, <2>2, <2>4, ScanRest
    <2>5. ASSUME Crash PROVE Rest' BY <2>1, <2>2, <2>5, CrashRest
    <2>6. Rest' BY <1>1, <2>3, <2>4, <2>5 DEF Next
    <2> QED BY <2>2, <2>6 DEF Rest, AllocInv
  <1>2. CASE UNCHANGED vars
    <2>1. TypeOK' BY <1>2 DEF AllocInv, TypeOK, vars
    <2>2. Scope'
      BY <1>2 DEF AllocInv, vars, Scope, Points, InFile, OneMaintainer, ExclusiveAlone, Maintaining,
                  Exclusive, Scanning
    <2>3. Chains'
      BY <1>2 DEF AllocInv, vars, Chains, IdsApart, ChainsFresh, ScanPast, InKept, Building
    <2>4. Contents'
      BY <1>2 DEF AllocInv, vars, Contents, DirectoryIntact, OutputIntact, GoneApart, Gated, Holds,
                  Building, Scanning
    <2>5. Accounted' BY <1>2 DEF AllocInv, vars, Accounted, Pages
    <2> QED BY <2>1, <2>2, <2>3, <2>4, <2>5 DEF AllocInv
  <1> QED BY <1>1, <1>2

\* The inductive invariant of the allocator.
LEMMA AllocSafe == Spec => []AllocInv
  BY AllocInit, AllocStep, PTL DEF Spec

-----------------------------------------------------------------------------
(* The state keeps its shape: every record of a writer, every page and the *)
(* free space map stay within the file and the chains begun.               *)
THEOREM AllocTypes == Spec => []TypeOK
  <1>1. AllocInv => TypeOK BY DEF AllocInv
  <1> QED BY AllocSafe, <1>1, PTL

(* bm25_page_recyclable keeps what is live: however many backends insert,  *)
(* whatever maintenance runs beside them, whatever a crash leaves in the   *)
(* free space map, no page of a published chain is handed out or freed.    *)
THEOREM LivePagesKept == Spec => []DirectoryIntact
  <1>1. AllocInv => DirectoryIntact BY DEF AllocInv, Contents
  <1> QED BY AllocSafe, <1>1, PTL

(* bm25_new_buffer never gives two writers the same page, nor takes one    *)
(* back from the chain it is being written for.                            *)
THEOREM OutputsKept == Spec => []OutputIntact
  <1>1. AllocInv => OutputIntact BY DEF AllocInv, Contents
  <1> QED BY AllocSafe, <1>1, PTL

(* The recycle gate: the stamp that bm25_free_page leaves and the horizon  *)
(* that bm25_page_recyclable compares it with keep every page of a scan's  *)
(* metapage copy as the scan expects it, until the scan ends.              *)
THEOREM ScansReadOn == Spec => []ScanIntact
  <1>1. AllocInv => ScanIntact BY DEF AllocInv, Contents, ScanIntact, Gated, Holds
  <1> QED BY AllocSafe, <1>1, PTL

(* Without errors, crashes and pages skipped as locked, every block of the *)
(* file is reachable, in the hands of a writer or in the free space map.   *)
THEOREM NoPageLeaks == Spec => []Accounted
  <1>1. AllocInv => Accounted BY DEF AllocInv
  <1> QED BY AllocSafe, <1>1, PTL
=============================================================================
