------------------------------ MODULE FtsAlloc ------------------------------
(***************************************************************************)
(* The pages of the index file: who may take one, when a freed one may be  *)
(* used again, and what truncation cuts off (pg_fts_am.c).                 *)
(*                                                                         *)
(* A chain is what is reachable from one metapage field: a segment, its    *)
(* tombstone map, or one page of the pending list.  What the pages hold is *)
(* left out: a page remembers the chain it was last written for.  Block 0, *)
(* the metapage, is left out too.                                          *)
(*                                                                         *)
(* Any backend may insert or maintain; maintenance is under the            *)
(* maintenance lock (FtsDirectory proves that exclusion).  Scans hold a    *)
(* copy of the metapage.  The free space map is a hint: two backends may   *)
(* be told of the same page, and a crash may leave anything in it.         *)
(***************************************************************************)
EXTENDS Integers, Sequences, FiniteSets, FiniteSetsExt

CONSTANTS
    Writers,      \* backends that insert or maintain
    Scans,        \* backends that scan
    Ops,          \* the maintenance operations that are run
    Built,        \* one-page segments that the index build left
    MaxBlock,     \* bound: blocks of the file
    MaxChain,     \* bound: chains ever written
    MaxMishaps    \* bound: errors, crashes and pages skipped as locked

VARIABLES
    nblocks,      \* RelationGetNumberOfBlocks, less the metapage
    page,         \* BM25_FREED, the stamp in pd_prune_xid, the chain a page was written for
    fsm,          \* blocks the free space map records as free
    chain,        \* the pages of each chain
    nchain,       \* chains begun so far
    dir,          \* chains the metapage leads to
    pend,         \* those of them that are pages of the pending list
    xid,          \* ReadNextTransactionId
    job,          \* what each writer is doing
    scan,         \* the snapshot and the metapage copy of each scan
    lost,         \* pages of published chains that a truncation cut off
    mishaps

vars == <<nblocks, page, fsm, chain, nchain, dir, pend, xid, job, scan, lost, mishaps>>

Block == 1 .. MaxBlock
Chain == 1 .. MaxChain
Nothing == 0

New   == [kind |-> "new", own |-> Nothing, stamp |-> 0]
Page  == [kind : {"new", "live", "freed"}, own : Chain \cup {Nothing}, stamp : Nat]

Stages == {"append", "oversized", "tombs", "flush", "merge", "collapse", "pack", "vacate", "cut"}

(* The order of the work under the maintenance lock; a stage may find     *)
(* nothing to do.  The leveled merge ends with a truncation.  What an     *)
(* insert flushes and merges itself is a beginning of vacuumcleanup's.    *)
Leveled == <<"merge", "cut">>

Program ==
    [bulkdelete    |-> <<"flush", "tombs">>,
     vacuumcleanup |-> <<"flush">> \o Leveled \o <<"cut", "pack", "cut">>,
     fts_merge     |-> <<"flush", "collapse">>,
     fts_vacuum    |-> <<"flush", "pack", "cut", "vacate", "pack", "cut">>]

ASSUME AllocAssumption ==
    /\ MaxBlock \in Nat \ {0} /\ MaxChain \in Nat /\ MaxMishaps \in Nat
    /\ Writers \cap Scans = {} /\ Ops \subseteq DOMAIN Program
    /\ Built \in Nat /\ Built <= MaxBlock /\ Built <= MaxChain

(* BM25AllocMode of each stage; a stage without a scope allocates plainly. *)
Mode(stage) ==
    CASE stage = "merge" -> "snapshot"
      [] stage = "pack" -> "lowfirst"
      [] stage \in {"collapse", "vacate"} -> "extend_only"
      [] OTHER -> "plain"

Idle ==
    [pc |-> "idle", todo |-> <<>>, stage |-> "none", at |-> "start", list |-> {}, blk |-> Nothing,
     id |-> Nothing, want |-> 0, in |-> {}, gone |-> {}, xid |-> 0, exclusive |-> FALSE]

NoScan == [xmin |-> 0, dir |-> {}]

Init ==
    /\ nblocks = Built
    /\ page = [b \in Block |->
                IF b <= Built THEN [kind |-> "live", own |-> b, stamp |-> 0] ELSE New]
    /\ fsm = {}
    /\ chain = [i \in Chain |-> IF i <= Built THEN {i} ELSE {}]
    /\ nchain = Built
    /\ dir = 1 .. Built
    /\ pend = {}
    /\ xid = 1
    /\ job = [w \in Writers |-> Idle]
    /\ scan = [c \in Scans |-> NoScan]
    /\ lost = {}
    /\ mishaps = 0

Pages(chains) == UNION {chain[i] : i \in chains}
Segments == dir \ pend
Scanning == {c \in Scans : scan[c].xmin # 0}
Maintaining(w) == job[w].pc # "idle" /\ job[w].xid = 0
Exclusive == \E w \in Writers : job[w].exclusive

(* An append and the seal of a flush hold the metapage lock throughout. *)
MetaLocked(w) == job[w].pc = "seal" \/ job[w].stage = "append"
MetaFree(w) == \A v \in Writers \ {w} : ~ MetaLocked(v)

OthersIdle(w) == Scanning = {} /\ \A v \in Writers \ {w} : job[v].pc = "idle"

(* The transactions in progress, and the oldest xid a snapshot may not see. *)
Running == {job[w].xid : w \in Writers} \ {0}
Horizon == Min({xid} \cup Running \cup {scan[c].xmin : c \in Scanning})

-----------------------------------------------------------------------------
(* Reusable whatever the page is, in a scope under the lock. *)
Recyclable_LockFirst(w, b) ==
    \/ page[b].kind = "new"
    \/ job[w].exclusive /\ Mode(job[w].stage) # "plain"
    \/ page[b].kind = "freed" /\ page[b].stamp < Horizon

(* What the free space map offers is taken for free. *)
Recyclable_MapOnly(w, b) == page[b].stamp < Horizon

(* A compaction skips the gate whatever lock it holds. *)
Recyclable_Compaction(w, b) ==
    \/ page[b].kind = "new"
    \/ page[b].kind = "freed" /\ (Mode(job[w].stage) # "plain" \/ page[b].stamp < Horizon)

(* bm25_page_recyclable: never a live page; a freed one when its stamp is  *)
(* behind the horizon, or in an allocation scope under the relation lock   *)
(* that excludes scans.                                                    *)
Recyclable(w, b) ==
    \/ page[b].kind = "new"
    \/ /\ page[b].kind = "freed"
       /\ \/ job[w].exclusive /\ Mode(job[w].stage) # "plain"
          \/ page[b].stamp < Horizon

(* The free list that a low-first or snapshot scope gathers when it begins. *)
ScopeList(stage) ==
    IF Mode(stage) \in {"lowfirst", "snapshot"} THEN fsm \cap 1 .. nblocks ELSE {}

UsesFsm(w) == Mode(job[w].stage) \in {"plain", "lowfirst"}

Writing(w) == job[w].pc \in {"seal", "build"} /\ job[w].want > 0

(* The page is handed out and initialized under its buffer lock. *)
Take(w, b, list) ==
    /\ page' = [page EXCEPT ![b] = [kind |-> "live", own |-> job[w].id, stamp |-> 0]]
    /\ chain' = [chain EXCEPT ![job[w].id] = @ \cup {b}]
    /\ job' = [job EXCEPT ![w].want = @ - 1, ![w].at = "start", ![w].blk = Nothing,
                          ![w].list = list]

(* bm25_new_buffer, first loop: the lowest page of the scope's list.  One  *)
(* that may not be reused is recorded as free again, whatever it is.       *)
FromList(w) ==
    /\ Writing(w) /\ job[w].at = "start" /\ job[w].list # {}
    /\ LET b == Min(job[w].list)
           rest == job[w].list \ {b}
       IN  \/ /\ Recyclable(w, b)
              /\ fsm' = fsm \ {b}
              /\ Take(w, b, rest)
           \/ /\ ~ Recyclable(w, b)
              /\ fsm' = fsm \cup {b}
              /\ job' = [job EXCEPT ![w].list = rest]
              /\ UNCHANGED <<page, chain>>
    /\ UNCHANGED <<nblocks, nchain, dir, pend, xid, scan, lost, mishaps>>

(* Second loop: GetFreeIndexPage takes any page out of the map ... *)
FromFsm(w) ==
    /\ Writing(w) /\ job[w].at = "start" /\ job[w].list = {} /\ UsesFsm(w)
    /\ \E b \in fsm :
          /\ fsm' = fsm \ {b}
          /\ job' = [job EXCEPT ![w].at = "try", ![w].blk = b]
    /\ UNCHANGED <<nblocks, page, chain, nchain, dir, pend, xid, scan, lost, mishaps>>

(* A page that may not be reused yet is not recorded again. *)
Try_Dropped(w) ==
    /\ Writing(w) /\ job[w].at = "try"
    /\ LET b == job[w].blk
       IN  \/ Recyclable(w, b) /\ Take(w, b, {})
           \/ /\ ~ Recyclable(w, b)
              /\ job' = [job EXCEPT ![w].at = "full", ![w].blk = Nothing]
              /\ UNCHANGED <<page, chain>>
    /\ UNCHANGED <<nblocks, fsm, nchain, dir, pend, xid, scan, lost, mishaps>>

(* ... and the page is looked at only afterwards, once it is locked. *)
Try(w) ==
    /\ Writing(w) /\ job[w].at = "try"
    /\ LET b == job[w].blk
       IN  \/ /\ Recyclable(w, b)
              /\ Take(w, b, {})
              /\ UNCHANGED fsm
           \/ /\ ~ Recyclable(w, b)
              /\ fsm' = fsm \cup {b}
              /\ job' = [job EXCEPT ![w].at = "full", ![w].blk = Nothing]
              /\ UNCHANGED <<page, chain>>
    /\ UNCHANGED <<nblocks, nchain, dir, pend, xid, scan, lost, mishaps>>

(* ConditionalLockBuffer fails (a checkpoint writes the page, or another   *)
(* backend reads it): the page is passed over.  One from the list is still *)
(* recorded as free, one from the map no longer.                           *)
Busy(w) ==
    /\ Writing(w) /\ mishaps < MaxMishaps
    /\ \/ /\ job[w].at = "start" /\ job[w].list # {}
          /\ job' = [job EXCEPT ![w].list = @ \ {Min(@)}]
       \/ /\ job[w].at = "try"
          /\ job' = [job EXCEPT ![w].at = "start", ![w].blk = Nothing]
    /\ mishaps' = mishaps + 1
    /\ UNCHANGED <<nblocks, page, fsm, chain, nchain, dir, pend, xid, scan, lost>>

(* Nothing to reuse: one more block, under the extension lock. *)
Extend(w) ==
    /\ Writing(w) /\ nblocks < MaxBlock
    /\ \/ job[w].at = "full"
       \/ job[w].at = "start" /\ job[w].list = {} /\ (UsesFsm(w) => fsm = {})
    /\ nblocks' = nblocks + 1
    /\ Take(w, nblocks + 1, {})
    /\ UNCHANGED <<fsm, nchain, dir, pend, xid, scan, lost, mishaps>>

(* bm25_free_page: the page is marked and stamped, keeps its content and *)
(* its link, and is then recorded in the free space map.                 *)
FreePage(w) ==
    /\ job[w].pc = "free" /\ job[w].blk = Nothing
    /\ \E b \in job[w].gone :
          /\ page' = [page EXCEPT ![b].kind = "freed", ![b].stamp = xid]
          /\ job' = [job EXCEPT ![w].gone = @ \ {b}, ![w].blk = b]
    /\ UNCHANGED <<nblocks, fsm, chain, nchain, dir, pend, xid, scan, lost, mishaps>>

RecordFree(w) ==
    /\ job[w].pc = "free" /\ job[w].blk # Nothing
    /\ fsm' = fsm \cup {job[w].blk}
    /\ job' = [job EXCEPT ![w].blk = Nothing, ![w].pc = IF job[w].gone = {} THEN "stage" ELSE @]
    /\ UNCHANGED <<nblocks, page, chain, nchain, dir, pend, xid, scan, lost, mishaps>>

-----------------------------------------------------------------------------
(* The record of a writer that begins a chain of n pages. *)
Begin(r, pc, n) ==
    [r EXCEPT !.pc = pc, !.id = nchain + 1, !.want = n, !.at = "start"]

(* bm25_insert when the tail page is full, and the segment of an oversized *)
(* document.  The insert belongs to a transaction with an xid.             *)
Insert(w) ==
    /\ job[w].pc = "idle" /\ ~ Exclusive /\ nchain < MaxChain
    /\ \E stage \in {"append", "oversized"} :
          /\ stage = "append" => MetaFree(w)
          /\ job' = [job EXCEPT ![w] =
                        [Begin(Idle, "build", 1) EXCEPT !.stage = stage, !.xid = xid]]
    /\ nchain' = nchain + 1
    /\ xid' = xid + 1
    /\ UNCHANGED <<nblocks, page, fsm, chain, dir, pend, scan, lost, mishaps>>

(* The maintenance lock is taken; fts_vacuum holds AccessExclusiveLock. *)
Maintain(w) ==
    /\ job[w].pc = "idle" /\ ~ Exclusive /\ \A v \in Writers : ~ Maintaining(v)
    /\ \E op \in Ops :
          /\ op = "fts_vacuum" => OthersIdle(w)
          /\ job' = [job EXCEPT ![w] = [Idle EXCEPT !.pc = "stage", !.todo = Program[op],
                                                    !.exclusive = (op = "fts_vacuum")]]
    /\ UNCHANGED <<nblocks, page, fsm, chain, nchain, dir, pend, xid, scan, lost, mishaps>>

(* The next stage and its allocation scope.  A flush with something to *)
(* fold begins with a fresh page for the pending list and ends with the *)
(* leveled merge.                                                      *)
Enter(w) ==
    /\ job[w].pc = "stage" /\ job[w].todo # <<>> /\ Head(job[w].todo) # "cut"
    /\ LET stage == Head(job[w].todo)
           r == [job[w] EXCEPT !.stage = stage, !.todo = Tail(@), !.in = {},
                               !.list = ScopeList(stage)]
       IN  IF stage = "flush" /\ pend # {}
           THEN /\ nchain < MaxChain /\ MetaFree(w)
                /\ nchain' = nchain + 1
                /\ job' = [job EXCEPT ![w] =
                              [Begin(r, "seal", 1) EXCEPT !.todo = Leveled \o @]]
           ELSE /\ job' = [job EXCEPT ![w] = r]
                /\ UNCHANGED nchain
    /\ UNCHANGED <<nblocks, page, fsm, chain, dir, pend, xid, scan, lost, mishaps>>

(* bm25_flush_pending links the page and from then on folds the others. *)
Seal(w) ==
    /\ job[w].pc = "seal" /\ job[w].want = 0 /\ nchain < MaxChain
    /\ dir' = dir \cup {job[w].id}
    /\ pend' = pend \cup {job[w].id}
    /\ nchain' = nchain + 1
    /\ \E n \in 1 .. Cardinality(Pages(pend)) :
          job' = [job EXCEPT ![w] = [Begin(@, "build", n) EXCEPT !.in = pend]]
    /\ UNCHANGED <<nblocks, page, fsm, chain, xid, scan, lost, mishaps>>

(* The chains a stage replaces: bulkdelete one tombstone map or none, the  *)
(* merges at least two segments, a compaction every segment (again if a    *)
(* new one was published meanwhile).                                       *)
Inputs(w) ==
    CASE job[w].stage = "tombs" -> {{i} : i \in Segments} \cup {{}}
      [] job[w].stage \in {"merge", "collapse"} ->
            {s \in SUBSET Segments : Cardinality(s) >= 2}
      [] job[w].stage \in {"pack", "vacate"} ->
            IF Segments # {} /\ (job[w].in = {} \/ Cardinality(Segments) > 1)
            THEN {Segments} ELSE {}
      [] OTHER -> {}

Rewrite(w) ==
    /\ job[w].pc = "stage" /\ nchain < MaxChain /\ MetaFree(w)
    /\ \E in \in Inputs(w) : \E n \in 1 .. Max({1, Cardinality(Pages(in))}) :
          job' = [job EXCEPT ![w] = [Begin(@, "build", n) EXCEPT !.in = in]]
    /\ nchain' = nchain + 1
    /\ UNCHANGED <<nblocks, page, fsm, chain, dir, pend, xid, scan, lost, mishaps>>

(* One metapage update puts the new chain in and takes the replaced ones   *)
(* out; a flush also drops the page linked by Seal if it is still empty.   *)
Publish(w) ==
    /\ job[w].pc = "build" /\ job[w].want = 0 /\ MetaFree(w)
    /\ IF job[w].stage \in {"append", "oversized"}
       THEN /\ dir' = dir \cup {job[w].id}
            /\ pend' = IF job[w].stage = "append" THEN pend \cup {job[w].id} ELSE pend
            /\ job' = [job EXCEPT ![w] = Idle]
       ELSE \E out \in {job[w].in}
                       \cup (IF job[w].stage = "flush" /\ Cardinality(pend \ job[w].in) = 1
                             THEN {pend} ELSE {}) :
               /\ dir' = (dir \ out) \cup {job[w].id}
               /\ pend' = pend \ out
               /\ job' = [job EXCEPT ![w].pc = IF out = {} THEN "stage" ELSE "free",
                                     ![w].gone = Pages(out)]
    /\ UNCHANGED <<nblocks, page, fsm, chain, nchain, xid, scan, lost, mishaps>>

(* bm25_free_tail_start: the blocks left when the run that the map calls *)
(* free is cut from the end of the file.                                 *)
FreeTailStart == Min({t \in 0 .. nblocks : (t + 1) .. nblocks \subseteq fsm})

(* The map keeps the blocks that are gone. *)
MapLeft_All(n) == fsm

(* RelationTruncate cuts the free space map with the file. *)
MapLeft(n) == fsm \cap 1 .. n

(* bm25_truncate_free_tail: under AccessExclusiveLock, held already or to  *)
(* be had at once; otherwise the tail stays.                               *)
Truncate(w) ==
    /\ job[w].pc = "stage" /\ job[w].todo # <<>> /\ Head(job[w].todo) = "cut"
    /\ job' = [job EXCEPT ![w].todo = Tail(@), ![w].stage = "cut", ![w].list = {}]
    /\ \/ /\ OthersIdle(w)
          /\ nblocks' = FreeTailStart
          /\ fsm' = MapLeft(nblocks')
          /\ page' = [b \in Block |-> IF b > nblocks' THEN New ELSE page[b]]
          /\ lost' = {b \in Pages(dir) : b > nblocks'}
       \/ UNCHANGED <<nblocks, fsm, page, lost>>
    /\ UNCHANGED <<chain, nchain, dir, pend, xid, scan, mishaps>>

Finish(w) ==
    /\ job[w].pc = "stage" /\ job[w].todo = <<>>
    /\ job' = [job EXCEPT ![w] = Idle]
    /\ UNCHANGED <<nblocks, page, fsm, chain, nchain, dir, pend, xid, scan, lost, mishaps>>

-----------------------------------------------------------------------------
(* A scan: the snapshot, then the metapage, read again when the scan finds *)
(* that the generation has moved; it walks the chains without locks.       *)
BeginScan(c) ==
    /\ scan[c].xmin = 0 /\ ~ Exclusive
    /\ scan' = [scan EXCEPT ![c].xmin = Min({xid} \cup Running)]
    /\ UNCHANGED <<nblocks, page, fsm, chain, nchain, dir, pend, xid, job, lost, mishaps>>

ReadMeta(c) ==
    /\ scan[c].xmin # 0 /\ \A w \in Writers : ~ MetaLocked(w)
    /\ scan' = [scan EXCEPT ![c].dir = dir]
    /\ UNCHANGED <<nblocks, page, fsm, chain, nchain, dir, pend, xid, job, lost, mishaps>>

EndScan(c) ==
    /\ scan[c].xmin # 0
    /\ scan' = [scan EXCEPT ![c] = NoScan]
    /\ UNCHANGED <<nblocks, page, fsm, chain, nchain, dir, pend, xid, job, lost, mishaps>>

(* An ERROR or a cancel: what was written but not published, or not yet *)
(* freed, stays as it is.                                               *)
Abort(w) ==
    /\ job[w].pc # "idle" /\ mishaps < MaxMishaps
    /\ job' = [job EXCEPT ![w] = Idle]
    /\ mishaps' = mishaps + 1
    /\ UNCHANGED <<nblocks, page, fsm, chain, nchain, dir, pend, xid, scan, lost>>

(* A server crash: pages are recovered from WAL, the free space map is not *)
(* logged, and the file may be a block longer than WAL knows.              *)
Crash ==
    /\ mishaps < MaxMishaps
    /\ job' = [w \in Writers |-> Idle]
    /\ scan' = [c \in Scans |-> NoScan]
    /\ nblocks' \in {nblocks, IF nblocks < MaxBlock THEN nblocks + 1 ELSE nblocks}
    /\ fsm' \in SUBSET (1 .. nblocks')
    /\ mishaps' = mishaps + 1
    /\ UNCHANGED <<page, chain, nchain, dir, pend, xid, lost>>

Work(w) ==
    \/ FromList(w) \/ FromFsm(w) \/ Try(w) \/ Busy(w) \/ Extend(w)
    \/ FreePage(w) \/ RecordFree(w)
    \/ Insert(w) \/ Maintain(w) \/ Enter(w) \/ Seal(w) \/ Rewrite(w) \/ Publish(w)
    \/ Truncate(w) \/ Finish(w) \/ Abort(w)

(* An index that lost pages is followed no further. *)
Next ==
    /\ lost = {}
    /\ \/ \E w \in Writers : Work(w)
       \/ \E c \in Scans : BeginScan(c) \/ ReadMeta(c) \/ EndScan(c)
       \/ Crash

Spec == Init /\ [][Next]_vars

-----------------------------------------------------------------------------
(* The shape of the state. *)
Job ==
    [pc : {"idle", "stage", "seal", "build", "free"}, todo : Seq(Stages),
     stage : Stages \cup {"none"}, at : {"start", "try", "full"}, list : SUBSET Block,
     blk : Block \cup {Nothing}, id : Chain \cup {Nothing}, want : 0 .. MaxBlock,
     in : SUBSET Chain, gone : SUBSET Block, xid : Nat, exclusive : BOOLEAN]

TypeOK ==
    /\ nblocks \in 0 .. MaxBlock
    /\ page \in [Block -> Page]
    /\ fsm \subseteq 1 .. nblocks
    /\ chain \in [Chain -> SUBSET Block]
    /\ nchain \in 0 .. MaxChain
    /\ dir \subseteq 1 .. nchain /\ pend \subseteq dir
    /\ xid \in Nat \ {0}
    /\ job \in [Writers -> Job]
    /\ scan \in [Scans -> [xmin : Nat, dir : SUBSET Chain]]
    /\ lost \subseteq Block
    /\ mishaps \in 0 .. MaxMishaps

Holds(i) == \A b \in chain[i] : b <= nblocks /\ page[b].own = i

(* What the metapage leads to is never handed out: every page of a         *)
(* published chain is in the file, is not marked freed and was last        *)
(* written for that chain.  bm25_new_buffer is told of live pages, by a    *)
(* list gathered earlier, by another backend's race or by a map that a     *)
(* crash left behind; bm25_page_recyclable has to refuse them.             *)
DirectoryIntact ==
    lost = {} => \A i \in dir : Holds(i) /\ \A b \in chain[i] : page[b].kind = "live"

(* The same of the chain a writer is building: nothing leads to it yet, and *)
(* two backends that allocate at once never get the same page.              *)
OutputIntact ==
    \A w \in Writers :
        job[w].pc \in {"seal", "build"} =>
            Holds(job[w].id) /\ \A b \in chain[job[w].id] : page[b].kind = "live"

(* The recycle gate: a scan finds in the pages of its metapage copy what   *)
(* they held when it read the copy, though merges have replaced and freed  *)
(* those chains since and writers look for pages all the time.             *)
ScanIntact == lost = {} => \A c \in Scanning : \A i \in scan[c].dir : Holds(i)

(* No page leaks while nothing fails: each block of the file is in a       *)
(* published chain, in a chain being written, about to be freed, on its    *)
(* way into or out of the free space map, or in the map.                   *)
Accounted ==
    mishaps = 0 =>
        \A b \in 1 .. nblocks :
            \/ b \in fsm
            \/ b \in Pages(dir)
            \/ \E w \in Writers :
                  \/ b \in job[w].gone \/ b = job[w].blk
                  \/ job[w].pc \in {"seal", "build"} /\ b \in chain[job[w].id]

(* Truncation cuts off free pages only ("Truncate the contiguous run of    *)
(* free blocks at the end of the file", pg_fts_am.c:5951).                 *)
CutIsFree == lost = {}

=============================================================================
