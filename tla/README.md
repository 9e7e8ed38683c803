# pg_fts in TLA+

pg_fts is a PostgreSQL extension: an analyzed document type (`ftsdoc`), a query type
(`ftsquery`) and an index access method (`fts`) with BM25 ranking. This project models two sides
of it: the write side, the scans and the caches, whose correctness depends on the order in which
several backends act; and the way of one query from its text to its rows, ranked or not, whose
correctness depends on which of many paths each segment takes. The models are checked with TLC
on small instances, and theorems about the core are proved with TLAPS.

To parse, check or prove (tools of the TLA+ distribution, the community modules and TLAPS 1.4.5):

    tlasany FtsDirectory.tla
    tlc -config FtsDirectory_store.cfg MCFtsDirectory
    tlapm FtsDirectory_proofs.tla

`PROJECT.json` lists the components, the runs, for each property a mutation of the code that
breaks it, the source lines of each definition, the findings, the hazards and the theorems.

## 1. Inventory

| Component (source) | State it keeps | Operations | What is hard | What makes it correct |
|---|---|---|---|---|
| Segment directory and maintenance (pg_fts_am.c, pg_fts_am.h) | metapage: `segs[]`, `nsegments`, `generation`; each segment's page chains and tombstone map; the maintenance page lock | add a segment, make room, leveled merge, collapse (`fts_merge`), `ambulkdelete`, `amvacuumcleanup` | merges and bulkdelete read pages for minutes without the metapage lock and swap the result in; an error or crash may come between any two metapage updates; the directory has a fixed size | no committed document is lost or reported twice; no vacuumed TID comes back; a merge finds its inputs; every operation ends |
| Pending list (pg_fts_am.c) | `pendinghead`, `pendingtail`, `npending`, pending pages | append, seal, fold, drop | inserters append while a flush reads | the sealed pages are frozen; the count is exact |
| Corpus statistics (pg_fts_am.c) | `meta.ndocs`, `meta.sumdoclen`; per descriptor `ndocs`, `sumdoclen`, `ndeleted` | updated by insert, publish, merge, bulkdelete | maintained incrementally, in several updates | N is the number of documents reported; never less |
| Scans and counts (pg_fts_am_scan.c) | a copy of the metapage, TIDs collected, retries | bitmap and plain scans, count fast path, count through the visibility map | run on old copies while segments are merged, freed and recycled, and while VACUUM sets visibility bits | exactly the rows of the snapshot |
| Ranked retrieval (pg_fts_am_scan.c) | the ordering scan's batch, position, k, bound; block-max WAND cursors | `amgettuple` ORDER BY, `fts_search` | batches recomputed under other writers; over-fetching for visibility; pruning | every visible row once, in score order; pruned top-k equals exhaustive top-k |
| Shared document-length cache (pg_fts_shdoclen.c) | slot table in DSM, pinned payload segments, references of each backend | look up, build, evict, retire, release | builders leave the lock; merges retire copies in use; ERRORs, killed builders | a copy in use is never freed; no payload leaks or is freed twice |
| Page allocation, free space map, truncation (pg_fts_am.c) | FSM, free list of an allocation scope, recycle xid on freed pages | `bm25_new_buffer`, `bm25_free_page`, truncate | FSM is a hint; truncation against allocation | a live page is never handed out or cut off |
| `fts_vacuum` compaction (pg_fts_am.c) | as the directory | relocate and rewrite segments | long, interruptible | as the directory |
| Parallel build and merge (pg_fts_am.c) | shared group state, workers | begin, work, join | failed or missing workers | a group is merged entirely or not at all |
| Segment format (pg_fts_am.c, pg_fts_for.h, pg_fts_sm.h, pg_fts_docvalid.h) | postings, dictionary, length sidecar | encode, decode | bit widths, block boundaries | decode inverts encode |
| Query language and matching (pg_fts_query.c, pg_fts_match.c) | none | parse, elide stopwords, print; boolean, phrase, NEAR, labels | precedence, distances across elided words, spans cut off at a limit | the printed text parses back; a phrase means its words at their offsets; the index answers as the matcher does |
| Document type and analyzers (pg_fts_doc.c, pg_fts_analyze.c, pg_fts_tsanalyze.c) | none | tokenize, serialize | text | – |
| Ranking functions (pg_fts_rank.c, pg_fts_aux.c) | none | BM25 variants, snippets | floating point | the order of two rows is that of their formula |
| Fuzzy and regex candidates (pg_fts_trgm.c, pg_fts_trgm_index.c, pg_fts_lev.c) | none | Levenshtein automaton over the dictionary, trigram funnel | jumps in the dictionary decided from a dead prefix; a funnel must over-generate | no match is filtered out |
| Planner integration (pg_fts_customscan.c), migration (pg_fts_migrate.c), sparsemap (vendor/) | – | – | – | – |

How they interact. Everything shared lives in the index relation and is reached through the
metapage, which one buffer lock protects; a page-level "maintenance lock" serializes flushes,
merges and VACUUM, but not inserts and not the publication of a one-document segment. Scans copy
the metapage and then take only per-page SHARE locks, so they rely on `generation` (restart if it
moved) and on the recycle gate (a freed page keeps its content until no snapshot can refer to
it). The heap and its visibility map belong to PostgreSQL and are modelled from how the access
method uses them. The length cache is a side structure in dynamic shared memory: ranked scans use
it, merges retire its entries.

## 2. Modules

    FtsStore        abstract: a set of documents                    (what the index promises)
       ^ refinement
    FtsDirectory    directory, pending list, maintenance            (pg_fts_am.c)
       ^ EXTENDED BY
    FtsTotals       corpus statistics                               (pg_fts_am.c)
    FtsScan         counts and scans beside the write side          (pg_fts_am_scan.c)
    FtsParallel     the parallel pass of fts_merge                  (pg_fts_am.c)

    Proofs (TLAPS): FtsDirectory_proofs EXTENDS FtsDirectory; FtsTotals_proofs and
    FtsScan_proofs EXTEND FtsDirectory_proofs and FtsSums_proofs (facts about sums over
    finite sets).

    FtsTerms        terms, dictionary, fuzzy, regex, trigrams       (pg_fts_lev.c, pg_fts_trgm*.c)
    FtsQuery        lexer, parser, stopwords, text form             (pg_fts_query.c)
       v EXTENDED BY
    FtsMatch        does a document satisfy a query                 (pg_fts_match.c)
       v EXTENDED BY
    FtsEval         how one segment answers a query                 (pg_fts_am_scan.c)
       v EXTENDED BY             v EXTENDED BY
    FtsSearch                 FtsRank                               (pg_fts_am_scan.c, pg_fts_am.c)
    a bitmap scan             scores, blocks, cursors
       v EXTENDED BY             v EXTENDED BY
    FtsTopK         the planner and the walks of a ranked scan      (pg_fts_am_scan.c)
       ^ EXTENDS    FtsTopK_proofs (TLAPS), with FtsSums_proofs

    FtsOrdered      the ordering scan's batches                     (pg_fts_am_scan.c)
       ^ EXTENDS    FtsOrdered_proofs (TLAPS)
    FtsShDoclen     the shared length cache                         (pg_fts_shdoclen.c)
       ^ EXTENDS    FtsShDoclen_proofs (TLAPS)
    FtsAlloc        pages, free space map, truncation, compaction   (pg_fts_am.c)
       ^ EXTENDS    FtsAlloc_proofs (TLAPS)

`MC*` modules give the constants values and symmetry. Operators named `X_Y` are deliberately
wrong variants of `X`, the plausible bug in that line of code; no specification uses them.

### FtsDirectory

State: `pos` is the place of each segment in `meta.segs[]`, `disk` the documents its postings
name and its tombstoned TIDs, `page` the documents of each pending page (numbered in the order
they were linked), `head`, `tail`, `npending` the metapage fields, `top` the last page linked,
`mutex` the maintenance lock, `pc` and `job` each backend's program point and locals, `heap` the
state of each tuple (external). One action is one critical section under the EXCLUSIVE metapage
lock, or one stretch of work without it: what interleaves in the code interleaves in the model.

| Code | Actions |
|---|---|
| `bm25_insert`, `bm25_insert_flush_pending` | `AppendPending`, `TryFlush` |
| `bm25_insert_oversized_as_segment` | `WriteOversized`, `Publish`, `Tidy` |
| `bm25_meta_add_segment`, `bm25_add_segment_with_room` | `Publish`, `MakeRoom`, `MergeForRoom`, `Refuse` |
| `bm25_flush_pending` | `Seal`, `Fold`, `Publish`, `FreePages` |
| `bm25_merge_segments`, `bm25_merge_selected`, `bm25_merge_all` | `MergeSelect`, `MergeStream`, `MergeSwap`, `FreeInputs`, `MergeReturn` |
| `bm25_bulkdelete`, `bm25_vacuumcleanup`, `fts_merge` | `Vacuum`, `FtsMerge`, `Lock`, `BulkSnapshot`, `BulkSegment`, `BulkDone`, `Reclaim`, `Unlock` |
| ERROR, cancel, crash | `Abort` |

`Abort` frees the backend's locks, kills its tuple and leaves the metapage as the last update
left it: the code WAL-logs each metapage update atomically, so a server crash is `Abort` by all
backends. A document is either small, `Oversized` (it gets a segment of its own), or `Blank` (no
term: its segment may have no dictionary). Left out: the page level below whole segments, levels
above 0 of the leveled policy (all segments compete in one level). The parallel pass of
`fts_merge` is in FtsParallel. Pages and `fts_vacuum` are in FtsAlloc, which in turn takes the exclusion by the maintenance lock from here.

### FtsParallel

The steps of FtsDirectory (`Other`) beside the parallel pass of one `fts_merge`. Sources are in
the leader's `job`; `team` is the rest of `BM25MergeShared`: the group of each source, the groups
whose participant is still at work, and the segment each finished group was merged into
(`outvalid`, `out`).

| Code | Actions |
|---|---|
| `bm25_merge_all`, no parallel pass | `Fallback` |
| `bm25_merge_all_parallel`: partition, launch | `Launch` (any number of workers asked for, any number of them started) |
| `bm25_parallel_merge_main`, `bm25_merge_one_group` | `MergeGroup`, in any order; a group of one source is left as it is |
| ERROR of a participant, or in the partition | `TeamFails` |
| the leader's one metapage update | `InstallGroups` |

The group of a worker that never started has no output: its sources stay. What a participant has
written is taken by nobody else (its blocks are in use, though no directory leads to them). Two
calls of `fts_merge` exclude one another, since each holds ShareUpdateExclusiveLock on the index.

### FtsTotals

Each step of FtsDirectory that touches a counter is taken together with its update. `removed` is
bulkdelete's `tuples_removed`; `failures` is a history variable and bounds the failures.

### FtsScan

One scan of one plain term beside the write side: `Begin` takes the snapshot; `FastMeta`,
`FastSum`, `FastVisible`, `FastCheck` are `bm25_count_dictdf_fastpath`; `ReadMeta`,
`ReadSegments`, `ReadPending`, `Check` are `bm25_collect_matches_split`; `Probe` is a heap page in
`bm25_count_visible`, or in the executor for other scans. `kept` and `keptpage` are what freed
pages still hold for scans that began before they were freed (`bm25_free_page`,
`bm25_page_recyclable`). `SetAllVisible` and `DeleteRecent` are VACUUM's visibility bit and a
delete that a running snapshot does not see.

### FtsOrdered

`Begin` and `Bound` are the two metapage reads of the first `bm25_gettuple` call, `Generate` one
round of `bm25_topk_visible` (candidates from one metapage copy, heap visibility, over-fetching),
`Return` a row handed out, `Grow` the larger batch, `Stop` the end. The score enters as the order
it induces: for one term, d is ahead of e if and only if tf(d)(S + 3 dl(e) N) > tf(e)(S + 3 dl(d) N),
S and N being `sumdoclen` and `ndocs` (k1 and idf > 0 cancel), ties by docid. Stored lengths are taken as exact.

### FtsShDoclen

One action per hold of the LWLock. `Hit`, `FreeAbandoned` and `Miss` are the three outcomes of
the lookup in `shdl_get`, `Map` and `MapFails` of `shdl_map`, `Build`, `BuildFails`, `Killed`
and `Finish` the building side; `Unpin` is what follows the lock, `Release` the resource-owner
callback, `Retire` (or `RetireSkipped`) and `Free` the dropping of a segment. A key stands for
everything the code compares. Least-recently-used is any copy nobody holds, which is weaker; a
backend runs one scan at a time, so all its references have one owner.

### FtsAlloc

A chain is what one metapage field leads to: a segment, a tombstone map, or one page of the
pending list. `chain` gives its pages, `dir` the chains the metapage leads to, `pend` those of
the pending list. `page` is what a block holds: the chain it was last written for, whether it is
marked `BM25_FREED`, and its stamp. `fsm` is the free space map, `lost` what a truncation cut off.

| Code | Actions |
|---|---|
| `bm25_new_buffer` | `FromList`, `FromFsm`, `Try`, `Busy`, `Extend`; `Recyclable` is `bm25_page_recyclable`, `Mode` and `ScopeList` the allocation scopes |
| `bm25_free_page` | `FreePage`, `RecordFree` |
| `bm25_insert`, `bm25_insert_oversized_as_segment` | `Insert`, `Publish` |
| `bm25_flush_pending` | `Enter`, `Seal`, `Publish` |
| `bm25_merge_selected` and its callers, `bm25_bulkdelete` | `Rewrite`, `Publish` |
| `bm25_truncate_free_tail` | `Truncate` |
| `bm25_bulkdelete`, `bm25_vacuumcleanup`, `fts_merge`, `fts_vacuum` | `Maintain`, `Finish`; `Program` is the order of their stages |
| ERROR, crash | `Abort`, `Crash` |

An operation under the maintenance lock is a sequence of stages; each may find nothing to do, and
rewrites any chains its selector could choose into any number of pages up to what it read (one
page if it read none). `MetaLocked` is the metapage lock, which an append and a seal hold while
they allocate. A crash keeps every page that was written (what is published was WAL-logged before) and leaves
any free space map. The horizon is exact, where PostgreSQL's may lag behind. A state in which a
truncation has cut off a live page has no successor, so the other properties are checked of all
behaviours up to the first such cut. Left out: inserts into a tail page that has room (no page
changes hands), the repeated passes of `bm25_vacuum_compact` and the tests of whether one is worth it, the merge
that makes room in a full directory, free pages as releases before 1.11 left them.

### FtsTerms, FtsQuery, FtsMatch, FtsEval

Pure operators, named after what they compute. A letter is a number in byte order, a word a
sequence of letters, a dictionary a sequence of pages. `FuzzyTerms` is the walk of
`bm25_fuzzy_terms` through the pages with the jumps `NextKey` makes over a dead prefix
(`fts_lev_step`), `RegexTrigrams` the scan of a pattern in `fts_regex_trigrams`, `TrgmCandidates`
its use in `bm25_trgm_candidates`. A query text is a sequence of raw tokens (characters are left
out); `Parse` is the recursive-descent parser as one function of a rule and a position, so that
the error paths and what each rule consumes are those of the code; a query is the postfix item
list the code stores. `Elided` and `Simplify` are the stopword elision, `Out` the text form.
`MatchEval` is `fts_match_eval` with its spans and its span limit, `PhraseChain`,
`PhraseEvalSeg`, `SpanQuery` and `SpanEvalSeg` the positional evaluators of a segment, `EvalQuery`
the set evaluator with the direction in which it may err.

### FtsSearch

One bitmap scan of an index that stays still: `ParseText`, one action per segment, by the path it
takes, then `CollectPending` and `Recheck`. The text and the corpus are inputs that `Init` draws.

| Code | Actions |
|---|---|
| `ftsquery_in`, stopword elision | `ParseText` |
| `bm25_collect_segment` | `SkipSegment`, `CollectCompoundPattern`, `CollectFuzzy`, `CollectRegex`, `CollectPositional`, `CollectGeneral` |
| `bm25_collect_pending`, end of `bm25_collect_matches_split` | `CollectPending` |
| `bm25_recheck_exact`, the executor's recheck | `Recheck` |

A corpus is restricted to what the write side keeps true (`ConsistentCorpus`): every live row is
indexed once, under a TID that no tombstone of its segment covers.

### FtsRank, FtsTopK

`want = 0` is the scan of FtsSearch, `want = k` a ranked scan for the k best. A score is an integer
that rises and falls as the BM25 formula does and adds exactly, so ties and near ties happen;
a document's number is its TID. A posting list is cut into blocks whose headers hold the last docid and the
bound (`Header`, as `bm25_write_postings` writes it), and consecutive lists share pages (`NextFirst`).

| Code | Actions |
|---|---|
| the plan of a ranked query, its gates | `PlanCollect`, `PlanOr`, `PlanBoolean`, `PlanPhrase`, `PlanFilter` |
| opening cursors, `fts_search_wand` choosing a walk | `OpenCursors` (`Method`, `Driver`) |
| block-max WAND | `BmwSkipBlock`, `BmwJump`, `BmwScore`, `BmwApproach` |
| MaxScore | `MaxScorePass`, `MaxScoreScore` |
| the walk driven by the rarest words, the dense one-list walk | `DrivenScore`, `DenseBlock` |
| best-first by block bound; the conjunctive walk, block by block and document by document | `BestFirstBlock`; `AndOpen`, `AndDocument` |
| `bm25_topk_exact`, the merge of the pending list | `RankExact`, `MergePending` |

The heap of hits is a set, the heap of blocks a set of which one of the highest bound is taken (any,
where the code's order among equals depends on its heap). Left out: the ranked scan split over parallel workers by
docid ranges, the fall back to the exact path when a posting chain is torn, floating point.

## 3. What is checked

All runs finish; the bounds are small but each run was seen to fail on a broken variant of the
code for each of its properties, and every action of every module is taken.

| Run | Instance | Shows |
|---|---|---|
| `store` | 2 backends; a and b share a slot, c is oversized; 2 directory slots, 3 segment identities, 3 pending pages; `Abort` anywhere | `ImplementsStore`: flush, merge, VACUUM and failures are invisible at the level of FtsStore. `NoReclaimed`, `NoResurrection` across slot reuse, `InputsFound` for merges, `TypeOK` |
| `pending` | FtsParallel: 2 backends, 4 documents in slots of their own, c and f oversized; 4 directory slots, 6 segments, 4 pages, up to 2 workers; failures of the parallel pass | `NothingLost`, `NoDuplicate`, `PendingCounted`, `SealedFrozen` with appends during a flush and a merge; `DirectoryDense` with merges, serial and parallel, that leave some segments alone; `ImplementsStore` with four segments in the directory and two outputs written beside them |
| `ends` | 2 backends, all kinds of documents, 2 directory slots, fair | `OperationsEnd`: every operation ends, with room or refused |
| `counts` | 2 backends, up to 2 failures | `CorpusN`, `CountedOnce` while nothing failed, `SegmentCounts` and `NeverUndercounted` always |
| `scan` | 1 writer, 1 scan, one slot used by two documents in turn, 1 retry | `FastCountExact`, `CountComplete`, `FetchExact` even when the scan has run out of retries |
| `shared` | 2 backends, 2 segments, 2 slots, 4 DSM handles, 2 references | `HeldPinned`, `PinnedOnce`, `BuilderOwns`, `OneCopy` |
| `ordered` | 4 documents whose order no statistics can change (`Steady`, evaluated by an ASSUME of MCFtsOrdered), first batch 1, growth 2 | `BatchPrefix`, `AllReturned`, `BoundHolds`: resuming is exact under inserts, deletes, flushes, VACUUM and merges |
| `pages` | 2 backends, 1 scan, 2 segments at first, 3 blocks, 4 more chains, all four operations, 1 error, crash or skipped page | `DirectoryIntact`, `OutputIntact`: a live page is never handed out again, whatever the map says. `ScanIntact`: a scan reads what it read the metapage for. `Accounted`: no page leaks while nothing fails. `TypeOK` |
| `search` | bitmap scans: 9 corpora (3 layouts of rows over segments, tombstones and the pending list; positions stored, not stored, or missing for some postings) under every text of MCFtsSearch; ranked scans: 63 corpora (5 rows drawn from 3 documents, 3 layouts), 13 texts, 1 or 2 best, 3 settings | `ScanExact`: the scan returns what the matcher accepts row by row, whatever path each segment took. `WalkExact`: a pruning walk that ends has the k best of all the documents it is there for. `TopKExact`: with the pending list merged in, these are the k best rows that satisfy the query. `PositionsDecide`: with stored positions only undecidable rows are fetched from the heap. `RoundTrip`, `PhraseMeaning`: the query means what its text says |
| `regex` | two rows, a pattern with a branch and one with an optional group, with and without the funnel | fails: see below |
| `race`, `tail` | as `scan` and as `pages` with one VACUUM | fail: see below |

Why the bounds are enough for the question asked. A merge needs two inputs, an output and, for
interference, one more segment; two backends are enough for every pair of operations to
interleave, since the maintenance lock admits one of them and the other can only be inserting,
publishing, reading or waiting. For the parallel merge, four sources give groups of four, of two and two,
and of one, one and two (with outputs missing when a worker never starts). Two documents in one slot are what slot reuse needs. Two slots and two
segments make eviction, retirement and lookup compete in the cache. Four rows make the ordering
scan grow twice. Three blocks, two of them in use at first, are filled, freed and reused several
times, and four new chains are what an insert, a flush and a merge write. In `search` a posting list of
five documents has three blocks of two on two pages, so that blocks and pages end inside a list; the span buffer is
two, so that documents overflow it; two terms are on a dictionary page, so that the walks cross
pages; chains are at most three words, so that longer ones take the span evaluator. The counts of the code (128 segments, fan-out 8, k times 4, 64 to 4096
candidates) enter as constants and are scaled down.

Scaled limits of the search side, by their names in the code: `PosBuf` (`BM25_PHRASE_POSBUF`), `MaxChain`
(`FTS_QUERY_MAX_PHRASE_TERMS`), `BlockSize`, `PageBlocks`, `LeadingBit` (of the mantissa of a stored length; 8 in the code), `Nowhere` (a docid behind all others), `Fraction`
(`BM25_DRIVEN_MAX_FRACTION`), `MinTrigrams` (3 in the code and in `regex`, 1 in `search` because its words are short).

Named bounds: `MaxPage` (pending pages ever linked), `MaxWorkers`, `MaxFailures`, `MaxRetries`, `MaxRefs`,
`MaxGen`, `MaxBlock` and `MaxChain` (the file and the chains ever written), `MaxMishaps` (errors,
crashes and skipped pages), `Built` (segments of the initial build). `Segs` and `Handles` are reused, so they bound what is alive at once.
`Late` in MCFtsParallel fixes the order of the inserts (a before b; c once there is a segment; f,
and the delete of a, once there are three), so that the directory fills without every order of
filling it; a bare `amvacuumcleanup` is left to `store` and `ends`. `FirstFree` makes each new
segment take the first free identity: identities differ in nothing else, so this is a symmetry.

Deadlock is checked except in the FtsOrdered runs, where the scan and the documents are used up,
in the FtsAlloc runs, where the blocks and the chains are, and in the FtsSearch and FtsTopK runs,
where the scan ends.

Fairness (`FairSpec`): weak for each backend's `Continue` (a backend that is not blocked is
scheduled), strong for the two blocking acquisitions of the maintenance lock (PostgreSQL's lock
manager queues waiters, so a waiter is not overtaken for ever). Nothing is assumed of inserts,
deletes or failures. There are no deletes under `FairSpec`: a VACUUM is its flush and its merges.

### Disagreements found

Three runs show that the code does not do what its comments say.

- `race` (pg_fts_am_scan.c:7856). A count collects TIDs and then trusts the visibility map:
  VACUUM may remove a dead row and set its page all-visible in between, and the row is counted.
- `tail` (pg_fts_am.c:5943). A compaction gathers a free page; a concurrent insert is given the
  same page, from the free space map, and commits; the compaction finds the page in use and
  records it as free again (pg_fts_am.c:1448). If what lies behind it becomes free, the
  truncation that ends the VACUUM cuts the page off, and the document with it:
  `bm25_free_tail_start` asks the map only and never looks at the page.

- `regex` (pg_fts_trgm.c:175). At a `|` the scan of a pattern forgets only the run before it: the
  literal of the other branch stays required, as does that of a group that `?` or `*` makes
  optional. Rows that match without it are lost by the funnel.

More are in the models without a run of their own. In FtsDirectory `NeverRefused` fails: flushing
documents without terms writes segments without a dictionary, all merge selectors skip them, and a
directory full of them refuses every write (pg_fts_am.c:4126, against "a full directory always has
>=2 mergeable segments"). In FtsParallel `NeverDivides` fails for
the same kind of directory: with three segments, none of which has a dictionary, `fts_merge` cuts no sources into no groups and
divides by zero (pg_fts_am.c:5511). In FtsOrdered `NoRepeat` fails: batches are scored with the statistics of
the moment, and an insert between two batches may swap two rows across the position the scan resumes
at (pg_fts_am_scan.c:2412); one is returned twice, the other never. In FtsShDoclen `RefsCounted` fails: an ERROR of
`dsm_attach` between counting a reference and recording it pins the slot until restart
(pg_fts_shdoclen.c:658; the comment at 605 says nothing there may fail). With `MaxGen = 2`,
`HeldCopyFits` fails: a scan with an old directory copy publishes a copy of a segment that was already
retired, and a later segment with the same key is given it. In FtsTotals a merge
keeps the lengths of the tombstoned documents it drops (`MergedStat`), so avgdl only grows; and
`VacuumRefreshesN` fails: a bulkdelete cancelled after some tombstones and before it refreshes N
(pg_fts_am.c:8008) leaves N too high, and the next complete VACUUM removes nothing and does not
correct it. In FtsOrdered `AllReturned` fails when more invisible candidates than the over-fetch
cap (pg_fts_am_scan.c:7609) are ahead of the visible rows: the batch is short, which
`bm25_gettuple` takes for the end of the result.

Two limits are stated in the properties of FtsTopK and FtsSearch rather than refuted. A ranked scan only
reaches segment documents that hold a word of the query, so rows that satisfy `a | !b` without a
word are ranked from the pending list but not from a segment (pg_fts_am_scan.c:2443); `TopKExact`
says so. A document without terms satisfies a query such as `!a` on the heap and on the
pending list, but a segment's universe is the documents of its postings and lacks it; the corpora have no such document. And
the pattern scan takes the letter of an escape (`\d`) for a literal; the patterns of `search` have none.

## 4. What is proved

Every theorem is for all values of the constants that satisfy the named assumptions of its
module. Two theorem groups have further hypotheses (below), which are written in the theorems
themselves.

### The write side

The assumptions are those of FtsDirectory: finite `Segs` and `Docs`, `TidOf` a function, `Blank`
and `Oversized` apart, `None` none of the values it stands beside, `MaxSegments` and `MergeFanout`
at least 2. `Next` includes `Abort`, so the theorems hold through any failures. Every safety
property that the runs check of FtsDirectory is proved, and so is its refinement of FtsStore. Each
part of FtsDirectory_proofs adds a layer to one inductive invariant:

| Layer | What it adds to the invariant | Theorems |
|---|---|---|
| types and exclusion | `TypeInv`: `TypeOK` with `DocKnown`, `OversizedWrites` and `TailAfterSealed` (a page was linked after the sealed ones; without it, dropping these may leave `head` beyond the pages linked). `Exclusion`: a backend inside a flush, a merge or a bulkdelete holds the maintenance lock. `InputsKept`: from selection to swap each input is in the directory with the descriptor remembered | `TypeCorrect`, `MutualExclusion`, `MergeFindsInputs` |
| segments | `Control` and `Owners`: which operation a program point belongs to, and that a document is one insert's alone until it commits. `Holdings` and `Apart`: which segments a backend has in hand, and that nobody else and no directory slot refers to them. `Dense`: positions are 1 to `nsegments`, each used once (a swap renumbers those it keeps) | `DirectoryIsDense` |
| the pending list | `ListShape`, `PagesBlank`, `OnePage` (a document is on one page), `Filing` (only by its own append), `SealKept`: what was sealed is a prefix of the list, complete and counted; what is freed is off the list | `PendingIsCounted`, `SealIsFrozen` |
| contents | `SnapKept`: the descriptors a bulkdelete has copied are still the directory's, for the segments it has yet to come to. `OutHolds`, `MoutHolds`: a segment not yet published holds exactly what was sealed, inserted or merged. The lemma `StepIndexed`: what a scan reports changes only when an insert files its document and when bulkdelete takes vacuumed ones out | – |
| what is stored | `SlotOnce` (a slot holds one tuple), `OneVacuum`, `BulkOps`, `VacDead` (the TIDs of a VACUUM are of dead tuples until it reclaims them). `IndexedKnown`, `Placed`. `VacOnPages`, `VacInSegs`, `VacOut`: the TIDs of a VACUUM are gone from the pending list after its flush, from the segments it has passed, and at last from all | `NothingIsLost`, `NoneReclaimed`, `NoneResurrected` |
| uniqueness | `SegsApart` (two segments report no document in common), `PendingApart` (nor do a segment and the pending list), `Fresh` (an insert files its document first) | `NothingIsTwice` |
| refinement | nothing: initial states map to initial states and each step to a step of FtsStore or a stutter | `WritesImplementStore` |

The argument turns on two facts. Only holders of the maintenance lock take segments out of the
directory or write tombstones, so what a merge or a bulkdelete read without the metapage lock is
still true when it acts on it (`Exclusion`, then `InputsKept` and `SnapKept`). And inserts that
run beside them only add: an append to the end of the list, behind what was sealed (`SealKept`),
a one-document segment at the end of the array. VACUUM adds a third: a slot it has collected is
occupied by a dead tuple until `Reclaim`, so no insert can put that TID behind its back where it
has already been (`VacDead` with `SlotOnce`, used by `VacInSegs`). The whole is `UniqueInv`.

### Corpus statistics

FtsTotals_proofs, on top of `UniqueInv`: every step of FtsTotals is a step of FtsDirectory, so its
invariant holds there too. `TotalsInv` adds

- `AllCounted`: each descriptor in the directory, and each that is about to be published, counts
  at least the documents with postings. This needs `SlotsApart` and `DeadKnown` (no two documents
  of a segment share a slot and a tombstone names one of them: a merge that subtracts `ndeleted`
  then subtracts as many as it drops), and `OneCounted` for the insert of an oversized document.
- `RemovedAt`, `CorpusKept` and `LengthsKept`: what N owes to a bulkdelete under way, and what N
  and sumdoclen are while nothing failed.

`NeverTooFew` holds without further hypotheses: N is never below the number of documents a scan
reports. `DescriptorsExact`, `CorpusExact` and `LengthsCountedOnce` assume `Blank = {}`, as the run
`counts` does: a document without terms is counted in `ndocs` but has no posting, so equality
fails for it. The sums are the `SumFunctionOnSet` of the community modules; FtsSums_proofs
proves what is needed of it (`SumFunctionOnSet` is the size of a pile of F[x] elements for each x,
whence sums of disjoint sets add, and the size of a union is the sum of the sizes).

### Scans and counts

FtsScan_proofs, on top of `UniqueInv`: `ScansAreExact`, `CountsMissNothing` and
`FastCountsAreExact`, for any number of documents, slots, heap pages, backends and retries. The
only assumption FtsScan adds is that `None` is no set of documents or slots. `ScanInv` follows the
scan through its points:

- `SnapLive` and `VisibleToAll`: what the snapshot sees stays in the heap, and an all-visible page
  holds nothing that it does not see.
- `Kept`: a segment listed in the scan's copy of the metapage is in the directory, or replaced and
  not freed yet, or freed with its pages kept for the scan (`ListedKept`), and pages that are kept
  are in nobody's hands (`KeptApart`, `KeptOff`).
- `Reading`: at the first read of the metapage every row of the snapshot is in a listed segment or on the
  pages of the list (`NothingIsLost` says so of the index at that moment), and stays reachable
  there (`SegsComplete`, `WalkSound`) until it is found (`FoundPending`, `FoundAll`, `FoundSound`).
- `Probing` for the heap pages done, `FastRead` for the count from the dictionary: while the
  generation is what it was, the directory is the one that was read and has no tombstone.

That `FoundAll` is inductive does not depend on `Check`: a scan out of retries keeps what it
found from freed segments, and it is the recycle gate (`ListedKept`) that makes this right.

### The ordering scan

FtsOrdered_proofs. `OrderedTypes` and `HitsAreBounded` hold whatever the documents are: every row
of the snapshot is indexed until the scan ends (`SnapIndexed`: VACUUM takes out only what no
snapshot sees), N counts the indexed documents (`CorpusCounted`), and the snapshot is taken before
N is read; if nothing is pending at the second read, all of the snapshot is in segments.

`BatchesArePrefixes`, `EveryRowReturned` and `NoRowTwice` have two hypotheses, without which they
are false (see the disagreements in section 3): `Steady` (of two documents one has the larger tf and no
smaller a ratio of tf to length, so no statistics reverse their order; the documents of the run
`ordered` are such) and `NDocs <= CapFloor` (no more documents match than the over-fetch cap). The
argument: `Ahead` is a strict total order (scores are compared as products, so its transitivity is
that of ratios), hence ranks below the number of documents are each taken once, and the best k of
a set are its ranks 0 to k-1. A round ends when it has k visible rows or has seen all candidates, and either way
these are the k best of the snapshot, however many candidates it asked for (`BatchIsBest`). The invariant says
of each position of the batch, and of each row returned, that its rank in the snapshot is its
position (`FirstOf`); statistics change between batches, but under `Steady` ranks do not.

### Page allocation

FtsAlloc_proofs, with errors, crashes and skipped pages: `AllocTypes`, `LivePagesKept`,
`OutputsKept`, `ScansReadOn`, `NoPageLeaks`. `AllocInv` is `TypeOK` with

- `Scope`: which fields of a writer's record mean something where (`Points`), that remembered blocks are
  in the file (`InFile`: a truncation excludes the other writers), one maintainer, and no scan beside `fts_vacuum`;
- `Chains`: a chain being written is led to from nowhere and has one writer (`IdsApart`), chain
  numbers are new, a scan's copy leads to chains of the past, and what a rewrite replaces is
  still in the directory (`InKept`);
- `Contents`: `DirectoryIntact` and `OutputIntact` themselves; `GoneApart` (pages about to be
  freed are live and of no chain in use); `Gated`, which is `ScanIntact` made inductive: a page
  that a scan may still read is live, or was freed with a stamp not before the scan's horizon;
- `Accounted`.

Nothing is said of the free space map: the theorems hold for any content of it, because
`Recyclable` decides on the page itself. As in the runs, a state in which a truncation has cut off
a live page has no successor (`CutIsFree`, run `tail`): the theorems are about all behaviours up
to such a cut.

### The shared document-length cache

FtsShDoclen_proofs, for any backends, keys, slots, handles and bounds, with errors and killed
builders: `CacheTypes`, `ReferencesPinned`, `PayloadsPinnedOnce`, `BuildersOwn`, `SharedOnce`. The
invariant `CacheInv` has `LocalsKnown` (what each backend's locals are at each point),
`UnreadyEmpty`, `BuilderOwns`, `OneMatch`, `RefsFit`, `CountCovers` and `PinnedAt`. `CountCovers`
carries the argument: the count of a slot is at least the number of its holders, not equal to it, because an
error between counting and recording leaks a count upward; eviction takes only a slot whose
count is zero, and so one that nobody holds. `PinnedAt` says which slot or which backend is
answerable for each pinned payload.

### The walks of a ranked scan

FtsTopK_proofs: `WalksAreExact` is `ScanSpec => []WalkExact`, for all six walks, any corpus, any
parsed query, k, block and page size, and any setting of the planner's switches. A walk that has
ended without meeting an undecidable phrase has the k best, by score and then docid, of the live
documents it is there for: those with a word of the query (with all of them for a conjunction, with
a driver's word for a driven walk) that its filter and its gate let in. The assumptions are about
the inputs: k, block and page size and the leading bit positive, every corpus well formed
(`RankedCorpus`: what `bm25_write_segment` makes, docids below `Nowhere`, live rows indexed once),
and that what the parser returns is a list in postfix order (`Postfix`: an operator stands right
after its last operand, and every item but the last is an operand of one operator). TLC evaluates
both for the corpora and texts of the run `search`.

`ScanInv` is inductive. At the plan it says what each walk is chosen for (`HowIs`, `Planned`); at
the walk, `Setup` (the cursors are those of the query) and `Progress`, which differs by walk:

- block-max WAND, MaxScore, driven (`Walked`): there is a frontier F; `top` is the k best of the
  documents below F, the live postings the cursors have passed are all below F, and the cursors that
  lead the walk (all, the essential ones, the drivers) are not;
- dense (`DenseWalked`): `top` is the best of the postings before the cursor;
- best-first (`BestWalked`): of the postings of the blocks visited, and the rest is in `todo` under
  a bound not below any score in its block;
- conjunctive (`AndWalked`): of the documents of the driver blocks closed and of the part of the
  open block behind the cursor; no other cursor of the segment is past a document still to come.

Under them lie facts about the layout and about ranking. A document's score is the sum over the
cursors that hold it (`Holders`, `Total`), and each of these contributes no more than its block's
bound or its word's: the header pairs the largest tf with the effective length, and `Contrib` rises
with tf and falls with length. A seek by headers passes over no live posting below its target:
before a list's last block, the header that follows on the page is that of the list's next block
(`NextFirstIs`), and the last block is never passed by it. `BestOf` is the top k of a set under a
strict total order, and adding documents that k hits outrank changes nothing (`TopIgnores`). So a
step that leaves documents behind is right if the bounds it looked at cover all that hold such a
document: the pivot and the blocks up to `SkipTo` in block-max WAND, the spare words in MaxScore,
`DriverBound` with its overlapping blocks in the conjunction. Ties go to the smaller docid, so a
walk in docid order may stop at a bound equal to the k-th score and one by block must not
(`SkipRange`, `Visitable`).

`BooleanScansAreExact` goes on to the result: `ScanSpec => [](PureBoolean /\ ~HasModifier =>
TopKExact)`, under the same assumptions. For a query of plain words under AND, OR and NOT, what the
scan returns is the k best of the documents that match: those of the segments with a word of the
query, and those of the pending list, with one or not (the divergence noted in section 3).
`BooleanInv` adds to `ScanInv` which gate such a query is planned with, that it never asks for a
match set, and what `top` is once the walk or the merge is over. What it rests on is that four
readings of the query agree:

- the stack of `fts_match_eval` makes one pass over the items, so a list in postfix order has just
  one valuation, found bottom up; for words alone it is the truth value (`TruthSet`) that AND, OR
  and NOT give, for a document's words in the matcher (`DocMatches`) as in the gate (`BoolAdmits`);
- a conjunct of the root (`AndOperands`) is true of what matches, and one without NOT is true only
  of a document with a word of it (`PositiveMeans`), so a walk driven by that conjunct's words
  passes every match;
- holding a word under an even number of NOTs can only help a query and holding one under an odd
  number only hurt: if it is false when the former are held wherever they have a posting and the
  latter are not (`MayAdmit`), no document of the segments matches and the walk is skipped
  (`NothingAdmitted`);
- a TID is in one segment or on the pending list, never both, so the merge joins two sets of hits
  that are ranked by one order (`AllHitsRank`, `BestJoins`).

### Only model-checked

- The parallel pass of `fts_merge` (FtsParallel): the theorems above are about the specification
  of FtsDirectory, which it extends, and its own steps are not steps of FtsDirectory.
- What a query means in general: `ScanExact`, `PositionsDecide`, `RoundTrip`, `PhraseMeaning`
  (FtsSearch) and, for queries with phrases, NEAR, prefixes, fuzzy or regex terms, `TopKExact`
  (FtsTopK) compare two evaluations of every query, each a function over its items (matcher and
  segment evaluators, parser and text form) whose values are sets of positions or answers about a
  word's spellings, and would be proved by induction over the query. `WalkExact` is the part of
  `TopKExact` that is not about what a query means, and holds for all of them.
- `TypeOK` of FtsSearch: that an answer is a set of TIDs of the index is likewise a fact about every
  intermediate value of the segment evaluators.
- Liveness (`OperationsEnd`): it rests on fairness, hence ENABLED, which TLAPS does not support.

The induction theorems of the library cannot be instantiated by the provers; where a proof needs
induction over a finite set or the least element of one (FtsSums_proofs, `LeastNat` in
FtsAlloc_proofs), it takes a minimal counterexample of a well-founded order instead.

## 5. What is not modelled, and the plan

Not modelled and not planned: text processing and I/O (analyzers, input and output functions),
floating-point scores beyond the order they induce, planner costs, SQL migration helpers, the
vendored bitmap library. Not modelled yet: the parallel build
(its participants share only the heap scan, and publish segments one by one in an index nobody
else sees yet), the parallel ranked scan
by docid ranges, the fall back of a ranked walk from a torn posting chain to the exact path, the
frame-of-reference codec and the page layout of a segment, levels above 0 of the merge policy.

In this order:

1. The parallel build (pg_fts_am.c): participants that publish segments beside one another, and
   a participant that fails.
2. The parallel ranked scan: docid ranges of one walk, merged; and the walk that meets a page
   freed and reused under it.
3. As functions over bounded inputs: the frame-of-reference codec at its edge widths, the leveled
   selection with several levels.
4. Proofs: the safety invariants of FtsParallel, whose steps between `Launch` and `InstallGroups`
   need an invariant of their own beside that of FtsDirectory_proofs (the sources of every group
   unchanged in the directory, the outputs in nobody's hands).
