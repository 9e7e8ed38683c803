----------------------------- MODULE FtsOrdered ------------------------------
(***************************************************************************)
(* The ordering index scan (bm25_gettuple with ORDER BY <=>) of a one-term *)
(* query: it computes the best k rows, hands them out one by one, and when *)
(* the executor wants more computes a larger batch and resumes after the   *)
(* rows already returned.  Other sessions write meanwhile.                 *)
(*                                                                         *)
(* A document is its docid.  Its score is monotone in tf / (tf + K), with  *)
(* K = k1 (1/4 + 3/4 len / avgdl), so the order depends on the collection  *)
(* only through avgdl; lengths are exact (no quantization).  Generating    *)
(* candidates from one copy of the metapage is one step: what happens to   *)
(* the pages read from it is the subject of FtsScan.                       *)
(***************************************************************************)
EXTENDS Naturals, Sequences, FiniteSets

\* An operator named X_Y is a broken variant of X, which no action uses.

CONSTANTS NDocs,       \* documents, all with the query's term
          Tf, DocLen,  \* each document's term frequency and length
          FirstK,      \* k of the first batch: the LIMIT hint, or 100
          Growth,      \* k grows by this factor (4)
          OverFetch,   \* candidates per row asked for, visibility uncertain (4)
          MinFetch,    \* and at least so many (64)
          CapFactor,   \* candidates per row at most (64) ...
          CapFloor     \* ... or so many, whichever is more (4096)

Docs == 1..NDocs

ASSUME DocsAssumption == /\ NDocs \in Nat
                         /\ Tf \in [Docs -> Nat \ {0}] /\ DocLen \in [Docs -> Nat \ {0}]
ASSUME FactorsAssumption ==
    /\ FirstK \in Nat \ {0} /\ Growth \in Nat \ {0, 1} /\ OverFetch \in Nat \ {0}
    /\ MinFetch \in Nat /\ CapFactor \in Nat \ {0} /\ CapFloor \in Nat

VARIABLES row,      \* the heap: no such row yet, live, or dead
          posting,  \* the index: nothing, on the pending list, in a segment, tombstoned there
          stat,     \* ndocs and sumdoclen of the metapage
          scan      \* the scan's BM25ScanOpaque and the rows it returned

vars == <<row, posting, stat, scan>>

Larger(m, n) == IF m > n THEN m ELSE n
Smaller(m, n) == IF m < n THEN m ELSE n

NoScan == [pc |-> "idle", snap |-> {}, maxhits |-> 0, curk |-> 0, wantk |-> 0,
           ordered |-> <<>>, pos |-> 0, returned |-> <<>>]

Init == /\ row = [d \in Docs |-> "none"]
        /\ posting = [d \in Docs |-> "none"]
        /\ stat = [ndocs |-> 0, sumdoclen |-> 0]
        /\ scan = NoScan

With(p) == {d \in Docs : posting[d] = p}

-----------------------------------------------------------------------------
(* The other sessions *)

Insert(d) ==
    /\ row[d] = "none"
    /\ row' = [row EXCEPT ![d] = "live"]
    /\ posting' = [posting EXCEPT ![d] = "pending"]
    /\ stat' = [ndocs |-> stat.ndocs + 1, sumdoclen |-> stat.sumdoclen + DocLen[d]]
    /\ UNCHANGED scan

Delete(d) ==
    /\ row[d] = "live"
    /\ row' = [row EXCEPT ![d] = "dead"]
    /\ UNCHANGED <<posting, stat, scan>>

Flushed == [d \in Docs |-> IF posting[d] = "pending" THEN "segment" ELSE posting[d]]

Flush == /\ With("pending") # {}
         /\ posting' = Flushed
         /\ UNCHANGED <<row, stat, scan>>

\* Dead rows that no snapshot sees and that have no tombstone yet.
Gone_Again == {d \in Docs : row[d] = "dead" /\ d \notin scan.snap /\ posting[d] # "none"}
Gone == {d \in Docs : /\ row[d] = "dead" /\ d \notin scan.snap
                       /\ posting[d] \in {"pending", "segment"}}

\* VACUUM flushes, tombstones those rows and refreshes ndocs; sumdoclen keeps
\* their lengths.
Vacuum == /\ Gone # {}
          /\ posting' = [d \in Docs |-> IF d \in Gone THEN "tombstoned" ELSE Flushed[d]]
          /\ stat' = [stat EXCEPT !.ndocs = @ - Cardinality(Gone)]
          /\ UNCHANGED <<row, scan>>

Merge == /\ With("tombstoned") # {}
         /\ posting' = [d \in Docs |-> IF posting[d] = "tombstoned" THEN "none" ELSE posting[d]]
         /\ UNCHANGED <<row, stat, scan>>

-----------------------------------------------------------------------------
(* Ranking *)

\* d is ranked before e: a higher score under statistics st, or the lower
\* docid (cmp_scored_desc).
Weight(d, st) == st.sumdoclen + 3 * DocLen[d] * st.ndocs
Ahead(d, e, st) ==
    LET x == Tf[d] * Weight(e, st)
        y == Tf[e] * Weight(d, st)
    IN  x > y \/ (x = y /\ d < e)

Rank(d, S, st) == Cardinality({e \in S : Ahead(e, d, st)})
Best(S, k, st) == {d \in S : Rank(d, S, st) < k}
Ranked(S, st) == [i \in 1..Cardinality(S) |-> CHOOSE d \in S : Rank(d, S, st) = i - 1]

\* bm25_topk_candidates_range: the best of the segments' postings that are not
\* tombstoned, merged with the best of the pending list.
Candidates_Apart(k) ==
    LET seg == Best(With("segment"), k, stat)
    IN  seg \cup Best(With("pending"), k - Cardinality(seg), stat)
Candidates(k) == Best(With("segment") \cup With("pending"), k, stat)

-----------------------------------------------------------------------------
(* The scan *)

\* bm25_query_maxhits: how many rows can match.
MaxHits_Segments(n) == Smaller(Cardinality(With("segment") \cup With("tombstoned")), n)
MaxHits(n) ==
    IF With("pending") # {} THEN n
    ELSE Smaller(Cardinality(With("segment") \cup With("tombstoned")), n)

\* The first k of a batch, and the next one, is no more than the rows there can be.
Capped(k, hits) == IF k > hits THEN Larger(hits, 1) ELSE k

\* How many candidates to ask for first; exactly k if pg_class says that the
\* heap is all-visible, which may be stale.
FirstWant(k) == {k, Larger(k * OverFetch, MinFetch)}

\* The first call: the snapshot is taken, then the metapage is read for N.
Begin == /\ scan.pc = "idle"
         /\ scan' = [scan EXCEPT !.pc = "bound", !.snap = {d \in Docs : row[d] = "live"},
                                 !.maxhits = Larger(stat.ndocs, 1)]
         /\ UNCHANGED <<row, posting, stat>>

\* It is read again for the bound.
Bound == /\ scan.pc = "bound"
         /\ LET hits == MaxHits(scan.maxhits)
                k == Capped(FirstK, hits)
            IN  \E w \in FirstWant(k) :
                   scan' = [scan EXCEPT !.pc = "batch", !.maxhits = hits, !.curk = k, !.wantk = w]
         /\ UNCHANGED <<row, posting, stat>>

WantCap(k) == Larger(k * CapFactor, CapFloor)

\* A batch is short, though there were more candidates to ask for.
Short_Never(nvis, ncand) == FALSE
Short(nvis, ncand) == nvis < scan.curk /\ ncand = scan.wantk /\ scan.wantk < WantCap(scan.curk)

\* bm25_topk_visible: the k best candidates that the snapshot sees, or another
\* round with twice as many candidates.
Generate ==
    LET k == scan.curk
        cand == Candidates(scan.wantk)
        vis == Best(cand \cap scan.snap, k, stat)
    IN  /\ scan.pc = "batch"
        /\ \/ /\ Short(Cardinality(vis), Cardinality(cand))
              /\ scan' = [scan EXCEPT !.wantk = Smaller(2 * @, WantCap(k))]
           \/ /\ ~Short(Cardinality(vis), Cardinality(cand))
              /\ scan' = [scan EXCEPT !.pc = "pull", !.ordered = Ranked(vis, stat)]
        /\ UNCHANGED <<row, posting, stat>>

\* The executor pulls the next row.
Return == /\ scan.pc = "pull" /\ scan.pos < Len(scan.ordered)
          /\ scan' = [scan EXCEPT !.pos = @ + 1, !.returned = Append(@, scan.ordered[scan.pos + 1])]
          /\ UNCHANGED <<row, posting, stat>>

\* The batch is exhausted, was full, and there may be more rows.
Exhausted == scan.pos >= Len(scan.ordered)
More == Len(scan.ordered) = scan.curk /\ scan.curk < scan.maxhits

\* A larger batch, to resume after the rows already returned.
Resume_First == 0
Resume == scan.pos
Grow == /\ scan.pc = "pull" /\ Exhausted /\ More
        /\ LET k == Capped(scan.curk * Growth, scan.maxhits)
           IN  \E w \in FirstWant(k) :
                  scan' = [scan EXCEPT !.pc = "batch", !.curk = k, !.wantk = w, !.pos = Resume]
        /\ UNCHANGED <<row, posting, stat>>

\* No more rows.
Stop == /\ scan.pc = "pull" /\ Exhausted /\ ~More
        /\ scan' = [scan EXCEPT !.pc = "done"]
        /\ UNCHANGED <<row, posting, stat>>

Scan == Begin \/ Bound \/ Generate \/ Return \/ Grow \/ Stop

Next == \/ \E d \in Docs : Insert(d) \/ Delete(d)
        \/ Flush \/ Vacuum \/ Merge \/ Scan

Spec == Init /\ [][Next]_vars

-----------------------------------------------------------------------------
(* Properties *)

Scans == [pc : {"idle", "bound", "batch", "pull", "done"}, snap : SUBSET Docs,
          maxhits : Nat, curk : Nat, wantk : Nat, ordered : Seq(Docs), pos : Nat,
          returned : Seq(Docs)]

\* Every variable keeps its type.
TypeOK == /\ row \in [Docs -> {"none", "live", "dead"}]
          /\ posting \in [Docs -> {"none", "pending", "segment", "tombstoned"}]
          /\ stat \in [ndocs : Nat, sumdoclen : Nat]
          /\ scan \in Scans

\* A batch begins with the rows already returned, in the order they were
\* returned in: resuming by position repeats and skips none ("a top-k batch
\* [is] a prefix of every larger batch, which the ordering scan's
\* grow-and-resume (ordpos = prev) relies on").
BatchPrefix ==
    scan.pc = "pull" => /\ scan.pos <= Len(scan.ordered)
                        /\ scan.returned = SubSeq(scan.ordered, 1, scan.pos)

\* A scan that ends has returned every row its snapshot sees ("MUST be able
\* to return EVERY matching tuple").
AllReturned == scan.pc = "done" => scan.snap \subseteq {scan.returned[i] : i \in DOMAIN scan.returned}

\* The order of the documents is the same in every collection: of two, one has
\* the larger tf, no smaller for its length (ties by docid).
Dominates(d, e) == /\ Tf[d] >= Tf[e] /\ Tf[d] * DocLen[e] >= Tf[e] * DocLen[d]
                   /\ Tf[d] = Tf[e] /\ DocLen[d] = DocLen[e] => d <= e
Steady == \A d, e \in Docs : Dominates(d, e) \/ Dominates(e, d)

\* No row is returned twice ("every row in exact order").
NoRepeat == \A i, j \in DOMAIN scan.returned : scan.returned[i] = scan.returned[j] => i = j

\* The bound on the number of rows holds for every row of the snapshot,
\* whatever is pending, tombstoned or merged between the two reads of the
\* metapage ("the query's provable max hits").
BoundHolds == scan.pc \in {"batch", "pull", "done"} => Cardinality(scan.snap) <= scan.maxhits
=============================================================================
