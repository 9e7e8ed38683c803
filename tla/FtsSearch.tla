------------------------------ MODULE FtsSearch ------------------------------
(***************************************************************************)
(* One bitmap scan from the query text to the rows: the text is parsed and *)
(* loses its stopwords, each segment of the directory copy contributes     *)
(* candidates (bm25_collect_segment) less its own tombstones, the pending  *)
(* list is matched verbatim, and what the index could not decide is        *)
(* rechecked against the heap (bm25_collect_matches_split, bm25_getbitmap, *)
(* bm25_recheck_exact).  FtsScan has the races of such a scan with         *)
(* maintenance; here the directory stays still and the data is explicit.   *)
(*                                                                         *)
(* A corpus is what FtsDirectory keeps true of an index: every live row is *)
(* indexed once, under a TID no tombstone of that segment covers; a        *)
(* tombstoned TID may be live again elsewhere, and a dead row may still    *)
(* have its posting.                                                       *)
(***************************************************************************)
EXTENDS FtsEval

CONSTANTS
    Texts,      \* query texts: sequences of raw tokens
    Corpora     \* a set of corpora: [heap, segs, pending, positions, trigrams]

VARIABLES
    text,       \* input: the query text
    index,     \* input: a corpus: heap rows, segments, pending list, options
    phase,      \* parse, segments, pending, recheck, done or rejected
    parsed,     \* the items as parsed, before stopword elision
    query,      \* the items the scan evaluates
    seg,        \* next segment of the directory copy
    acc,        \* TIDs collected by the paths that decide a segment at once
    ptids,      \* TIDs the positional path decided to match
    utids,      \* TIDs the positional path could not decide
    needRecheck, \* acc as a whole needs the heap
    exact, unsure, \* what the collection returns
    answer      \* the rows the scan delivers

vars == <<text, index, phase, parsed, query, seg, acc, ptids, utids,
          needRecheck, exact, unsure, answer>>

(* Corpora are consistent: see the head of the module. *)
SegTids(c, s) == DOMAIN c.segs[s].docs \ c.segs[s].tombs
ConsistentCorpus(c) ==
    /\ \A s \in DOMAIN c.segs : \A tid \in SegTids(c, s) \cap DOMAIN c.heap :
          c.segs[s].docs[tid] = c.heap[tid]
    /\ \A tid \in DOMAIN c.pending : tid \in DOMAIN c.heap => c.pending[tid] = c.heap[tid]
    /\ \A tid \in DOMAIN c.heap :
          Cardinality({s \in DOMAIN c.segs : tid \in SegTids(c, s)})
            + (IF tid \in DOMAIN c.pending THEN 1 ELSE 0) = 1

ASSUME CorporaAssumption == \A c \in Corpora : ConsistentCorpus(c)

HasPattern  == \E i \in DOMAIN query : IsVal(query[i]) /\ query[i].kind \in {"FUZZY", "REGEX"}
HasWeighted == \E i \in DOMAIN query : IsVal(query[i]) /\ query[i].mask # {}
HasProximity == \E i \in DOMAIN query : query[i].op \in Proximity

(* The positional path: positions stored, proximity, plain terms only. *)
Positional ==
    /\ index.positions /\ HasProximity /\ ~HasPattern /\ ~HasWeighted
    /\ PhraseChain(query).ok \/ SpanQuery(query)

Start(texts, corpora) ==
    /\ text \in texts
    /\ index \in corpora
    /\ phase = "parse"
    /\ parsed = <<>> /\ query = <<>>
    /\ seg = 1
    /\ acc = {} /\ ptids = {} /\ utids = {}
    /\ needRecheck = FALSE
    /\ exact = {} /\ unsure = {} /\ answer = {}

Init == Start(Texts, Corpora)

(* fts_parse_query_cfg *)
ParseText ==
    /\ phase = "parse"
    /\ IF Parse(text).ok
       THEN /\ parsed' = Parse(text).items
            /\ query' = WithoutStopwords(parsed')
            /\ needRecheck' = (\E i \in DOMAIN query' : IsVal(query'[i]) /\ query'[i].mask # {})
            /\ phase' = "segments"
       ELSE /\ phase' = "rejected"
            /\ UNCHANGED <<parsed, query, needRecheck>>
    /\ UNCHANGED <<text, index, seg, acc, ptids, utids, exact, unsure, answer>>

Segment == index.segs[seg]
Live(tids) == tids \ Segment.tombs

Advance ==
    /\ phase = "segments" /\ seg <= Len(index.segs)
    /\ Segment.dict # <<>>
    /\ seg' = seg + 1
    /\ UNCHANGED <<text, index, phase, parsed, query, exact, unsure, answer>>

(* A segment without a dictionary contributes nothing. *)
SkipSegment ==
    /\ phase = "segments" /\ seg <= Len(index.segs)
    /\ Segment.dict = <<>>
    /\ seg' = seg + 1
    /\ UNCHANGED <<text, index, phase, parsed, query, acc, ptids, utids,
                   needRecheck, exact, unsure, answer>>

(* A fuzzy or regex operand in a larger query: candidates, rechecked. *)
CollectCompoundPattern ==
    /\ Advance
    /\ HasPattern /\ Len(query) > 1
    /\ acc' = acc \cup Live(EvalQuery(Segment, query))
    /\ needRecheck' = TRUE
    /\ UNCHANGED <<ptids, utids>>

(* A fuzzy term alone: the automaton's answer is exact. *)
CollectFuzzy ==
    /\ Advance
    /\ HasPattern /\ Len(query) = 1 /\ query[1].kind = "FUZZY"
    /\ acc' = acc \cup Live(PostingsOf(Segment,
                    FuzzyTerms(Segment.dict, query[1].term, query[1].dist)))
    /\ UNCHANGED <<ptids, utids, needRecheck>>

(* A regex alone: the trigram funnel, or every document; rechecked. *)
CollectRegex ==
    /\ Advance
    /\ HasPattern /\ Len(query) = 1 /\ query[1].kind = "REGEX"
    /\ LET funnel == TrgmCandidates(Segment.dict,
                                    RegexTrigrams(Source(query[1].term)), MinTrigrams)
       IN  acc' = acc \cup Live(IF index.trigrams /\ funnel.ok
                                THEN PostingsOf(Segment, funnel.terms)
                                ELSE Universe(Segment))
    /\ needRecheck' = TRUE
    /\ UNCHANGED <<ptids, utids>>

(* The chain evaluator, or the span evaluator where it gives up. *)
Positions(run, spans) ==
    IF run.ok
    THEN ptids' = ptids \cup Live(run.tids) /\ UNCHANGED utids
    ELSE ptids' = ptids \cup Live(spans.tids) /\ utids' = utids \cup Live(spans.utids)

CollectPositional ==
    LET chain == PhraseChain(query)
        run   == IF chain.ok THEN PhraseEvalSeg(Segment, chain) ELSE [ok |-> FALSE, tids |-> {}]
    IN  /\ Advance
        /\ Positional
        /\ Positions(run, SpanEvalSeg(Segment, query))
        /\ UNCHANGED <<acc, needRecheck>>

(* The set evaluator; proximity without positions is rechecked. *)
CollectGeneral ==
    /\ Advance
    /\ ~HasPattern /\ ~Positional
    /\ LET found == Live(EvalQuery(Segment, query))
       IN  /\ acc' = acc \cup found
           /\ needRecheck' = (needRecheck \/ (found # {} /\ HasProximity))
    /\ UNCHANGED <<ptids, utids>>

CollectSegment ==
    \/ SkipSegment
    \/ CollectCompoundPattern
    \/ CollectFuzzy
    \/ CollectRegex
    \/ CollectPositional
    \/ CollectGeneral

(* bm25_collect_pending: the verbatim documents; no tombstone applies. *)
PendingMatches ==
    {tid \in DOMAIN index.pending : DocMatches(index.pending[tid], query)}

(* The end of bm25_collect_matches_split. *)
CollectPending_AllUnsure ==
    /\ phase = "segments" /\ seg > Len(index.segs)
    /\ phase' = "recheck"
    /\ exact' = {}
    /\ unsure' = acc \cup ptids \cup PendingMatches \cup utids
    /\ UNCHANGED <<text, index, parsed, query, seg, acc, ptids, utids, needRecheck, answer>>

CollectPending_Overlap ==
    /\ phase = "segments" /\ seg > Len(index.segs)
    /\ phase' = "recheck"
    /\ LET all == acc \cup ptids \cup PendingMatches
       IN  /\ exact' = all
           /\ unsure' = IF needRecheck THEN all \cup utids ELSE utids \ all
    /\ UNCHANGED <<text, index, parsed, query, seg, acc, ptids, utids, needRecheck, answer>>

CollectPending ==
    /\ phase = "segments" /\ seg > Len(index.segs)
    /\ phase' = "recheck"
    /\ LET all == acc \cup ptids \cup PendingMatches
       IN  IF needRecheck
           THEN exact' = {} /\ unsure' = all \cup utids
           ELSE exact' = all /\ unsure' = utids \ all
    /\ UNCHANGED <<text, index, parsed, query, seg, acc, ptids, utids, needRecheck, answer>>

(* Visibility for all, the matcher on the heap document for the unsure. *)
Recheck ==
    /\ phase = "recheck"
    /\ phase' = "done"
    /\ answer' = DOMAIN index.heap \cap
          (exact \cup {tid \in unsure : tid \in DOMAIN index.heap
                                          /\ DocMatches(index.heap[tid], query)})
    /\ UNCHANGED <<text, index, parsed, query, seg, acc, ptids, utids,
                   needRecheck, exact, unsure>>

Next == ParseText \/ CollectSegment \/ CollectPending \/ Recheck

Spec == Init /\ [][Next]_vars

-----------------------------------------------------------------------------
Tids == DOMAIN index.heap \cup DOMAIN index.pending
          \cup UNION {DOMAIN index.segs[s].docs : s \in DOMAIN index.segs}

(* What the collection returns is two disjoint sets of indexed rows (the   *)
(* comment of bm25_collect_matches_split): no row is delivered twice.      *)
TypeOK ==
    /\ phase \in {"parse", "segments", "recheck", "done", "rejected"}
    /\ seg \in 1 .. Len(index.segs) + 1
    /\ acc \cup ptids \cup utids \cup exact \cup unsure \cup answer \subseteq Tids
    /\ exact \cap unsure = {}

(***************************************************************************)
(* A scan through the index delivers exactly the live rows whose document  *)
(* the matcher accepts: what a sequential scan returns                     *)
(* (sql/scan_keys.sql), whatever path each segment took.                   *)
(***************************************************************************)
Matching == {tid \in DOMAIN index.heap : DocMatches(index.heap[tid], query)}
ScanExact == phase = "done" => answer = Matching

(***************************************************************************)
(* With stored positions only the documents the positions cannot decide go *)
(* to the heap (the promise of bm25_collect_segment's positional path).    *)
(***************************************************************************)
Decidable(c, s, tid) ==
    LET doc    == c.segs[s].docs[tid]
        values == [i \in DOMAIN query |->
                     IF IsVal(query[i]) THEN TermSpans(doc, query[i]) ELSE NoValue]
    IN  /\ \A i \in DOMAIN query :
              IsVal(query[i]) /\ query[i].term \in DOMAIN doc.pos =>
                /\ Stored(c.segs[s], query[i].term, tid)
                /\ ~Overlong(c.segs[s], query[i].term, tid)
        /\ ~MatchEval(query, values, PosBuf).overflow

PositionsDecide ==
    phase = "recheck" /\ Positional =>
        \A tid \in unsure :
            \E s \in DOMAIN index.segs :
                tid \in SegTids(index, s) /\ ~Decidable(index, s, tid)

(***************************************************************************)
(* The text form of a query parses back to the same query (the comment of  *)
(* ftsquery_out), after stopwords are gone as much as before.              *)
(***************************************************************************)
AtParse == phase = "segments" /\ seg = 1
RoundTrip ==
    AtParse => \A q \in {parsed, query} : Parse(Out(q)) = [ok |-> TRUE, items |-> q]

(***************************************************************************)
(* An exact phrase, whatever its brackets, matches where its words stand   *)
(* at their offsets; a stopword in it only holds its place, because the    *)
(* document dropped it too but kept the ordinals of the other words.       *)
(***************************************************************************)
ExactPhrase(q) ==
    /\ Len(q) > 1
    /\ \A i \in DOMAIN q : q[i].op = "EXACT" \/ IsBare(q[i])
Offset(q, j) ==
    FoldSet(LAMBDA i, sum : sum + q[i].dist, 0,
            {i \in DOMAIN q : ~IsVal(q[i])
                 /\ LeftBoundary(q, i) < Cardinality({v \in 1 .. j : IsVal(q[v])})})
Kept(q) == {j \in DOMAIN q : IsVal(q[j]) /\ q[j].term \notin Stop}
PhraseAt(doc, q, p) ==
    \A j \in Kept(q) :
        q[j].term \in DOMAIN doc.pos /\ p + Offset(q, j) \in doc.pos[q[j].term]
PhraseMeaning ==
    AtParse /\ ExactPhrase(parsed) =>
        \A tid \in DOMAIN index.heap :
            DocMatches(index.heap[tid], query) <=>
                /\ Kept(parsed) # {}
                /\ index.heap[tid].haspos \/ Cardinality(Kept(parsed)) = 1
                /\ \E p \in -5 .. 9 : PhraseAt(index.heap[tid], parsed, p)
=============================================================================
