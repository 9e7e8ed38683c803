------------------------------- MODULE FtsEval -------------------------------
(***************************************************************************)
(* How one segment answers a query (pg_fts_am_scan.c): the set evaluator   *)
(* that over-approximates proximity and labels, the chain evaluator and    *)
(* the span evaluator that decide proximity from stored positions, and the *)
(* dictionary walks for fuzzy and regular-expression terms.                *)
(*                                                                         *)
(* A segment is [docs, dict, missing]: the documents by TID, the           *)
(* dictionary pages, and the <<term, tid>> postings whose positions were   *)
(* not stored.  TID sets are sets: the sorted arrays of the code and its   *)
(* merge, gallop and sort loops are the set operations.                    *)
(***************************************************************************)
EXTENDS FtsMatch, Integers

CONSTANTS
    PosBuf,       \* BM25_PHRASE_POSBUF: positions or spans of one document
    MaxChain,     \* FTS_QUERY_MAX_PHRASE_TERMS
    MinTrigrams   \* trigrams a pattern needs to use the funnel (3)

Postings(seg, term) == {tid \in DOMAIN seg.docs : term \in DOMAIN seg.docs[tid].pos}
PostingsOf(seg, terms) == UNION {Postings(seg, t) : t \in terms}

(* bm25_lookup_term, bm25_lookup_prefix, bm25_lookup_pattern *)
LookupTerm(seg, term) == IF InDict(seg.dict, term) THEN Postings(seg, term) ELSE {}
LookupPrefix(seg, prefix) == PostingsOf(seg, PrefixTerms(seg.dict, prefix))
LookupPattern(seg, it) ==
    PostingsOf(seg, {t \in DictTerms(seg.dict) : TermMatches(it, t)})

(* bm25_universe_bounded: the TIDs of all postings. *)
Universe(seg) == PostingsOf(seg, DictTerms(seg.dict))

(***************************************************************************)
(* EvalVal: `set', or its complement when `neg', approximates the matches; *)
(* approx: 0 exact, 1 a superset, -1 a subset.  A subset must not reach    *)
(* the result: Widen replaces it by everything.                            *)
(***************************************************************************)
EvalVal(set, neg, approx) == [set |-> set, neg |-> neg, approx |-> approx]

Widen_Never(v) == v

Widen(v) == IF v.approx < 0 THEN EvalVal({}, TRUE, 1) ELSE v

(* eval_combine: the operands as they are combined, and the direction. *)
Widened(a, b, odd) ==
    IF ~odd THEN <<Widen(a), Widen(b)>>
    ELSE IF a.approx < 0 /\ b.approx > 0 THEN <<Widen(a), b>>
    ELSE IF b.approx < 0 /\ a.approx > 0 THEN <<a, Widen(b)>>
    ELSE <<a, b>>

Direction(a, b) ==
    IF a.approx > 0 \/ b.approx > 0 THEN 1
    ELSE IF a.approx < 0 \/ b.approx < 0 THEN -1 ELSE 0

(* eval_not_parity: which items are under an odd number of NOTs. *)
NotParity(q) ==
    LET starts == Starts(q)
        odd[i \in DOMAIN q] ==
            IF i = Len(q) THEN FALSE
            ELSE LET p == ParentOf(q, starts, i) IN odd[p] # (q[p].op = "NOT")
    IN  [i \in DOMAIN q |-> odd[i]]

AndVal(a, b, dir) ==
    CASE ~a.neg /\ ~b.neg -> EvalVal(a.set \cap b.set, FALSE, dir)
      [] ~a.neg /\ b.neg  -> EvalVal(a.set \ b.set, FALSE, dir)
      [] a.neg /\ ~b.neg  -> EvalVal(b.set \ a.set, FALSE, dir)
      [] a.neg /\ b.neg   -> EvalVal(a.set \cup b.set, TRUE, dir)

OrVal(a, b, dir) ==
    CASE ~a.neg /\ ~b.neg -> EvalVal(a.set \cup b.set, FALSE, dir)
      [] a.neg /\ b.neg   -> EvalVal(a.set \cap b.set, TRUE, dir)
      [] ~a.neg /\ b.neg  -> EvalVal(b.set \ a.set, TRUE, dir)
      [] a.neg /\ ~b.neg  -> EvalVal(a.set \ b.set, TRUE, dir)

IsBare(it) == IsPlain(it) /\ it.mask = {}

(* The operands of the AND chain at the root (query_and_operands). *)
AndOperands(q) ==
    LET starts == Starts(q)
        ops[i \in DOMAIN q] ==
            IF q[i].op = "AND" THEN ops[i - 1] \cup ops[starts[i - 1] - 1] ELSE {i}
    IN  IF q # <<>> /\ q[Len(q)].op = "AND" THEN ops[Len(q)] ELSE {}

(* bm25_required_term_absent: one operand is an OR of absent plain terms. *)
RequiredTermAbsent(seg, q) ==
    /\ Len(q) >= 3
    /\ \E n \in AndOperands(q) :
          /\ \A m \in Starts(q)[n] .. n : q[m].op = "OR" \/ IsBare(q[m])
          /\ \A m \in Starts(q)[n] .. n : IsVal(q[m]) => LookupTerm(seg, q[m].term) = {}

Leaf(seg, it) ==
    EvalVal(CASE it.kind \in {"FUZZY", "REGEX"} -> LookupPattern(seg, it)
              [] it.kind = "PREFIX"             -> LookupPrefix(seg, it.term)
              [] it.kind = "PLAIN"              -> LookupTerm(seg, it.term),
            FALSE,
            IF it.mask # {} THEN 1 ELSE 0)

(* bm25_eval_query: a superset of the segment's matches. *)
EvalQuery(seg, q) ==
    LET starts == Starts(q)
        odd    == NotParity(q)
        val[i \in DOMAIN q] ==
            IF IsVal(q[i]) THEN Leaf(seg, q[i])
            ELSE IF q[i].op = "NOT"
            THEN [val[i - 1] EXCEPT !.neg = ~@, !.approx = -@]
            ELSE LET ab  == Widened(val[starts[i - 1] - 1], val[i - 1], odd[i])
                     dir == Direction(ab[1], ab[2])
                 IN  CASE q[i].op = "AND" -> AndVal(ab[1], ab[2], dir)
                       [] q[i].op = "OR"  -> OrVal(ab[1], ab[2], dir)
                       [] OTHER           -> AndVal(Widen(ab[1]), Widen(ab[2]), 1)
        root == Widen(val[Len(q)])
    IN  IF q = <<>> \/ RequiredTermAbsent(seg, q) THEN {}
        ELSE IF root.neg THEN Universe(seg) \ root.set
        ELSE root.set

(***************************************************************************)
(* bm25_phrase_chain: a pure chain of plain terms, a two-term w/N, or      *)
(* (A | B) w/N C in either order, with C the anchor.  step[k] joins the    *)
(* k-th operand to the next; an all-<N> tree may have any shape, any other *)
(* chain must be left-deep, each operator's right operand a term.          *)
(***************************************************************************)
NoChain == [ok |-> FALSE, terms |-> <<>>, step |-> <<>>, anchor |-> 0]

OrChain(q) ==
    LET vals == IF q[3].op = "OR" THEN <<q[1], q[2], q[4]>> ELSE <<q[1], q[2], q[3]>>
    IN  IF \A k \in 1 .. 3 : IsPlain(vals[k])
        THEN [ok |-> TRUE, terms |-> [k \in 1 .. 3 |-> vals[k].term], step |-> <<q[5]>>,
              anchor |-> IF q[3].op = "OR" THEN 3 ELSE 1]
        ELSE NoChain

LeftBoundary(q, i) == Cardinality({j \in 1 .. Starts(q)[i - 1] - 1 : IsVal(q[j])})

LinearChain(q) ==
    LET vals == SelectSeq(q, IsVal)
        oprs == {i \in DOMAIN q : ~IsVal(q[i])}
    IN  [ok     |-> TRUE,
         terms  |-> [k \in DOMAIN vals |-> vals[k].term],
         step   |-> [k \in 1 .. Len(vals) - 1 |->
                       q[CHOOSE i \in oprs : q[i].op # "NOT" /\ LeftBoundary(q, i) = k]],
         anchor |-> 0]

PhraseChain(q) ==
    LET vals == SelectSeq(q, IsVal)
        oprs == {i \in DOMAIN q : ~IsVal(q[i])}
        orShape == Len(q) = 5 /\ q[5].op = "WITHIN" /\ (q[3].op = "OR" \/ q[4].op = "OR")
    IN  IF Len(q) < 3 THEN NoChain
        ELSE IF orShape THEN OrChain(q)
        ELSE IF /\ \A i \in DOMAIN vals : IsPlain(vals[i])
                /\ Len(vals) <= MaxChain
                /\ \/ \A i \in oprs : q[i].op = "EXACT"
                   \/ \A i \in oprs : /\ IsVal(q[i - 1])
                                      /\ \/ q[i].op \in {"PHRASE", "EXACT"}
                                         \/ q[i].op = "WITHIN" /\ Len(q) = 3
        THEN LinearChain(q)
        ELSE NoChain

(* bm25_span_query: proximity over plain terms in any combination. *)
SpanQuery(q) ==
    /\ \A i \in DOMAIN q : IsVal(q[i]) => IsBare(q[i])
    /\ \E i \in DOMAIN q : q[i].op \in Proximity

(***************************************************************************)
(* Positional postings (bm25_lookup_term_pos, bm25_pospost_find_fwd).      *)
(***************************************************************************)
Stored(seg, term, tid) == seg.docs[tid].haspos /\ <<term, tid>> \notin seg.missing
Complete(seg, term) == \A tid \in LookupTerm(seg, term) : Stored(seg, term, tid)
Ordinals(seg, term, tid) == seg.docs[tid].pos[term]
Overlong(seg, term, tid) == Cardinality(Ordinals(seg, term, tid)) > PosBuf

(***************************************************************************)
(* bm25_phrase_eval_seg.  The terms are looked up in order: an incomplete  *)
(* one gives the segment up, an absent required one ends it without a      *)
(* match.  Then each document is decided by stepping along the chain; a    *)
(* document with too many positions gives the segment up.                  *)
(***************************************************************************)
ChainReach(seg, chain, tid) ==
    LET pos(k) == Ordinals(seg, chain.terms[k], tid)
        reach[k \in 1 .. Len(chain.terms)] ==
            IF k = 1 THEN pos(1)
            ELSE PhraseStep(reach[k - 1], pos(k), chain.step[k - 1].dist,
                            chain.step[k - 1].op = "EXACT")
    IN  [k \in 1 .. Len(chain.terms) |-> reach[k]]

ChainDoc(seg, chain, tid) ==
    LET n     == Len(chain.terms)
        reach == ChainReach(seg, chain, tid)
        back  == PhraseStep(Ordinals(seg, chain.terms[2], tid),
                            Ordinals(seg, chain.terms[1], tid), chain.step[1].dist, FALSE)
    IN  [over  |-> \E k \in 1 .. n : /\ Overlong(seg, chain.terms[k], tid)
                                     /\ k > 1 => reach[k - 1] # {},
         match |-> \/ reach[n] # {}
                   \/ n = 2 /\ chain.step[1].op = "WITHIN" /\ back # {}]

OrChainDoc(seg, chain, tid) ==
    LET held == {k \in 1 .. 3 : tid \in LookupTerm(seg, chain.terms[k])}
        anchored == Ordinals(seg, chain.terms[chain.anchor], tid)
        near(k) ==
            LET pos == Ordinals(seg, chain.terms[k], tid)
            IN  \/ PhraseStep(pos, anchored, chain.step[1].dist, FALSE) # {}
                \/ PhraseStep(anchored, pos, chain.step[1].dist, FALSE) # {}
    IN  [over  |-> \E k \in held : Overlong(seg, chain.terms[k], tid),
         match |-> \E k \in held \ {chain.anchor} : near(k)]

Decided(verdicts) ==
    [ok   |-> \A tid \in DOMAIN verdicts : ~verdicts[tid].over,
     tids |-> {tid \in DOMAIN verdicts : verdicts[tid].match}]

PhraseEvalSeg(seg, chain) ==
    LET n        == Len(chain.terms)
        required == IF chain.anchor = 0 THEN 1 .. n ELSE {chain.anchor}
        posts(k) == LookupTerm(seg, chain.terms[k])
        stop     == {k \in 1 .. n : \/ ~Complete(seg, chain.terms[k])
                                    \/ k \in required /\ posts(k) = {}}
        drivers  == {tid \in DOMAIN seg.docs : \A k \in required : tid \in posts(k)}
    IN  IF stop # {} THEN [ok |-> Complete(seg, chain.terms[Min(stop)]), tids |-> {}]
        ELSE Decided([tid \in drivers |-> IF chain.anchor = 0 THEN ChainDoc(seg, chain, tid)
                                          ELSE OrChainDoc(seg, chain, tid)])

(***************************************************************************)
(* bm25_span_eval_seg: the whole query on each candidate by the heap's own *)
(* span matcher.  A candidate is undecided when an operand whose positions *)
(* matter has none stored or too many, or the spans overflow.              *)
(***************************************************************************)
SpanVerdict(undecided, verdict) ==
    IF undecided THEN [undecided |-> TRUE, match |-> FALSE]
    ELSE [undecided |-> verdict.overflow, match |-> verdict.present]

SpanDoc(seg, q, tid) ==
    LET need == NeedPos(q)
        present(i) == IsVal(q[i]) /\ tid \in LookupTerm(seg, q[i].term)
        undecided  == \E i \in DOMAIN q :
                        /\ present(i) /\ need[i]
                        /\ Stored(seg, q[i].term, tid) => Overlong(seg, q[i].term, tid)
        values == [i \in DOMAIN q |->
                     [present |-> present(i),
                      spans   |-> IF present(i) /\ need[i]
                                  THEN Points(Ordinals(seg, q[i].term, tid)) ELSE {}]]
    IN  SpanVerdict(undecided, MatchEval(q, values, PosBuf))

SpanAnswer(verdicts) ==
    [tids  |-> {tid \in DOMAIN verdicts : verdicts[tid].match},
     utids |-> {tid \in DOMAIN verdicts : verdicts[tid].undecided}]

SpanEvalSeg(seg, q) == SpanAnswer([tid \in EvalQuery(seg, q) |-> SpanDoc(seg, q, tid)])
=============================================================================
