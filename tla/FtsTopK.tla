------------------------------ MODULE FtsTopK ------------------------------
(***************************************************************************)
(* One index scan of either kind.  want = 0: the bitmap scan of FtsSearch. *)
(* want = k: a ranked scan for its k best documents                        *)
(* (bm25_topk_candidates_range): the query is planned, an admission gate   *)
(* chosen, and one of seven walks over the posting cursors fills the       *)
(* top-k; the pending list is merged in at the end.                        *)
(*                                                                         *)
(* The walks differ in what they may leave unread.  A skip is decided from *)
(* a bound and the score of the k-th hit, several steps before the hit     *)
(* that was skipped would have been met.  The heap of hits is a set, the   *)
(* cursors hold a position each, a heap of blocks is a set of which a      *)
(* block of the highest bound is taken.                                    *)
(***************************************************************************)
EXTENDS FtsSearch, FtsRank

CONSTANTS
    Wants,         \* sizes of a ranked scan
    Settings,      \* [bestfirst, lazy, densemin]: the settings of the session
    RankedTexts,
    RankedCorpora, \* corpora of which every indexed row is live
    Fraction       \* BM25_DRIVEN_MAX_FRACTION (8)

(* What bm25_write_segment makes: a document's words have ordinals, the    *)
(* dictionary has just those words, each on the page that begins at or     *)
(* before it.                                                              *)
OrderedDict(dict) ==
    /\ DOMAIN dict \subseteq Nat
    /\ \A p \in DOMAIN dict : \A term \in ToSet(dict[p]) :
          /\ ~Before(term, dict[p][1])
          /\ \A r \in DOMAIN dict : r > p => Before(term, dict[r][1])
Documents(docs) ==
    /\ IsFiniteSet(DOMAIN docs) /\ DOMAIN docs \subseteq 0 .. Nowhere - 1
    /\ \A tid \in DOMAIN docs :
          /\ IsFiniteSet(DOMAIN docs[tid].pos)
          /\ \A term \in DOMAIN docs[tid].pos :
                IsFiniteSet(docs[tid].pos[term]) /\ docs[tid].pos[term] # {}
WellFormed(sg) ==
    /\ Documents(sg.docs)
    /\ OrderedDict(sg.dict)
    /\ DictTerms(sg.dict) = UNION {DOMAIN sg.docs[tid].pos : tid \in DOMAIN sg.docs}

RankedCorpus(c) ==
    /\ ConsistentCorpus(c)
    /\ DOMAIN c.heap = DOMAIN c.pending \cup UNION {SegTids(c, s) : s \in DOMAIN c.segs}
    /\ IsFiniteSet(DOMAIN c.heap) /\ IsFiniteSet(DOMAIN c.segs) /\ Documents(c.pending)
    /\ \A s \in DOMAIN c.segs : s \in Nat /\ WellFormed(c.segs[s])

(* What fts_parse_query makes: a list in which an operator stands right    *)
(* after its last operand, and every item but the last is an operand of    *)
(* one operator.                                                           *)
Listed(q) == Len(q) \in Nat /\ DOMAIN q = 1 .. Len(q)
Postfix(q) ==
    LET starts == Starts(q)
    IN  /\ Listed(q)
        /\ \A i \in DOMAIN q :
              IF IsVal(q[i]) THEN starts[i] = i
              ELSE IF q[i].op = "NOT" THEN i > 1 /\ starts[i] = starts[i - 1]
              ELSE i > 1 /\ starts[i - 1] > 1 /\ starts[i] = starts[starts[i - 1] - 1]
        /\ q # <<>> => starts[Len(q)] = 1
        /\ \A i \in 1 .. Len(q) - 1 : \E p \in i + 1 .. Len(q) :
              \A j \in DOMAIN q : i \in Kids(q, starts, j) <=> j = p

ASSUME RankedAssumption ==
    /\ Wants \subseteq Nat \ {0}
    /\ \A c \in RankedCorpora : RankedCorpus(c)
    /\ \A t \in RankedTexts :
          Parse(t).ok => Postfix(WithoutStopwords(Parse(t).items))

VARIABLES
    want, settings, \* inputs
    stage,      \* plan, collect, open, walk, merge or done
    suppressed, \* lazy_phrase_suppressed
    curs,       \* the cursors
    at,         \* the position of each in its posting list
    walk,       \* [gate, filtered, filter, how, drivers]
    todo,       \* blocks not visited yet by a best-first walk
    block,      \* the block a walk over a conjunction is in
    unknown,    \* the phrase gate met a posting it cannot decide
    top         \* the hits so far

ranked == <<want, settings, stage, suppressed, curs, at, walk, todo, block, unknown, top>>
scanVars == <<vars, ranked>>

NoWalk == [gate |-> "none", filtered |-> FALSE, filter |-> {}, how |-> "none", drivers |-> {}]

Block(c, b, bound) == [cur |-> c, blk |-> b, bound |-> bound]
NoBlock == Block(<<0, 0>>, 0, -1)

ScanInit ==
    /\ want \in {0} \cup Wants
    /\ IF want = 0 THEN Init /\ settings = CHOOSE o \in Settings : TRUE
       ELSE Start(RankedTexts, RankedCorpora) /\ settings \in Settings
    /\ stage = "plan" /\ suppressed = FALSE
    /\ curs = <<>> /\ at = <<>> /\ walk = NoWalk /\ todo = {} /\ block = NoBlock
    /\ unknown = FALSE /\ top = {}

-----------------------------------------------------------------------------
(* The shape of the query.  An operand's ordinal numbers its word. *)
OperatorsOf(q) == {q[i].op : i \in {j \in DOMAIN q : ~IsVal(q[j])}}
Ordinal(i) == OrdinalIn(query, i)
AllWords == DOMAIN QueryTerms(query)

HasModifier == \E i \in DOMAIN query : IsVal(query[i]) /\ ~IsBare(query[i])
PureOr      == OperatorsOf(query) \subseteq {"OR"}
PureBoolean == OperatorsOf(query) \subseteq {"AND", "OR", "NOT"}

LazyPhraseOk ==
    /\ settings.lazy /\ ~suppressed /\ index.positions
    /\ OperatorsOf(query) \subseteq {"PHRASE", "EXACT"}
    /\ PhraseChain(query).ok /\ PhraseChain(query).anchor = 0
    /\ \A i \in DOMAIN query : IsVal(query[i]) <=> (i = 1 \/ i % 2 = 0)

(* bool_gate_admits: the query's Boolean value when these words are held. *)
BoolAdmits(held) ==
    MatchEval(query, [i \in DOMAIN query |->
        [present |-> IsVal(query[i]) /\ Ordinal(i) \in held, spans |-> {}]], 0).present

(* bool_gate_may_admit: no segment document can satisfy the query. *)
MayAdmit(cs) ==
    LET odd == NotParity(query)
    IN  BoolAdmits({Ordinal(i) : i \in {j \in DOMAIN query :
            IsVal(query[j]) /\ ~odd[j] /\ \E c \in DOMAIN cs : WordOf(c) = Ordinal(j)}})

(* bool_gate_conjunctive *)
Conjunctive(gate) == gate = "phrase" \/ (gate = "bool" /\ OperatorsOf(query) \subseteq {"AND"})

Df(cs, C) == SumFunction([c \in C |-> Len(cs[c].list)])

(***************************************************************************)
(* bool_gate_driver: of the operands of the root AND without a NOT, one of *)
(* the fewest postings; its words.                                         *)
(***************************************************************************)
WordsUnder(n) == {Ordinal(m) : m \in {k \in Starts(query)[n] .. n : IsVal(query[k])}}
Cost(cs, n) == Df(cs, {c \in DOMAIN cs : WordOf(c) \in WordsUnder(n)})
Positive(n) == \A m \in Starts(query)[n] .. n : query[m].op # "NOT"
Driver(cs) ==
    LET operands == {n \in AndOperands(query) : Positive(n)}
    IN  IF operands = {} THEN [ok |-> FALSE, words |-> {}]
        ELSE LET n == CHOOSE n \in operands : \A m \in operands : Cost(cs, n) <= Cost(cs, m)
             IN  [ok    |-> Cost(cs, n) * Fraction <= Df(cs, DOMAIN cs),
                  words |-> WordsUnder(n)]

(* fts_search_wand: which walk. *)
Single(cs)  == Cardinality(DOMAIN cs) = 1
OneWord(cs) == DOMAIN cs # {} /\ (Single(cs) \/ \A c \in DOMAIN cs : WordOf(c) = 1)
Dense(cs)   == Single(cs) /\ \E c \in DOMAIN cs : settings.densemin \in 1 .. Len(cs[c].list)

Method(cs, gate, filtered) ==
    LET ranksAll == ~filtered /\ gate = "none"
    IN  IF settings.bestfirst /\ gate = "bool" /\ ~Conjunctive(gate) /\ Driver(cs).ok
        THEN "driven"
        ELSE IF settings.bestfirst /\ Conjunctive(gate) THEN "and"
        ELSE IF settings.bestfirst /\ ranksAll /\ OneWord(cs) THEN "best"
        ELSE IF ranksAll /\ Dense(cs) THEN "dense"
        ELSE IF Cardinality(DOMAIN cs) >= 4 THEN "maxscore" ELSE "bmw"

-----------------------------------------------------------------------------
(***************************************************************************)
(* The blocks of a best-first walk.  A conjunction is walked in the        *)
(* segments that hold every word, by the blocks of the rarest one.  A      *)
(* document of such a block lies between its first document and that of    *)
(* the next; each other word adds at most its best block in that range,    *)
(* and a word without one leaves nothing to match (bound -1).              *)
(***************************************************************************)
Group(cs, s) == {c \in DOMAIN cs : SegOf(c) = s}
Rarest(cs, s) ==
    CHOOSE c \in Group(cs, s) : \A o \in Group(cs, s) :
        \/ Len(cs[c].list) < Len(cs[o].list)
        \/ Len(cs[c].list) = Len(cs[o].list) /\ Precedes(c, o)

Overlapping(cur, low, high) ==
    {b \in DOMAIN cur.hdr : /\ cur.hdr[b].first < high
                            /\ b < Len(cur.hdr) => cur.hdr[b + 1].first > low}

DriverBound(cs, d, b) ==
    LET low   == cs[d].hdr[b].first
        high  == IF b < Len(cs[d].hdr) THEN cs[d].hdr[b + 1].first ELSE Nowhere
        in(o) == IF o = d THEN {b} ELSE Overlapping(cs[o], low, high)
        best(o) == Max({cs[o].bound[j] : j \in in(o)})
    IN  IF \E o \in Group(cs, SegOf(d)) : in(o) = {} THEN -1
        ELSE SumFunction([o \in Group(cs, SegOf(d)) |-> best(o)])

BlocksOf(cs, how) ==
    LET whole == {s \in {SegOf(c) : c \in DOMAIN cs} : {WordOf(c) : c \in Group(cs, s)} = AllWords}
    IN  CASE how = "best" -> UNION {{Block(c, b, cs[c].bound[b]) : b \in DOMAIN cs[c].hdr} :
                                      c \in DOMAIN cs}
          [] how = "and"  -> UNION {{Block(Rarest(cs, s), b, DriverBound(cs, Rarest(cs, s), b)) :
                                      b \in DOMAIN cs[Rarest(cs, s)].hdr} : s \in whole}
          [] OTHER -> {}

(* A phrase with a word no segment holds, or a query no segment document   *)
(* can satisfy, is not walked.                                             *)
Walkable(cs, gate) ==
    CASE gate = "phrase" -> {WordOf(c) : c \in DOMAIN cs} = AllWords
      [] gate = "bool"   -> MayAdmit(cs)
      [] OTHER           -> TRUE

Planning ==
    /\ want > 0 /\ stage = "plan" /\ phase = "segments"
    /\ UNCHANGED <<vars, want, settings, suppressed, curs, at, todo, block, unknown, top>>

Gated(gate) == [NoWalk EXCEPT !.gate = gate]

(* Modifiers, and proximity the phrase gate cannot take, need the match set. *)
PlanCollect ==
    /\ Planning
    /\ HasModifier \/ ~(PureBoolean \/ LazyPhraseOk)
    /\ stage' = "collect" /\ UNCHANGED walk

PlanOr ==
    /\ Planning /\ ~HasModifier /\ PureOr
    /\ stage' = "open" /\ walk' = NoWalk

PlanBoolean ==
    /\ Planning /\ ~HasModifier /\ PureBoolean /\ ~PureOr
    /\ stage' = "open" /\ walk' = Gated("bool")

PlanPhrase ==
    /\ Planning /\ ~HasModifier /\ ~PureBoolean /\ LazyPhraseOk
    /\ stage' = "open" /\ walk' = Gated("phrase")

(* The match set, the undecided documents rechecked, filters the walk; an  *)
(* empty one leaves only the pending list.                                 *)
Matched == exact \cup {tid \in unsure : tid \in DOMAIN index.heap
                                          /\ DocMatches(index.heap[tid], query)}

PlanFilter ==
    /\ stage = "collect" /\ phase = "recheck" /\ ~HasModifier
    /\ stage' = IF Matched = {} THEN "merge" ELSE "open"
    /\ walk' = [NoWalk EXCEPT !.filtered = TRUE, !.filter = Matched]
    /\ UNCHANGED <<vars, want, settings, suppressed, curs, at, todo, block, unknown, top>>

(* One cursor per word and segment; then fts_search_wand.                  *)
OpenCursors ==
    /\ stage = "open"
    /\ curs' = Cursors(index, QueryTerms(query))
    /\ at' = [c \in DOMAIN curs' |-> Settle(curs'[c], 1)]
    /\ walk' = [walk EXCEPT !.how = Method(curs', walk.gate, walk.filtered),
                            !.drivers = Driver(curs').words]
    /\ todo' = BlocksOf(curs', walk'.how)
    /\ stage' = IF Walkable(curs', walk.gate) THEN "walk" ELSE "merge"
    /\ UNCHANGED <<vars, want, settings, suppressed, block, unknown, top>>

(* bm25_topk_exact: every collected row, from the heap, by its own length. *)
TermScore(doc, term, len) ==
    IF term \in DOMAIN doc.pos
    THEN Contrib(TermIdf(index, term), TermFreq(doc, term), len) ELSE 0
DocScore(doc, len) ==
    SumFunction([t \in AllWords |-> TermScore(doc, QueryTerms(query)[t], len)])

RankExact ==
    /\ stage = "collect" /\ phase = "recheck" /\ HasModifier
    /\ stage' = "done"
    /\ top' = BestOf({Hit(tid, DocScore(index.heap[tid], DocLen(index.heap[tid]))) :
                        tid \in {x \in (exact \cup unsure) \cap DOMAIN index.heap :
                                   DocMatches(index.heap[x], query)}}, want)
    /\ UNCHANGED <<vars, want, settings, suppressed, curs, at, walk, todo, block, unknown>>

-----------------------------------------------------------------------------
(* What the walks share. *)
Id(pos, c)     == Docid(curs[c], pos[c])
On(pos, d)     == {c \in DOMAIN curs : Id(pos, c) = d}
Ids(C)         == {Id(at, c) : c \in C} \ {Nowhere}
Full           == Cardinality(top) = want
Threshold      == IF Full THEN WorstOf(top).score ELSE 0
CurBlock(c)    == BlockOf(at[c])
LastOf(c)      == curs[c].hdr[CurBlock(c)].last
MaxSum(C)      == SumFunction([c \in C |-> curs[c].maxc])
ScoreOf(pos, C) == SumFunction([c \in C |-> Score(curs[c], pos[c])])

SeekAll(pos, C, target) ==
    [c \in DOMAIN curs |-> IF c \in C THEN Seek(curs[c], pos[c], target) ELSE pos[c]]
Advanced(pos, C) ==
    [c \in DOMAIN curs |-> IF c \in C THEN Settle(curs[c], pos[c] + 1) ELSE pos[c]]

(* phrase_gate_admits: is the phrase in this document of this segment? *)
PhraseVerdict(s, tid) ==
    LET chain == PhraseChain(query)
        doc   == ChainDoc(index.segs[s], chain, tid)
        undecided == doc.over \/ \E k \in DOMAIN chain.terms :
                                    ~Stored(index.segs[s], chain.terms[k], tid)
    IN  [unknown |-> undecided, admit |-> ~undecided /\ doc.match]

(* bmw_gate_admits, from the cursors that stand on document d. *)
GateVerdict(pos, d) ==
    LET here  == On(pos, d)
        whole == {s \in DOMAIN index.segs : {WordOf(c) : c \in here \cap Group(curs, s)} = AllWords}
    IN  CASE walk.gate = "none" -> [unknown |-> FALSE, admit |-> TRUE]
          [] walk.gate = "bool" -> [unknown |-> FALSE, admit |-> BoolAdmits({WordOf(c) : c \in here})]
          [] walk.gate = "phrase" ->
               [unknown |-> \E s \in whole : PhraseVerdict(s, d).unknown,
                admit   |-> \E s \in whole : PhraseVerdict(s, d).admit]

(* A document may enter if it scores above the k-th hit and is admitted.   *)
(* The walks by document meet ties in the order of TIDs.                   *)
Replaced(hit) == (IF Full THEN top \ {WorstOf(top)} ELSE top) \cup {hit}

Offer(pos, d) ==
    LET score   == ScoreOf(pos, On(pos, d))
        enters  == /\ ~Full \/ score > Threshold
                   /\ walk.filtered => d \in walk.filter
                   /\ ~unknown
        verdict == GateVerdict(pos, d)
    IN  /\ top' = IF enters /\ verdict.admit THEN Replaced(Hit(d, score)) ELSE top
        /\ unknown' = (unknown \/ (enters /\ verdict.unknown))

Walking(how) ==
    /\ stage = "walk" /\ walk.how = how
    /\ UNCHANGED <<vars, want, settings, stage, suppressed, curs, walk>>
ByDocument(how) == Walking(how) /\ UNCHANGED <<todo, block>>

(***************************************************************************)
(* fts_search_bmw.  The pivot is the first document the word-wide bounds   *)
(* allow to beat the k-th hit; the bounds of the blocks the cursors stand  *)
(* in may still rule out everything up to where one of the blocks ends or  *)
(* a further cursor stands.                                                *)
(***************************************************************************)
UpTo(d) == {c \in DOMAIN curs : Id(at, c) <= d}
Pivots  == {d \in Ids(DOMAIN curs) : ~Full \/ MaxSum(UpTo(d)) > Threshold}
Pivot   == Min(Pivots)
Lead    == UpTo(Pivot)
Hopeless ==
    Full /\ SumFunction([c \in Lead |-> curs[c].bound[CurBlock(c)]]) <= Threshold

(* One cursor, and no other within its block. *)
Isolated ==
    \E c \in DOMAIN curs : Lead = {c} /\ \A o \in DOMAIN curs \ {c} : Id(at, o) > LastOf(c)

SkipTo_BlockEnds == Min({LastOf(c) + 1 : c \in Lead})

SkipTo == Min({LastOf(c) + 1 : c \in Lead} \cup {Id(at, c) : c \in DOMAIN curs \ Lead})

BmwSkipBlock ==
    /\ ByDocument("bmw") /\ Pivots # {} /\ Hopeless /\ Isolated
    /\ at' = [c \in DOMAIN curs |->
                IF c \in Lead THEN Settle(curs[c], BlockEnd(curs[c].list, CurBlock(c)) + 1)
                ELSE at[c]]
    /\ UNCHANGED <<top, unknown>>

BmwJump ==
    /\ ByDocument("bmw") /\ Pivots # {} /\ Hopeless /\ ~Isolated
    /\ at' = SeekAll(at, Lead, SkipTo)
    /\ UNCHANGED <<top, unknown>>

BmwScore ==
    /\ ByDocument("bmw") /\ Pivots # {} /\ ~Hopeless
    /\ Pivot = Min(Ids(DOMAIN curs))
    /\ Offer(at, Pivot)
    /\ at' = Advanced(at, On(at, Pivot))

BmwApproach ==
    /\ ByDocument("bmw") /\ Pivots # {} /\ ~Hopeless
    /\ Pivot > Min(Ids(DOMAIN curs))
    /\ at' = SeekAll(at, UpTo(Pivot - 1), Pivot)
    /\ UNCHANGED <<top, unknown>>

(***************************************************************************)
(* fts_search_maxscore.  Cursors by rising word-wide bound; while the      *)
(* first ones together cannot beat the k-th hit they are not essential,    *)
(* and only documents of the others are candidates.                        *)
(***************************************************************************)
Below(c) ==
    {o \in DOMAIN curs : \/ curs[o].maxc < curs[c].maxc
                         \/ curs[o].maxc = curs[c].maxc /\ Precedes(o, c)}
Essential == {c \in DOMAIN curs : ~Full \/ MaxSum(Below(c)) > Threshold}
Spare     == DOMAIN curs \ Essential
Candidate == Min(Ids(Essential))
TooWeak   == Full /\ ScoreOf(at, On(at, Candidate) \cap Essential) + MaxSum(Spare) <= Threshold

MaxScorePass ==
    /\ ByDocument("maxscore") /\ Ids(Essential) # {} /\ TooWeak
    /\ at' = Advanced(at, On(at, Candidate) \cap Essential)
    /\ UNCHANGED <<top, unknown>>

MaxScoreScore ==
    /\ ByDocument("maxscore") /\ Ids(Essential) # {} /\ ~TooWeak
    /\ LET sought == SeekAll(at, Spare, Candidate)
       IN  /\ Offer(sought, Candidate)
           /\ at' = Advanced(sought, On(sought, Candidate) \cap Essential)

(* fts_search_driven: candidates from the cursors of one operand. *)
Drivers == {c \in DOMAIN curs : WordOf(c) \in walk.drivers}

DrivenScore ==
    /\ ByDocument("driven") /\ Ids(Drivers) # {}
    /\ LET d      == Min(Ids(Drivers))
           sought == SeekAll(at, DOMAIN curs \ Drivers, d)
       IN  /\ Offer(sought, d)
           /\ at' = Advanced(sought, On(sought, d) \cap Drivers)

(***************************************************************************)
(* fts_search_dense1 and fts_search_bestfirst_n: every live posting of a   *)
(* block, in the order of the list or of the bounds.  Blocks come out of   *)
(* TID order, so a block whose bound equals the k-th score is still read.  *)
(***************************************************************************)
BlockHits(c, b) ==
    {Hit(curs[c].list[j].tid, Score(curs[c], j)) :
        j \in {j \in BlockStart(b) .. BlockEnd(curs[c].list, b) :
                 curs[c].list[j].tid \notin curs[c].tombs}}

DenseBlock ==
    /\ ByDocument("dense")
    /\ \E c \in DOMAIN curs :
          /\ at[c] <= Len(curs[c].list)
          /\ top' = BestOf(top \cup BlockHits(c, CurBlock(c)), want)
          /\ at' = [at EXCEPT ![c] = BlockEnd(curs[c].list, CurBlock(c)) + 1]
    /\ UNCHANGED unknown

Visitable ==
    {e \in todo : /\ \A f \in todo : f.bound <= e.bound
                  /\ e.bound >= 0 /\ ~(Full /\ e.bound < Threshold)}

BestFirstBlock ==
    /\ Walking("best")
    /\ \E e \in Visitable :
          /\ todo' = todo \ {e}
          /\ top' = BestOf(top \cup BlockHits(e.cur, e.blk), want)
    /\ UNCHANGED <<at, block, unknown>>

(***************************************************************************)
(* fts_search_and_bestfirst.  When a driver block is opened the other      *)
(* cursors of its segment are set back to the block that covers its first  *)
(* document (conj_position); then each document of it is sought in them    *)
(* (the code stops at the first word that lacks it; the others catch up    *)
(* with their next seek).                                                  *)
(***************************************************************************)
Covering(cur, low) ==
    Max({b \in DOMAIN cur.hdr : cur.hdr[b].first <= low} \cup {1})

AndOpen ==
    /\ Walking("and") /\ ~unknown /\ block = NoBlock
    /\ \E e \in Visitable :
          /\ block' = e /\ todo' = todo \ {e}
          /\ at' = [c \in DOMAIN curs |->
                      IF c = e.cur THEN BlockStart(e.blk)
                      ELSE IF SegOf(c) = SegOf(e.cur)
                      THEN BlockStart(Covering(curs[c], curs[e.cur].hdr[e.blk].first))
                      ELSE at[c]]
    /\ UNCHANGED <<top, unknown>>

AndDocument ==
    /\ Walking("and") /\ ~unknown /\ block # NoBlock
    /\ LET drv    == block.cur
           d      == curs[drv].list[at[drv]].tid
           group  == Group(curs, SegOf(drv))
           live   == d \notin curs[drv].tombs
           sought == IF live THEN SeekAll(at, group \ {drv}, d) ELSE at
           hit    == Hit(d, ScoreOf(sought, group))
           enters == /\ live
                     /\ \A c \in group : Id(sought, c) = d
                     /\ Full => hit.score >= Threshold
           verdict == IF walk.gate = "phrase" THEN PhraseVerdict(SegOf(drv), d)
                      ELSE [unknown |-> FALSE, admit |-> TRUE]
       IN  /\ top' = IF enters /\ verdict.admit THEN BestOf(top \cup {hit}, want) ELSE top
           /\ unknown' = (enters /\ verdict.unknown)
           /\ at' = [sought EXCEPT ![drv] = @ + 1]
           /\ block' = IF at[drv] < BlockEnd(curs[drv].list, block.blk) THEN block ELSE NoBlock
    /\ UNCHANGED todo

(* Nothing left that could enter; a phrase that could not be decided is    *)
(* planned again without the gate.                                         *)
Ended ==
    CASE walk.how = "bmw"      -> Pivots = {}
      [] walk.how = "maxscore" -> Ids(Essential) = {}
      [] walk.how = "driven"   -> Ids(Drivers) = {}
      [] walk.how = "dense"    -> \A c \in DOMAIN curs : at[c] > Len(curs[c].list)
      [] walk.how = "best"     -> Visitable = {}
      [] walk.how = "and"      -> unknown \/ (block = NoBlock /\ Visitable = {})

EndWalk ==
    /\ stage = "walk" /\ Ended
    /\ IF unknown
       THEN /\ stage' = "plan" /\ suppressed' = TRUE
            /\ top' = {} /\ unknown' = FALSE
       ELSE stage' = "merge" /\ UNCHANGED <<suppressed, top, unknown>>
    /\ curs' = <<>> /\ at' = <<>> /\ walk' = NoWalk /\ todo' = {} /\ block' = NoBlock
    /\ UNCHANGED <<vars, want, settings>>

(* bm25_topk_add_pending: scored as after the next flush. *)
PendingLen(doc) ==
    IF \E s \in DOMAIN index.segs : index.segs[s].sidecar
    THEN Quantized(DocLen(doc)) ELSE DocLen(doc)
PendingHit(tid) == Hit(tid, DocScore(index.pending[tid], PendingLen(index.pending[tid])))

MergePending ==
    /\ stage = "merge"
    /\ stage' = "done"
    /\ top' = BestOf(top \cup {PendingHit(tid) : tid \in PendingMatches}, want)
    /\ UNCHANGED <<vars, want, settings, suppressed, curs, at, walk, todo, block, unknown>>

WalkStep ==
    \/ BmwSkipBlock \/ BmwJump \/ BmwScore \/ BmwApproach
    \/ MaxScorePass \/ MaxScoreScore
    \/ DrivenScore
    \/ DenseBlock \/ BestFirstBlock
    \/ AndOpen \/ AndDocument

ScanNext ==
    \/ ParseText /\ UNCHANGED ranked
    \/ (want = 0 \/ stage = "collect") /\ (CollectSegment \/ CollectPending) /\ UNCHANGED ranked
    \/ want = 0 /\ Recheck /\ UNCHANGED ranked
    \/ PlanCollect \/ PlanOr \/ PlanBoolean \/ PlanPhrase \/ PlanFilter
    \/ RankExact
    \/ OpenCursors
    \/ WalkStep \/ EndWalk
    \/ MergePending

ScanSpec == ScanInit /\ [][ScanNext]_scanVars

-----------------------------------------------------------------------------
(***************************************************************************)
(* A walk that ends has read what matters: its hits are the best of all    *)
(* live documents of the segments it is there for and the gate may admit,  *)
(* each scored in full, though it skipped postings on the strength of      *)
(* block headers, whole blocks of them undecoded (fts_search_bmw, .._max-  *)
(* score, .._driven, .._dense1, .._bestfirst_n, .._and_bestfirst).  A      *)
(* phrase it could not decide counts as admitted: it could not have        *)
(* entered.                                                                *)
(***************************************************************************)
SegmentHit(s, tid) ==
    Hit(tid, DocScore(index.segs[s].docs[tid], StoredLen(index.segs[s], index.segs[s].docs[tid])))

WordsIn(doc) == {t \in AllWords : QueryTerms(query)[t] \in DOMAIN doc.pos}

Relevant(s, tid) ==
    LET words   == WordsIn(index.segs[s].docs[tid])
        verdict == PhraseVerdict(s, tid)
    IN  /\ words # {}
        /\ walk.how = "and" => words = AllWords
        /\ walk.how = "driven" => words \cap walk.drivers # {}
        /\ walk.filtered => tid \in walk.filter
        /\ walk.gate = "bool" /\ walk.how # "and" => BoolAdmits(words)
        /\ walk.gate = "phrase" => words = AllWords /\ (verdict.admit \/ verdict.unknown)

WalkHits ==
    UNION {{SegmentHit(s, tid) : tid \in {x \in SegTids(index, s) : Relevant(s, x)}} :
           s \in DOMAIN index.segs}

WalkExact == stage = "walk" /\ Ended /\ ~unknown => top = BestOf(WalkHits, want)

(***************************************************************************)
(* Whatever walk a ranked scan takes, its result is that of scoring every  *)
(* matching document: the k best by score, then TID.  Words are scored by  *)
(* the stored length, modifiers by the exact one.  A segment document is   *)
(* ranked only if it holds a word of the query (a pure NOT has none).      *)
(***************************************************************************)
SegmentHits ==
    UNION {{SegmentHit(s, tid) :
               tid \in {x \in SegTids(index, s) :
                          /\ DocMatches(index.segs[s].docs[x], query)
                          /\ \E t \in DOMAIN QueryTerms(query) :
                                QueryTerms(query)[t] \in DOMAIN index.segs[s].docs[x].pos}} :
           s \in DOMAIN index.segs}

TopKExact ==
    want > 0 /\ stage = "done" =>
        top = BestOf(IF HasModifier
                     THEN {Hit(tid, DocScore(index.heap[tid], DocLen(index.heap[tid]))) :
                             tid \in Matching}
                     ELSE SegmentHits \cup {PendingHit(tid) : tid \in PendingMatches}, want)
=============================================================================
