------------------------------ MODULE FtsQuery ------------------------------
(***************************************************************************)
(* The query language (pg_fts_query.c): lexing of the constructs that      *)
(* carry meaning, the recursive-descent parser, stopword elision and the   *)
(* text form.                                                              *)
(*                                                                         *)
(* A text is a sequence of raw tokens: characters are left out, so a word  *)
(* is one raw token with the suffixes written after it.  A query is the    *)
(* postfix item list of the code: operands (VAL) and operators.            *)
(***************************************************************************)
EXTENDS Naturals, Sequences, FiniteSets, SequencesExt, FiniteSetsExt

CONSTANTS
    Reserved,     \* words that lex as an operator: word -> [k, op, dist]
    NumberOf,     \* words made of digits: word -> the number
    Stop          \* words the text search configuration drops

Proximity == {"PHRASE", "WITHIN", "EXACT"}

Val(kind, term, mask, dist) ==
    [op |-> "VAL", kind |-> kind, term |-> term, mask |-> mask, dist |-> dist]
Opr(op, dist) == [op |-> op, kind |-> "NONE", term |-> <<>>, mask |-> {}, dist |-> dist]

IsVal(it)  == it.op = "VAL"
IsPlain(it) == IsVal(it) /\ it.kind = "PLAIN"

(***************************************************************************)
(* The tree a postfix list stands for, as positions in the list: the right *)
(* operand of i ends at i - 1, the left one just before the right starts.  *)
(***************************************************************************)
Starts(q) ==
    LET s[i \in DOMAIN q] ==
            IF IsVal(q[i]) THEN i
            ELSE IF q[i].op = "NOT" THEN s[i - 1]
            ELSE s[s[i - 1] - 1]
    IN  [i \in DOMAIN q |-> s[i]]

Kids(q, starts, i) ==
    IF IsVal(q[i]) THEN {}
    ELSE IF q[i].op = "NOT" THEN {i - 1}
    ELSE {i - 1, starts[i - 1] - 1}

ParentOf(q, starts, i) == CHOOSE j \in i + 1 .. Len(q) : i \in Kids(q, starts, j)

(***************************************************************************)
(* Raw tokens and lexing (lex_raw, lex_term_suffix).  Suffixes: star, a    *)
(* fuzzy ~k (k = 0 when no digits follow: the default is 2), a label list  *)
(* :AB, possibly in PostgreSQL's spelling :*AB.                            *)
(***************************************************************************)
Raw(k, term, sfx, op, dist) == [k |-> k, term |-> term, sfx |-> sfx, op |-> op, dist |-> dist]
Word(t)        == Raw("word", t, <<>>, "", 0)
WordSfx(t, sfx) == Raw("word", t, sfx, "", 0)
Literal(t, sfx) == Raw("literal", t, sfx, "", 0)
RegexLit(re)   == Raw("regex", re, <<>>, "", 0)
Punct(k)       == Raw(k, <<>>, <<>>, "", 0)
Angle(n)       == Raw("prox", <<>>, <<>>, "EXACT", n)

SfxStar        == [s |-> "star", k |-> 0, mask |-> {}]
SfxFuzzy(k)    == [s |-> "fuzzy", k |-> k, mask |-> {}]
SfxLabels(m)   == [s |-> "labels", k |-> 0, mask |-> m]
SfxStarLabels(m) == [s |-> "starlabels", k |-> 0, mask |-> m]

Token(k, term) == [k |-> k, term |-> term, prefix |-> FALSE, fuzzy |-> 0,
                   mask |-> {}, op |-> "", dist |-> 0, err |-> FALSE]

LexSuffix(tok, sfx) ==
    LET taken == tok.prefix \/ tok.fuzzy > 0
        labelled == sfx.s \in {"labels", "starlabels"}
    IN  IF \/ sfx.s \in {"star", "fuzzy"} /\ taken
           \/ labelled /\ tok.mask # {}
           \/ sfx.s = "starlabels" /\ taken
        THEN [tok EXCEPT !.err = TRUE]
        ELSE [tok EXCEPT !.prefix = @ \/ sfx.s \in {"star", "starlabels"},
                         !.fuzzy  = IF sfx.s = "fuzzy"
                                    THEN IF sfx.k = 0 THEN 2 ELSE sfx.k ELSE @,
                         !.mask   = IF labelled THEN sfx.mask ELSE @]

Lex(raw) ==
    LET suffixed(k) == FoldLeft(LexSuffix, Token(k, raw.term), raw.sfx)
    IN  CASE raw.k = "word" ->
               IF raw.sfx = <<>> /\ raw.term \in DOMAIN Reserved
               THEN [Token(Reserved[raw.term].k, raw.term) EXCEPT
                        !.op = Reserved[raw.term].op, !.dist = Reserved[raw.term].dist]
               ELSE suffixed("term")
          [] raw.k = "literal" -> suffixed("term")
          [] raw.k = "regex"   -> suffixed("regex")
          [] raw.k = "quote"   -> suffixed("quote")
          [] raw.k = "prox"    -> [Token("prox", <<>>) EXCEPT !.op = raw.op, !.dist = raw.dist]
          [] OTHER             -> Token(raw.k, <<>>)

(***************************************************************************)
(* The parser.  A partial parse is [pos, items, err]: where it stopped,    *)
(* the items it emitted and whether the text is to be rejected; the code   *)
(* may go on after an error, but the text stays rejected.                  *)
(***************************************************************************)
At(toks, p) == IF p <= Len(toks) THEN toks[p] ELSE Token("eof", <<>>)
Kind(toks, p) == At(toks, p).k

Result(pos, items, err) == [pos |-> pos, items |-> items, err |-> err]
Rejected(p) == Result(p, <<>>, TRUE)
Nothing(p) == Result(p, <<>>, FALSE)

Then(left, right) ==
    IF left.err THEN left
    ELSE Result(right.pos, left.items \o right.items, right.err)
Emitting(res, item) == [res EXCEPT !.items = Append(@, item)]

(* emit_term: a fuzzy distance and a label mask share one field. *)
TermItem(tok) ==
    IF tok.k = "regex" THEN Val("REGEX", tok.term, {}, 0)
    ELSE IF tok.fuzzy > 0 THEN Val("FUZZY", tok.term, {}, tok.fuzzy)
    ELSE Val(IF tok.prefix THEN "PREFIX" ELSE "PLAIN", tok.term, tok.mask, 0)

TermOk(tok) ==
    /\ ~tok.err
    /\ tok.fuzzy > 0 => tok.mask = {}
    /\ tok.k = "regex" => ~tok.prefix /\ tok.fuzzy = 0 /\ tok.mask = {}

(* Tokens that are words inside "..." and NEAR(...); <N> has no text. *)
IsWordToken(tok) ==
    tok.k \in {"term", "regex"} \/ (tok.k \in {"and", "or", "not", "near", "prox"} /\ tok.term # <<>>)

WordsEnd(toks, p) == Min({i \in p .. Len(toks) + 1 : ~IsWordToken(At(toks, i))})
Words(toks, p) == [k \in 1 .. WordsEnd(toks, p) - p |-> TermItem(toks[p + k - 1])]
WordsOk(toks, p) == \A i \in p .. WordsEnd(toks, p) - 1 : TermOk(toks[i])

(* A quoted phrase, from its first word: every operand but the first is    *)
(* followed by <1>; the closing quote takes no suffix.                     *)
QuotedPhrase(toks, p) ==
    LET last  == WordsEnd(toks, p)
        close == At(toks, last)
        words == Words(toks, p)
    IN  Result(last + 1,
               FlattenSeq([k \in DOMAIN words |->
                  IF k = 1 THEN <<words[k]>> ELSE <<words[k], Opr("EXACT", 1)>>]),
               \/ last = p \/ close.k # "quote" \/ ~WordsOk(toks, p)
               \/ close.err \/ close.prefix \/ close.fuzzy > 0 \/ close.mask # {})

(* NEAR(t1 .. tn, k), from t1: all operands, then n - 1 operators. *)
NearList(toks, p) ==
    LET last   == WordsEnd(toks, p)
        number == At(toks, last + 1)
        given  == Kind(toks, last) = "comma"
        close  == IF given THEN last + 2 ELSE last
        numOk  == number.k = "term" /\ number.term \in DOMAIN NumberOf
        dist   == IF given THEN NumberOf[number.term] ELSE 10
    IN  IF \/ ~WordsOk(toks, p) \/ last - p < 2
           \/ given /\ ~numOk
           \/ Kind(toks, close) # "rparen"
           \/ dist < 1
        THEN Rejected(p)
        ELSE Result(close + 1,
                    Words(toks, p) \o [m \in 1 .. last - p - 1 |-> Opr("PHRASE", dist)],
                    FALSE)

StartsOperand == {"term", "regex", "not", "lparen", "quote", "near"}

(* Proximity takes terms, ORs and proximity, never AND or NOT. *)
KeepsSpans(items) == \A i \in DOMAIN items : items[i].op \notin {"AND", "NOT"}

(***************************************************************************)
(* parse_or, parse_and, parse_proximity, parse_unary and parse_primary;    *)
(* a `more' rule is the loop of the rule after its first operand.          *)
(***************************************************************************)
Rules == {"or", "moreOr", "and", "moreAnd", "prox", "moreProx", "unary", "primary"}

ParseRule(toks) ==
    LET parse[r \in Rules, p \in 1 .. Len(toks) + 1] ==
        LET k       == Kind(toks, p)
            and     == parse["and", p]
            nextAnd == parse["and", p + 1]
            prox    == parse["prox", p]
            operand == parse["prox", IF k = "and" THEN p + 1 ELSE p]
            unary   == parse["unary", p]
            right   == parse["unary", p + 1]
            inner   == parse["or", p + 1]
        IN  CASE r = "or" -> Then(and, parse["moreOr", and.pos])
              [] r = "moreOr" ->
                   IF k # "or" THEN Nothing(p)
                   ELSE Then(Emitting(nextAnd, Opr("OR", 0)), parse["moreOr", nextAnd.pos])
              [] r = "and" -> Then(prox, parse["moreAnd", prox.pos])
              [] r = "moreAnd" ->
                   IF k \notin {"and"} \cup StartsOperand THEN Nothing(p)
                   ELSE Then(Emitting(operand, Opr("AND", 0)), parse["moreAnd", operand.pos])
              [] r = "prox" ->
                   IF ~unary.err /\ Kind(toks, unary.pos) = "prox" /\ ~KeepsSpans(unary.items)
                   THEN Rejected(p)
                   ELSE Then(unary, parse["moreProx", unary.pos])
              [] r = "moreProx" ->
                   IF k # "prox" THEN Nothing(p)
                   ELSE IF \/ toks[p].op # "EXACT" /\ toks[p].dist = 0
                           \/ ~KeepsSpans(right.items)
                   THEN Rejected(p)
                   ELSE Then(Emitting(right, Opr(toks[p].op, toks[p].dist)),
                             parse["moreProx", right.pos])
              [] r = "unary" -> IF k = "not" THEN Emitting(right, Opr("NOT", 0))
                                ELSE parse["primary", p]
              [] r = "primary" ->
                   CASE k = "lparen" -> IF Kind(toks, inner.pos) = "rparen"
                                        THEN [inner EXCEPT !.pos = @ + 1] ELSE Rejected(p)
                     [] k = "quote"  -> QuotedPhrase(toks, p + 1)
                     [] k = "near"   -> IF Kind(toks, p + 1) = "lparen"
                                        THEN NearList(toks, p + 2) ELSE Rejected(p)
                     [] k \in {"term", "regex"} ->
                          Result(p + 1, <<TermItem(toks[p])>>, ~TermOk(toks[p]))
                     [] OTHER -> Rejected(p)
    IN  parse["or", 1]

(* fts_parse_query: the items, or an error; no token is the empty query. *)
Parse(text) ==
    LET toks == [i \in DOMAIN text |-> Lex(text[i])]
        res  == ParseRule(toks)
    IN  IF text = <<>> THEN [ok |-> TRUE, items |-> <<>>]
        ELSE IF res.err \/ res.pos <= Len(toks) THEN [ok |-> FALSE, items |-> <<>>]
        ELSE [ok |-> TRUE, items |-> res.items]

(***************************************************************************)
(* Stopword elision (qnode_build, qnode_simplify, qnode_flatten).  The     *)
(* result of a subtree is its remaining items (none: it is empty) and the  *)
(* gaps its removed words leave at its two ends; a removed operand of an   *)
(* exact phrase lengthens the distance that spans it.                      *)
(***************************************************************************)
MaxOf(a, b) == IF a > b THEN a ELSE b

Elided_GapLost(q, op, l, r) ==
    IF l.items # <<>> /\ r.items = <<>> THEN l
    ELSE IF l.items = <<>> THEN r
    ELSE [items |-> l.items \o r.items \o <<op>>, left |-> 0, right |-> 0]

Elided(q, op, l, r) ==
    LET exact == op.op = "EXACT"
    IN  CASE l.items = <<>> /\ r.items = <<>> ->
               LET gap == IF exact THEN l.left + op.dist + r.left ELSE MaxOf(l.left, r.left)
               IN  [items |-> <<>>, left |-> gap, right |-> gap]
          [] l.items = <<>> /\ r.items # <<>> ->
               [r EXCEPT !.left = IF exact THEN l.left + op.dist + @ ELSE @]
          [] l.items # <<>> /\ r.items = <<>> ->
               [l EXCEPT !.right = IF exact THEN @ + op.dist + r.right ELSE @]
          [] OTHER ->
               [items |-> l.items \o r.items \o
                          <<[op EXCEPT !.dist = IF exact THEN @ + l.right + r.left ELSE @]>>,
                left  |-> IF exact THEN l.left ELSE 0,
                right |-> IF exact THEN r.right ELSE 0]

Simplify(q) ==
    LET starts == Starts(q)
        res[i \in DOMAIN q] ==
            IF IsVal(q[i])
            THEN [items |-> IF IsPlain(q[i]) /\ q[i].term \in Stop THEN <<>> ELSE <<q[i]>>,
                  left |-> 0, right |-> 0]
            ELSE IF q[i].op = "NOT"
            THEN [res[i - 1] EXCEPT !.items = IF @ = <<>> THEN @ ELSE Append(@, q[i])]
            ELSE Elided(q, q[i], res[starts[i - 1] - 1], res[i - 1])
    IN  res[Len(q)]

(* fts_parse_query_cfg: elision only when some plain term is a stopword. *)
WithoutStopwords(q) ==
    IF \E i \in DOMAIN q : IsPlain(q[i]) /\ q[i].term \in Stop
    THEN Simplify(q).items
    ELSE q

(***************************************************************************)
(* ftsquery_out: fully parenthesised infix.                                *)
(***************************************************************************)
TermText(it) ==
    LET labels == IF it.mask = {} THEN <<>> ELSE <<SfxLabels(it.mask)>>
    IN  CASE it.kind = "REGEX"  -> <<RegexLit(it.term)>>
          [] it.kind = "PREFIX" -> <<Literal(it.term, <<SfxStar>> \o labels)>>
          [] it.kind = "FUZZY"  -> <<Literal(it.term, <<SfxFuzzy(it.dist)>>)>>
          [] it.kind = "PLAIN"  -> <<Literal(it.term, labels)>>

ProxWord(op, dist) == CHOOSE w \in DOMAIN Reserved :
                        Reserved[w].op = op /\ Reserved[w].dist = dist

OprText_WithinAsPhrase(it) ==
    CASE it.op = "AND"   -> Punct("and")
      [] it.op = "OR"    -> Punct("or")
      [] it.op = "EXACT" -> Angle(it.dist)
      [] OTHER           -> Word(ProxWord("PHRASE", it.dist))

OprText(it) ==
    CASE it.op = "AND"   -> Punct("and")
      [] it.op = "OR"    -> Punct("or")
      [] it.op = "EXACT" -> Angle(it.dist)
      [] OTHER           -> Word(ProxWord(it.op, it.dist))

Out(q) ==
    LET starts == Starts(q)
        text[i \in DOMAIN q] ==
            IF IsVal(q[i]) THEN TermText(q[i])
            ELSE IF q[i].op = "NOT" THEN <<Punct("not")>> \o text[i - 1]
            ELSE <<Punct("lparen")>> \o text[starts[i - 1] - 1]
                   \o <<OprText(q[i])>> \o text[i - 1] \o <<Punct("rparen")>>
    IN  IF q = <<>> THEN <<>> ELSE text[Len(q)]
=============================================================================
