------------------------------ MODULE FtsTerms ------------------------------
(***************************************************************************)
(* Terms, the sorted dictionary of a segment and the three ways a query    *)
(* term that is not a plain word reaches its entries: the prefix walk, the *)
(* Levenshtein automaton with its dead-prefix jumps (pg_fts_lev.c,         *)
(* bm25_fuzzy_terms) and the trigram funnel for regular expressions        *)
(* (pg_fts_trgm.c, pg_fts_trgm_index.c).                                   *)
(*                                                                         *)
(* A letter is a natural number in byte order, a term a sequence of        *)
(* letters (all ASCII: one byte is one character).  A dictionary is a      *)
(* sequence of pages, each a sequence of terms; the page order and the     *)
(* block order agree.  The trigram hash is taken to be injective: a        *)
(* collision only adds candidates.                                         *)
(***************************************************************************)
EXTENDS Naturals, Sequences, FiniteSets, SequencesExt, FiniteSetsExt

(* memcmp over the common length, then the shorter first. *)
Before(s, t) ==
    \E n \in 0 .. Len(s) :
        /\ n < Len(t)
        /\ SubSeq(s, 1, n) = SubSeq(t, 1, n)
        /\ n = Len(s) \/ s[n + 1] < t[n + 1]

DictPages(terms, perPage) ==
    LET sorted == SetToSortSeq(terms, Before)
        last   == (Len(sorted) + perPage - 1) \div perPage
    IN  [p \in 1 .. last |->
           SubSeq(sorted, (p - 1) * perPage + 1,
                  IF p = last THEN Len(sorted) ELSE p * perPage)]

DictTerms(dict) == UNION {ToSet(dict[p]) : p \in DOMAIN dict}

(* bm25_dict_seek: the last page whose first term is <= key, or the first. *)
DictSeek(dict, key) ==
    LET upTo == {p \in DOMAIN dict : ~Before(key, dict[p][1])}
    IN  IF upTo = {} THEN 1 ELSE Max(upTo)

(* bm25_lookup_term's dictionary step: the sought page alone is scanned. *)
InDict(dict, term) ==
    dict # <<>> /\ term \in ToSet(dict[DictSeek(dict, term)])

(***************************************************************************)
(* bm25_lookup_prefix: from the sought page on, terms before the prefix    *)
(* are passed over and the walk stops at the first term past it.           *)
(***************************************************************************)
PrefixTerms(dict, prefix) ==
    IF dict = <<>> THEN {}
    ELSE LET walk == FlattenSeq(SubSeq(dict, DictSeek(dict, prefix), Len(dict)))
             past == {i \in DOMAIN walk : /\ ~IsPrefix(prefix, walk[i])
                                          /\ ~Before(walk[i], prefix)}
             stop == IF past = {} THEN Len(walk) + 1 ELSE Min(past)
         IN  {walk[i] : i \in {j \in 1 .. stop - 1 : IsPrefix(prefix, walk[j])}}

(***************************************************************************)
(* Edit distance.  Edits(s) is what one insertion, deletion or             *)
(* substitution makes of s; Within is PostgreSQL's                         *)
(* varstr_levenshtein_less_equal(s, t, 1, 1, 1, k) <= k, defined without   *)
(* a matrix so that the automaton is compared with something else.         *)
(***************************************************************************)
Edits(s, letters) ==
    {s}
      \cup {RemoveAt(s, i) : i \in DOMAIN s}
      \cup {[s EXCEPT ![i] = c] : i \in DOMAIN s, c \in letters}
      \cup {InsertAt(s, i, c) : i \in 1 .. Len(s) + 1, c \in letters}

Within(s, t, k) ==
    LET ball[n \in 0 .. k] ==
            IF n = 0 THEN {s}
            ELSE UNION {Edits(u, ToSet(s) \cup ToSet(t)) : u \in ball[n - 1]}
    IN  t \in ball[k]

(* The automaton: one row per consumed letter, cells capped at k + 1. *)
MinOf3(a, b, c) == Min({a, b, c})

LevStart(q, k) == [j \in 0 .. Len(q) |-> Min({j, k + 1})]

LevStep(q, k, prev, c) ==
    LET next[j \in 0 .. Len(q)] ==
            IF j = 0 THEN Min({prev[0] + 1, k + 1})
            ELSE Min({k + 1,
                      MinOf3(prev[j - 1] + (IF q[j] = c THEN 0 ELSE 1),
                             next[j - 1] + 1,
                             prev[j] + 1)})
    IN  [j \in 0 .. Len(q) |-> next[j]]

RowMin(row) == Min({row[j] : j \in DOMAIN row})

(* fts_lev_match_prefix: the verdict and the length of the dead prefix. *)
LevMatch(q, k, cand) ==
    LET row[i \in 0 .. Len(cand)] ==
            IF i = 0 THEN LevStart(q, k) ELSE LevStep(q, k, row[i - 1], cand[i])
        dead == {i \in 1 .. Len(cand) : RowMin(row[i]) > k}
    IN  IF dead # {} THEN [match |-> FALSE, dead |-> Min(dead)]
        ELSE [match |-> row[Len(cand)][Len(q)] <= k, dead |-> Len(cand)]

(***************************************************************************)
(* bm25_fuzzy_terms: walk the dictionary; on a genuine prefix death (the   *)
(* automaton died before the term ended) the next term worth looking at is *)
(* >= the dead prefix with its last letter incremented.  If the next entry *)
(* of the page is already there the walk steps to it, otherwise it jumps   *)
(* to the page DictSeek names, and steps when that is the page it is on.   *)
(***************************************************************************)
NextKey(term, dead) == [SubSeq(term, 1, dead) EXCEPT ![dead] = @ + 1]

FuzzyNext(dict, at, lev) ==
    LET page == dict[at[1]]
        step == IF at[2] < Len(page) THEN <<at[1], at[2] + 1>> ELSE <<at[1] + 1, 1>>
        key  == NextKey(page[at[2]], lev.dead)
    IN  IF /\ ~lev.match
           /\ lev.dead > 0 /\ lev.dead < Len(page[at[2]])
           /\ ~(at[2] < Len(page) /\ ~Before(page[at[2] + 1], key))
           /\ DictSeek(dict, key) # at[1]
        THEN <<DictSeek(dict, key), 1>>
        ELSE step

FuzzyTerms(dict, q, k) ==
    LET places == {<<Len(dict) + 1, 1>>} \cup UNION {{p} \X DOMAIN dict[p] : p \in DOMAIN dict}
        walk[at \in places] ==
            IF at[1] > Len(dict) THEN {}
            ELSE LET term == dict[at[1]][at[2]]
                     lev  == LevMatch(q, k, term)
                 IN  (IF lev.match THEN {term} ELSE {}) \cup walk[FuzzyNext(dict, at, lev)]
    IN  walk[<<1, 1>>]

(***************************************************************************)
(* Regular expressions.  A pattern is a tree (letter, wildcard,            *)
(* concatenation, alternation, star, option, group) in postfix order, like *)
(* a query; `Source' is how it is written, one token per character or      *)
(* bracketed construct, and `RegexHit' what the engine answers: some       *)
(* substring of the term matches.                                          *)
(***************************************************************************)
Tok(kind)    == [kind |-> kind, c |-> 0]
LitTok(c)    == [kind |-> "lit", c |-> c]

(* The left operand of the node at k ends where this says. *)
LeftEnd(re) ==
    LET starts[k \in DOMAIN re] ==
            CASE re[k].op \in {"lit", "any"} -> k
              [] re[k].op \in {"cat", "alt"} -> starts[starts[k - 1] - 1]
              [] OTHER                       -> starts[k - 1]
    IN  [k \in DOMAIN re |-> IF re[k].op \in {"cat", "alt"} THEN starts[k - 1] - 1 ELSE k - 1]

Source(re) ==
    LET left == LeftEnd(re)
        src[k \in DOMAIN re] ==
            CASE re[k].op = "lit"   -> <<LitTok(re[k].c)>>
              [] re[k].op = "any"   -> <<Tok("dot")>>
              [] re[k].op = "cat"   -> src[left[k]] \o src[k - 1]
              [] re[k].op = "alt"   -> src[left[k]] \o <<Tok("bar")>> \o src[k - 1]
              [] re[k].op = "group" -> <<Tok("open")>> \o src[k - 1] \o <<Tok("close")>>
              [] OTHER              -> src[k - 1] \o <<Tok(re[k].op)>>
    IN  src[Len(re)]

(* The positions at which a match of the pattern that begins at i may end. *)
EndsOf(re, t, i) ==
    LET left == LeftEnd(re)
        ends[k \in DOMAIN re, p \in 1 .. Len(t) + 1] ==
            LET more(S) == S \cup UNION {ends[k - 1, j] : j \in S}
                reach[n \in 0 .. Len(t)] == IF n = 0 THEN {p} ELSE more(reach[n - 1])
            IN  CASE re[k].op = "lit"   -> IF p <= Len(t) /\ t[p] = re[k].c THEN {p + 1} ELSE {}
                  [] re[k].op = "any"   -> IF p <= Len(t) THEN {p + 1} ELSE {}
                  [] re[k].op = "cat"   -> UNION {ends[k - 1, j] : j \in ends[left[k], p]}
                  [] re[k].op = "alt"   -> ends[left[k], p] \cup ends[k - 1, p]
                  [] re[k].op = "star"  -> reach[Len(t)]
                  [] re[k].op = "opt"   -> {p} \cup ends[k - 1, p]
                  [] re[k].op = "plus"  -> UNION {ends[k - 1, j] : j \in reach[Len(t)]}
                  [] re[k].op = "group" -> ends[k - 1, p]
    IN  ends[Len(re), i]

RegexHit(re, t) == \E i \in 1 .. Len(t) + 1 : EndsOf(re, t, i) # {}

(* fts_trigrams: a term shorter than three is padded with blanks. *)
Trigrams(s) ==
    IF Len(s) = 0 THEN {}
    ELSE IF Len(s) < 3 THEN {[i \in 1 .. 3 |-> IF i <= Len(s) THEN s[i] ELSE 0]}
    ELSE {SubSeq(s, i, i + 2) : i \in 1 .. Len(s) - 2}

(***************************************************************************)
(* fts_regex_trigrams: a fold over the source with the current literal     *)
(* run.  A quantifier that allows zero drops the run's last character; a   *)
(* bar drops the run; every other construct flushes it.  Two runs that     *)
(* share a trigram count it twice.                                         *)
(***************************************************************************)
Flush(st, dropLast) ==
    LET len == Len(st.run) - (IF dropLast THEN 1 ELSE 0)
        new == IF len >= 3 THEN Trigrams(SubSeq(st.run, 1, len)) ELSE {}
    IN  [run |-> <<>>, out |-> st.out \cup new, count |-> st.count + Cardinality(new)]

RunStep(st, tok) ==
    IF tok.kind = "lit" THEN [st EXCEPT !.run = Append(@, tok.c)]
    ELSE IF tok.kind = "bar" THEN [st EXCEPT !.run = <<>>]
    ELSE Flush(st, tok.kind \in {"star", "opt", "brace"})

RegexTrigrams(src) ==
    LET st[i \in 0 .. Len(src)] ==
            IF i = 0 THEN [run |-> <<>>, out |-> {}, count |-> 0]
            ELSE RunStep(st[i - 1], src[i])
    IN  Flush(st[Len(src)], FALSE)

(* bm25_write_trigrams_iter: for every trigram, the ordinals of its terms. *)
TrigramIndex(dict) ==
    LET words == FlattenSeq(dict)
    IN  [g \in UNION {Trigrams(words[i]) : i \in DOMAIN words} |->
            {i \in DOMAIN words : g \in Trigrams(words[i])}]

(***************************************************************************)
(* bm25_trgm_candidates: the union of the pattern's trigrams' terms; no    *)
(* answer when the pattern has fewer than minTrigrams of them or none of   *)
(* them has a directory entry.                                             *)
(***************************************************************************)
TrgmCandidates(dict, required, minTrigrams) ==
    LET index == TrigramIndex(dict)
        found == required.out \cap DOMAIN index
        words == FlattenSeq(dict)
    IN  [ok    |-> required.count >= minTrigrams /\ found # {},
         terms |-> {words[i] : i \in UNION {index[g] : g \in found}}]
=============================================================================
