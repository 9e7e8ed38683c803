------------------------------ MODULE FtsMatch ------------------------------
(***************************************************************************)
(* Does a document satisfy a query (pg_fts_match.c)?  This matcher decides *)
(* the heap side of every scan, the pending list and the recheck; its span *)
(* evaluator is also what the index runs over stored positions.            *)
(*                                                                         *)
(* A document is [pos, haspos, label]: for every term its token ordinals,  *)
(* whether ordinals are kept at all, and the weight label of an ordinal.   *)
(* A match value is [present, spans]; a span is a pair of ordinals.        *)
(***************************************************************************)
EXTENDS FtsQuery, FtsTerms

NoValue == [present |-> FALSE, spans |-> {}]

Points(ordinals) == {<<p, p>> : p \in ordinals}

(***************************************************************************)
(* Terms of the document an operand stands for: fts_doc_lookup,            *)
(* fts_doc_has_prefix, fts_doc_has_fuzzy, fts_doc_has_regex.               *)
(***************************************************************************)
TermMatches(it, term) ==
    CASE it.kind = "PLAIN"  -> term = it.term
      [] it.kind = "PREFIX" -> IsPrefix(it.term, term)
      [] it.kind = "FUZZY"  -> Within(it.term, term, it.dist)
      [] it.kind = "REGEX"  -> RegexHit(it.term, term)

DocTerms(doc, it) == {t \in DOMAIN doc.pos : TermMatches(it, t)}

InZone(doc, it, ordinals) ==
    IF it.mask = {} THEN ordinals ELSE {p \in ordinals : doc.label[p] \in it.mask}

(***************************************************************************)
(* term_positions: presence for a purely Boolean query.  A label           *)
(* restriction is not satisfied by a document without positions; prefix,   *)
(* fuzzy and regex operands ignore it here.                                *)
(***************************************************************************)
TermPresent(doc, it) ==
    /\ DocTerms(doc, it) # {}
    /\ it.kind = "PLAIN" /\ it.mask # {} =>
          doc.haspos /\ InZone(doc, it, doc.pos[it.term]) # {}

(***************************************************************************)
(* term_spans: the operand's value for a proximity query or a weighted     *)
(* prefix.  Every term it expands to contributes its in-zone ordinals.     *)
(***************************************************************************)
TermSpans(doc, it) ==
    LET terms  == DocTerms(doc, it)
        points == UNION {InZone(doc, it, doc.pos[t]) : t \in terms}
    IN  IF terms = {} THEN NoValue
        ELSE IF ~doc.haspos THEN [present |-> it.mask = {}, spans |-> {}]
        ELSE [present |-> points # {}, spans |-> Points(points)]

(***************************************************************************)
(* span_join.  p/N measures from end to end; w/N and <N> from the left     *)
(* span's end to the right span's start, w/N in either order.  `joined'    *)
(* are the pairs the loops meet, in the order (pass, left, right).         *)
(***************************************************************************)
GapOk(op, dist, a, b) ==
    LET position == IF op = "PHRASE" THEN b[2] ELSE b[1]
        gap      == position - a[2]
    IN  position >= a[2] /\ (IF op = "EXACT" THEN gap = dist ELSE gap > 0 /\ gap <= dist)

Joined(left, right, op, dist) ==
    {<<1, a, b>> : a \in left.spans, b \in right.spans}
      \cup (IF op = "WITHIN" THEN {<<2, b, a>> : a \in left.spans, b \in right.spans} ELSE {})

JoinedOk(left, right, op, dist) ==
    {j \in Joined(left, right, op, dist) : GapOk(op, dist, j[2], j[3])}

SpanOf(j) ==
    <<IF j[2][1] < j[3][1] THEN j[2][1] ELSE j[3][1],
      IF j[2][2] > j[3][2] THEN j[2][2] ELSE j[3][2]>>

SpanJoin(left, right, op, dist, needspans) ==
    LET pairs == JoinedOk(left, right, op, dist)
    IN  [present |-> pairs # {},
         spans   |-> IF needspans THEN {SpanOf(j) : j \in pairs} ELSE {},
         pushes  |-> IF needspans THEN Cardinality(pairs) ELSE 0]

(* fts_match_needpos: an operand of a proximity, possibly through ORs. *)
NeedPos(q) ==
    LET starts == Starts(q)
        need[i \in DOMAIN q] ==
            IF i = Len(q) THEN FALSE
            ELSE LET p == ParentOf(q, starts, i)
                 IN  IF q[p].op = "OR" THEN need[p] ELSE q[p].op \in Proximity
    IN  [i \in DOMAIN q |-> need[i]]

(***************************************************************************)
(* fts_match_eval over leaf values.  maxspans = 0 is no bound; otherwise   *)
(* an operator that pushes more spans than that ends the evaluation with   *)
(* `overflow' and no verdict.                                              *)
(***************************************************************************)
OrValue(a, b, needspans) ==
    [present |-> a.present \/ b.present,
     spans   |-> IF needspans THEN a.spans \cup b.spans ELSE {},
     pushes  |-> IF needspans THEN Cardinality(a.spans) + Cardinality(b.spans) ELSE 0]

MatchEval(q, values, maxspans) ==
    LET starts == Starts(q)
        need   == NeedPos(q)
        plain(p) == [present |-> p, spans |-> {}, pushes |-> 0]
        val[i \in DOMAIN q] ==
            IF IsVal(q[i]) THEN [present |-> values[i].present, spans |-> values[i].spans,
                                 pushes |-> 0, overflow |-> FALSE]
            ELSE IF q[i].op = "NOT"
            THEN [present |-> ~val[i - 1].present, spans |-> {}, pushes |-> 0,
                  overflow |-> val[i - 1].overflow]
            ELSE LET b == val[i - 1]
                     a == val[starts[i - 1] - 1]
                     out == CASE q[i].op = "AND" -> plain(a.present /\ b.present)
                              [] q[i].op = "OR"  -> OrValue(a, b, need[i])
                              [] OTHER -> SpanJoin(a, b, q[i].op, q[i].dist, need[i])
                 IN  [present |-> out.present, spans |-> out.spans, pushes |-> out.pushes,
                      overflow |-> \/ a.overflow \/ b.overflow
                                   \/ maxspans > 0 /\ out.pushes > maxspans]
        root == val[Len(q)]
    IN  [present |-> ~root.overflow /\ root.present, overflow |-> root.overflow]

(* fts_doc_matches *)
NeedsSpans(q) ==
    \E i \in DOMAIN q : \/ q[i].op \in Proximity
                        \/ IsVal(q[i]) /\ q[i].kind = "PREFIX" /\ q[i].mask # {}

DocMatches(doc, q) ==
    /\ q # <<>>
    /\ LET values == [i \in DOMAIN q |->
                        IF ~IsVal(q[i]) THEN NoValue
                        ELSE IF NeedsSpans(q) THEN TermSpans(doc, q[i])
                        ELSE [present |-> TermPresent(doc, q[i]), spans |-> {}]]
       IN  MatchEval(q, values, 0).present

(***************************************************************************)
(* fts_phrase_step_pos over ascending ordinals, as its two pointers run:   *)
(* the right ordinals that follow a left one at the distance.              *)
(***************************************************************************)
PhraseStep(left, right, dist, exact) ==
    {p \in right : \E l \in left :
        IF exact THEN l <= p /\ p - l = dist ELSE l < p /\ p - l <= dist}
=============================================================================
