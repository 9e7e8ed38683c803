---------------------------- MODULE MCFtsSearch ----------------------------
(***************************************************************************)
(* Instances of FtsSearch: words over the letters 1 .. 3, the query texts  *)
(* built from them, and small corpora that place three documents in two    *)
(* segments and the pending list.                                          *)
(***************************************************************************)
EXTENDS FtsSearch

A == <<1>>
B == <<2>>
C == <<3>>
AB == <<1, 2>>
ABC == <<1, 2, 3>>
ABCB == <<1, 2, 3, 2>>
BC == <<2, 3>>
The == <<3, 3>>
Absent == <<2, 2>>

MCStop == {The}

(* Operator words; 9s stand for characters that occur in no term. *)
AndWord == <<9, 1>>
OrWord == <<9, 2>>
NotWord == <<9, 3>>
NearWord == <<9, 4>>
W(n) == <<9, 5, n>>
P(n) == <<9, 6, n>>
MCReserved ==
    LET words == {AndWord, OrWord, NotWord, NearWord}
                   \cup {W(n) : n \in 0 .. 3} \cup {P(n) : n \in 0 .. 10}
        kind(k) == [k |-> k, op |-> "", dist |-> 0]
    IN  [w \in words |->
            CASE w = AndWord -> kind("and")
              [] w = OrWord  -> kind("or")
              [] w = NotWord -> kind("not")
              [] w = NearWord -> kind("near")
              [] w[2] = 5 -> [k |-> "prox", op |-> "WITHIN", dist |-> w[3]]
              [] OTHER    -> [k |-> "prox", op |-> "PHRASE", dist |-> w[3]]]
MCNumberOf == (<<9, 9, 2>> :> 2) @@ (<<9, 9, 0>> :> 0)

(* Texts. *)
Quoted(words) == <<Punct("quote")>> \o words \o <<Punct("quote")>>
Par(x) == <<Punct("lparen")>> \o x \o <<Punct("rparen")>>
Infix(x, op, y) == x \o <<op>> \o y
Not(x) == <<Punct("not")>> \o x
Near(words, n) == <<Word(NearWord), Punct("lparen")>> \o words
                    \o <<Punct("comma"), Word(n), Punct("rparen")>>

wa == <<Word(A)>>
wb == <<Word(B)>>
wc == <<Word(C)>>
wthe == <<Word(The)>>
Plain == {wa, wb, wc}
Special == {<<WordSfx(A, <<SfxStar>>)>>,
            <<WordSfx(ABC, <<SfxFuzzy(1)>>)>>,
            <<WordSfx(A, <<SfxLabels({"H"})>>)>>,
            <<WordSfx(A, <<SfxStarLabels({"H"})>>)>>,
            <<Word(The)>>, <<Word(Absent)>>}
ProxOps == {Word(W(2)), Word(P(2)), Angle(1), Angle(2)}
BoolOps == {Punct("and"), Punct("or")}

Pairs(X, ops, Y) == {Infix(x, op, y) : x \in X, op \in ops, y \in Y}
Phrases == {Quoted(<<Word(A), Word(B)>>), Quoted(<<Word(A), Word(The), Word(B)>>),
            Quoted(<<Word(B), Word(A)>>), Near(wa \o wb \o wc, <<9, 9, 2>>),
            Quoted(<<Word(A), Word(B), Word(C)>>),
            Par(wa \o <<Word(W(2))>> \o wb)}
Some1 == Pairs(Plain, ProxOps \cup BoolOps, Plain \cup Special)
          \cup Pairs(Special, BoolOps, Plain)
Some2 == {Not(Par(x)) : x \in Pairs({wa}, ProxOps \cup BoolOps, {wb})}
          \cup {Not(x) : x \in Phrases \cup Plain \cup Special}
Some3 == Pairs(Plain \cup Special, BoolOps, Some2)

(* Chains of three: either bracketing, an OR on either side, stopwords. *)
Threes == {Infix(Par(Infix(x, o, y)), p, z) : x \in {wa}, y \in {wb, wthe},
             z \in {wc, wa}, o \in ProxOps \cup {Punct("or")}, p \in ProxOps}
            \cup {Infix(x, p, Par(Infix(y, o, z))) : x \in {wa, wc}, y \in {wb, wthe},
                    z \in {wa}, o \in ProxOps \cup {Punct("or")}, p \in ProxOps}
Longer == {Infix(Infix(Infix(wa, Angle(1), wb), Angle(n), wc), Angle(1), wa) : n \in {1, 2}}
            \cup {Infix(Par(Infix(wa, Punct("and"), wb)), Word(W(2)), wc)}

(* Patterns; only shapes whose required literals fts_regex_trigrams finds. *)
Node(op, c) == <<[op |-> op, c |-> c]>>
Lit(c) == Node("lit", c)
Cat(x, y) == x \o y \o Node("cat", 0)
Un(op, x) == x \o Node(op, 0)
Alt(x, y) == x \o y \o Node("alt", 0)
Abc == Cat(Cat(Lit(1), Lit(2)), Lit(3))
Sound == {Abc, Cat(Abc, Un("opt", Lit(2))), Cat(Abc, Lit(2)),
          Cat(Cat(Lit(1), Lit(2)), Un("opt", Lit(3))),
          Cat(Lit(1), Cat(Node("any", 0), Lit(3))), Cat(Un("plus", Lit(1)), Lit(2)),
          Cat(Abc, Cat(Un("star", Lit(2)), Abc)), Alt(Cat(Lit(1), Lit(2)), Lit(3))}
Patterns == {<<RegexLit(re)>> : re \in Sound}
              \cup {<<WordSfx(t, <<SfxFuzzy(k)>>)>> : t \in {A, AB, ABC}, k \in 1 .. 2}
Some4 == Patterns \cup {Not(x) : x \in Patterns} \cup Pairs(Patterns, BoolOps, Plain)
MCTexts == Plain \cup Special \cup Phrases \cup Some1 \cup Some2 \cup Some3
             \cup Threes \cup Longer \cup Some4

(* Documents: ordinals 1 and 2 carry the label H (a heading). *)
Doc(pos) == [pos |-> pos, haspos |-> TRUE,
             label |-> [p \in 1 .. 9 |-> IF p <= 2 THEN "H" ELSE "D"]]
Unplaced(pos) == [Doc(pos) EXCEPT !.haspos = FALSE]
D1 == Doc((A :> {1}) @@ (B :> {2}) @@ (C :> {4}))
D2 == Doc((A :> {4}) @@ (B :> {3, 6}) @@ (ABCB :> {1}))
D3 == Doc((A :> {1, 2, 3}) @@ (B :> {5}) @@ (AB :> {6}))
D4 == Doc((C :> {1}) @@ (ABC :> {3}))
D5 == Unplaced((A :> {1}) @@ (B :> {2}))

D6 == Doc((A :> {2}) @@ (AB :> {3}) @@ (ABC :> {1}) @@ (B :> {4}) @@ (BC :> {5}) @@ (C :> {6}))

Segm(docs, tombs, missing) ==
    [docs |-> docs, tombs |-> tombs, missing |-> missing, sidecar |-> TRUE,
     dict |-> DictPages(UNION {DOMAIN docs[t].pos : t \in DOMAIN docs}, 2)]
Corpus(heap, segs, pending, positions, trigrams) ==
    [heap |-> heap, segs |-> segs, pending |-> pending,
     positions |-> positions, trigrams |-> trigrams]

NoDocs == [t \in {} |-> D1]

(***************************************************************************)
(* Three corpora: one with every row in place; one whose first row was     *)
(* rewritten under its old TID and waits in the pending list, the old      *)
(* posting tombstoned; one with a fully tombstoned segment and a dead row. *)
(***************************************************************************)
MkCorpora(missing, positions, trigrams) ==
    {Corpus((1 :> D1) @@ (2 :> D2) @@ (3 :> D3),
            <<Segm((1 :> D1) @@ (2 :> D2), {}, missing), Segm(3 :> D3, {}, missing)>>,
            NoDocs, positions, trigrams),
     Corpus((1 :> D1) @@ (2 :> D4) @@ (3 :> D5),
            <<Segm((1 :> D2) @@ (2 :> D4), {1}, missing), Segm(NoDocs, {}, {}), Segm(3 :> D5, {}, missing)>>,
            1 :> D1, positions, trigrams),
     Corpus((1 :> D2) @@ (2 :> D6),
            <<Segm((1 :> D4) @@ (2 :> D3), {1, 2}, missing),
              Segm((2 :> D6) @@ (3 :> D3), {}, missing)>>,
            1 :> D2, positions, trigrams)}
(***************************************************************************)
(* The run `regex': patterns of which a branch or an optional group holds  *)
(* the only long literal, which the other row lacks.                       *)
(***************************************************************************)
Long == Cat(Abc, Cat(Lit(2), Lit(2)))
Branches == {<<RegexLit(Alt(Lit(3), Long))>>,
             <<RegexLit(Cat(Un("opt", Un("group", Long)), Lit(3)))>>}
BranchDocs == (1 :> Doc(C :> {1})) @@ (2 :> Doc((ABCB :> {1}) @@ (BC :> {2})))
BranchCorpora == {Corpus(BranchDocs, <<Segm(BranchDocs, {}, {})>>, NoDocs, positions, trigrams) :
                    positions \in BOOLEAN, trigrams \in BOOLEAN}

MCCorpora == MkCorpora({}, TRUE, TRUE) \cup MkCorpora({}, FALSE, FALSE)
               \cup MkCorpora({<<A, 1>>, <<B, 3>>}, TRUE, TRUE)
=============================================================================
