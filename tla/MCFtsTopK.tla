----------------------------- MODULE MCFtsTopK -----------------------------
(***************************************************************************)
(* Instances of FtsTopK: every way to fill five heap slots from three      *)
(* documents that differ in word counts, order and length, in three        *)
(* layouts, under the queries that lead to each walk.                      *)
(***************************************************************************)
EXTENDS MCFtsSearch, FtsTopK

R1 == Doc((A :> {1}) @@ (B :> {2}))
R2 == Doc((A :> {2, 3}) @@ (C :> {1, 4, 5}))
R3 == Doc((A :> {2}) @@ (B :> {1, 4}) @@ (C :> {3, 6, 7}))

Fill == {f \in [1 .. 5 -> {R1, R2, R3}] : f[1] = R2 /\ f[4] = R3}
Part(f, tids) == [t \in tids |-> f[t]]
Inline(sg) == [sg EXCEPT !.sidecar = FALSE]

(***************************************************************************)
(* One segment; two segments, the older one without a length sidecar; and  *)
(* a segment of which slot 2 was deleted and is used again by a pending    *)
(* document.                                                               *)
(***************************************************************************)
Layouts(f) ==
    {Corpus(f, <<Segm(f, {}, {})>>, NoDocs, TRUE, TRUE),
     Corpus(f, <<Inline(Segm(Part(f, 1 .. 2), {}, {})), Segm(Part(f, 3 .. 5), {}, {})>>,
            NoDocs, TRUE, TRUE),
     Corpus([f EXCEPT ![2] = R1, ![5] = R2],
            <<Segm(Part(f, 1 .. 4), {2}, {})>>, (2 :> R1) @@ (5 :> R2), TRUE, TRUE)}

MCRankedCorpora == UNION {Layouts(f) : f \in Fill}

And(x, y) == Infix(x, Punct("and"), y)
Or(x, y) == Infix(x, Punct("or"), y)
wabs == <<Word(Absent)>>
MCRankedTexts ==
    {wa, Or(wa, wb), Or(Or(wa, wb), wc), Or(wabs, wc),
     And(wb, wc), And(wb, Par(Or(wa, wc))), And(Or(wa, wc), Not(wb)),
     Quoted(wa \o wb), Quoted(wb \o wa \o wc), Infix(wa, Word(W(2)), wb), Or(wa, Not(wb)),
     Not(wb), <<WordSfx(A, <<SfxStar>>)>>}

Setting(bestfirst, lazy, densemin) ==
    [bestfirst |-> bestfirst, lazy |-> lazy, densemin |-> densemin]
MCSettings == {Setting(TRUE, TRUE, 0), Setting(FALSE, TRUE, 0), Setting(FALSE, FALSE, 1)}
=============================================================================
