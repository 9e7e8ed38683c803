--------------------------- MODULE FtsTopK_proofs ---------------------------
(***************************************************************************)
(* Every walk of a ranked scan ends with the k best of all documents it is *)
(* there for, and a ranked scan of a Boolean query returns the k best of   *)
(* all that match (FtsTopK, for every corpus, query, k and setting).       *)
(*                                                                         *)
(* A document is compared with the cursors that hold it: its score is the  *)
(* sum of theirs (Total), each at most the bound of the posting's block    *)
(* and of the word.  A walk has come so far (Progress): the hits are the k *)
(* best of the documents below the frontier, or in the blocks visited, and *)
(* no cursor is past a live posting of any other.  A step that leaves      *)
(* documents behind leaves only such as the sum of some bounds keeps at or *)
(* below the k-th score.                                                   *)
(*                                                                         *)
(* For a Boolean query the documents a walk is there for are those that    *)
(* match: a query in postfix order has one valuation, the matcher's and    *)
(* the gate's are both it, and a word under an even number of NOTs of a    *)
(* conjunct of a document that matches is in the document (Driver).        *)
(***************************************************************************)
EXTENDS FtsTopK, FtsSums_proofs, FunctionTheorems

(* Orders on finite sets. *)

\* A finite set that has an element has a greatest one in any total preorder.
LEMMA Greatest ==
    ASSUME NEW S, IsFiniteSet(S), S # {}, NEW R,
           \A x, y \in S : <<x, y>> \in R \/ <<y, x>> \in R,
           \A x, y, z \in S : <<x, y>> \in R /\ <<y, z>> \in R => <<x, z>> \in R
    PROVE  \E x \in S : \A y \in S : <<y, x>> \in R
  <1> DEFINE Has(s) == \E x \in s : \A y \in s : <<y, x>> \in R
             G == {s \in SUBSET S : s = {} \/ Has(s)}
  <1>1. {} \in G OBVIOUS
  <1>2. ASSUME NEW s \in SUBSET S, NEW x \in S, s \in G, x \notin s
        PROVE  s \cup {x} \in G
    <2>1. CASE s = {}
      <3>1. <<x, x>> \in R OBVIOUS
      <3> QED BY <2>1, <3>1
    <2>2. CASE s # {}
      <3>1. PICK g \in s : \A y \in s : <<y, g>> \in R BY <1>2, <2>2
      <3>2. CASE <<x, g>> \in R
        <4>1. Has(s \cup {x}) BY <3>1, <3>2
        <4> QED BY <4>1
      <3>3. CASE <<g, x>> \in R
        <4>1. \A y \in s : <<y, x>> \in R BY <3>1, <3>3
        <4>2. <<x, x>> \in R OBVIOUS
        <4>3. Has(s \cup {x}) BY <4>1, <4>2
        <4> QED BY <4>3
      <3> QED BY <3>2, <3>3
    <2> QED BY <2>1, <2>2
  <1>3. \A s \in SUBSET S, x \in S : s \in G /\ x \notin s => s \cup {x} \in G BY <1>2
  <1> HIDE DEF G
  <1>4. S \in G BY <1>1, <1>3, FiniteInduction
  <1> QED BY <1>4 DEF G

\* Min of the community modules, on natural numbers.
LEMMA LeastOf ==
    ASSUME NEW S \in SUBSET Nat, S # {}
    PROVE  Min(S) \in S /\ Min(S) \in Nat /\ \A y \in S : Min(S) <= y
  <1> DEFINE R == OpToRel(<, Nat)
  <1>1. \A x, y \in Nat : y < x => <<y, x>> \in R
    BY DEF OpToRel
  <1>2. IsWellFoundedOn(R, Nat) BY NatLessThanWellFounded
  <1> HIDE DEF R
  <1>3. PICK x \in S : \A y \in S : <<y, x>> \notin R
    BY <1>2, WFMin
  <1>4. ASSUME NEW y \in S PROVE x <= y
    <2>1. x \in Nat /\ y \in Nat OBVIOUS
    <2>2. ~ (y < x) BY <1>1, <1>3, <2>1
    <2> QED BY <2>1, <2>2
  <1>5. Min(S) \in S /\ \A y \in S : Min(S) <= y BY <1>4 DEF Min
  <1> QED BY <1>5

\* Max, on a finite set of integers.
LEMMA LargestOf ==
    ASSUME NEW S \in SUBSET Int, IsFiniteSet(S), S # {}
    PROVE  Max(S) \in S /\ Max(S) \in Int /\ \A y \in S : Max(S) >= y
  <1> DEFINE R == {p \in S \X S : p[1] <= p[2]}
  <1>1. \A x, y \in S : <<x, y>> \in R <=> x <= y OBVIOUS
  <1> HIDE DEF R
  <1>0. \A x \in S : x \in Int OBVIOUS
  <1>2. \A x, y \in S : <<x, y>> \in R \/ <<y, x>> \in R
    <2>1. \A x, y \in S : x <= y \/ y <= x BY <1>0
    <2> QED BY <1>1, <2>1
  <1>3. \A x, y, z \in S : <<x, y>> \in R /\ <<y, z>> \in R => <<x, z>> \in R
    <2>1. \A x, y, z \in S : x <= y /\ y <= z => x <= z BY <1>0
    <2> QED BY <1>1, <2>1
  <1>4. \E x \in S : \A y \in S : <<y, x>> \in R BY <1>2, <1>3, Greatest
  <1>5. PICK x \in S : \A y \in S : y <= x BY <1>1, <1>4
  <1>6. \A y \in S : x >= y BY <1>5
  <1>7. Max(S) \in S /\ \A y \in S : Max(S) >= y BY <1>6 DEF Max
  <1> QED BY <1>7

-----------------------------------------------------------------------------
(* The result order. *)

\* Hits of different documents.
Ranking(H) ==
    /\ IsFiniteSet(H)
    /\ H \subseteq [tid : Nat, score : Nat]
    /\ \A g, h \in H : g.tid = h.tid => g = h

\* T are the first k of H, or all of them.
FirstOf(T, H, k) ==
    /\ T \subseteq H
    /\ \A t \in T : \A h \in H \ T : Worse(h, t)
    /\ Cardinality(T) = k \/ (T = H /\ Cardinality(T) <= k)

LEMMA OrderOfHits ==
    ASSUME NEW H, Ranking(H)
    PROVE  /\ \A x \in H : ~Worse(x, x)
           /\ \A x, y \in H : x = y \/ Worse(x, y) \/ Worse(y, x)
           /\ \A x, y, z \in H : Worse(x, y) /\ Worse(y, z) => Worse(x, z)
           /\ \A x, y \in H : Worse(x, y) => ~Worse(y, x)
  <1>1. \A x \in H : x.tid \in Nat /\ x.score \in Nat BY DEF Ranking
  <1>2. \A x, y \in H : x.tid = y.tid => x = y BY DEF Ranking
  <1> QED BY <1>1, <1>2 DEF Worse

LEMMA RankingSubset ==
    ASSUME NEW H, Ranking(H), NEW G \in SUBSET H
    PROVE  Ranking(G)
  BY FS_Subset DEF Ranking

LEMMA BestOfIsFirst ==
    ASSUME NEW H, Ranking(H), NEW k \in Nat \ {0}
    PROVE  FirstOf(BestOf(H, k), H, k)
  <1> DEFINE B == BestOf(H, k)
             Better(h) == {g \in H : Worse(h, g)}
  <1>0. IsFiniteSet(H) BY DEF Ranking
  <1>1. B \subseteq H /\ \A h \in H : h \in B <=> Cardinality(Better(h)) < k BY DEF BestOf
  <1>2. \A h \in H : IsFiniteSet(Better(h)) /\ Cardinality(Better(h)) \in Nat
    BY <1>0, FS_Subset, FS_CardinalityType
  <1>3. IsFiniteSet(B) /\ Cardinality(B) \in Nat BY <1>0, <1>1, FS_Subset, FS_CardinalityType
  <1>4. \A h \in B : \A g \in H : Worse(h, g) => g \in B
    <2>1. SUFFICES ASSUME NEW h \in B, NEW g \in H, Worse(h, g) PROVE g \in B OBVIOUS
    <2>2. h \in H BY <1>1
    <2>3. Better(g) \subseteq Better(h) BY <2>1, <2>2, OrderOfHits
    <2>4. Cardinality(Better(g)) <= Cardinality(Better(h)) BY <2>2, <2>3, <1>2, FS_Subset
    <2>5. Cardinality(Better(h)) < k BY <1>1, <2>2
    <2>6. Cardinality(Better(g)) < k BY <1>2, <2>2, <2>4, <2>5
    <2> QED BY <1>1, <2>6
  <1>5. \A t \in B : \A h \in H \ B : Worse(h, t) BY <1>1, <1>4, OrderOfHits
  <1>6. Cardinality(B) <= k
    <2>1. CASE B = {} BY <2>1, FS_EmptySet
    <2>2. CASE B # {}
      <3> DEFINE R == {p \in B \X B : p[1] = p[2] \/ Worse(p[2], p[1])}
      <3>1. \A x, y \in B : <<x, y>> \in R <=> (x = y \/ Worse(y, x)) OBVIOUS
      <3> HIDE DEF R
      <3>2. \A x, y \in B : <<x, y>> \in R \/ <<y, x>> \in R BY <3>1, <1>1, OrderOfHits
      <3>3. \A x, y, z \in B : <<x, y>> \in R /\ <<y, z>> \in R => <<x, z>> \in R
        BY <3>1, <1>1, OrderOfHits
      <3>4. PICK w \in B : \A y \in B : <<y, w>> \in R BY <2>2, <1>3, <3>2, <3>3, Greatest
      <3>5. B \ {w} \subseteq Better(w) BY <3>1, <3>4, <1>1
      <3>6. Cardinality(B \ {w}) <= Cardinality(Better(w)) BY <3>5, <1>1, <1>2, FS_Subset
      <3>7. Cardinality(B \ {w}) = Cardinality(B) - 1 BY <1>3, FS_RemoveElement
      <3>8. Cardinality(Better(w)) < k BY <1>1
      <3>9. Cardinality(Better(w)) \in Nat BY <1>1, <1>2
      <3> HIDE DEF B, Better
      <3> QED BY <3>6, <3>7, <3>8, <3>9, <1>3
    <2> QED BY <2>1, <2>2
  <1>7. ASSUME B # H PROVE Cardinality(B) = k
    <2> DEFINE D == H \ B
    <2>1. IsFiniteSet(D) /\ D # {} BY <1>0, <1>1, <1>7, FS_Subset
    <2> DEFINE R == {p \in D \X D : p[1] = p[2] \/ Worse(p[1], p[2])}
    <2>2. \A x, y \in D : <<x, y>> \in R <=> (x = y \/ Worse(x, y)) OBVIOUS
    <2> HIDE DEF R
    <2>3. \A x, y \in D : <<x, y>> \in R \/ <<y, x>> \in R BY <2>2, <1>1, OrderOfHits
    <2>4. \A x, y, z \in D : <<x, y>> \in R /\ <<y, z>> \in R => <<x, z>> \in R
      BY <2>2, <1>1, OrderOfHits
    <2>5. PICK g \in D : \A y \in D : <<y, g>> \in R BY <2>1, <2>3, <2>4, Greatest
    <2>6. Better(g) \subseteq B
      <3>1. SUFFICES ASSUME NEW h \in Better(g), h \in D PROVE FALSE OBVIOUS
      <3>2. h = g \/ Worse(h, g) BY <2>2, <2>5, <3>1
      <3> QED BY <3>2, OrderOfHits
    <2>7. Cardinality(Better(g)) <= Cardinality(B) BY <1>3, <2>6, FS_Subset
    <2>8. ~(Cardinality(Better(g)) < k) BY <1>1
    <2>9. Cardinality(Better(g)) \in Nat BY <1>2
    <2> HIDE DEF B, Better
    <2> QED BY <2>7, <2>8, <2>9, <1>3, <1>6
  <1> QED BY <1>1, <1>5, <1>6, <1>7 DEF FirstOf

LEMMA FirstIsBestOf ==
    ASSUME NEW H, Ranking(H), NEW k \in Nat \ {0}, NEW T, FirstOf(T, H, k)
    PROVE  T = BestOf(H, k)
  <1> DEFINE Better(h) == {g \in H : Worse(h, g)}
  <1>0. IsFiniteSet(H) /\ IsFiniteSet(T) /\ T \subseteq H BY FS_Subset DEF Ranking, FirstOf
  <1>1. Cardinality(T) \in Nat BY <1>0, FS_CardinalityType
  <1>2. \A h \in H : IsFiniteSet(Better(h)) /\ Cardinality(Better(h)) \in Nat
    BY <1>0, FS_Subset, FS_CardinalityType
  <1>3. \A t \in T : \A h \in H \ T : Worse(h, t) BY DEF FirstOf
  <1>4. ASSUME NEW h \in T PROVE Cardinality(Better(h)) < k
    <2>1. Better(h) \subseteq T \ {h} BY <1>0, <1>3, OrderOfHits
    <2>2. IsFiniteSet(T \ {h}) /\ Cardinality(T \ {h}) = Cardinality(T) - 1
      BY <1>0, FS_RemoveElement
    <2>3. Cardinality(Better(h)) <= Cardinality(T \ {h}) BY <2>1, <2>2, FS_Subset
    <2>4. Cardinality(T) <= k BY <1>1 DEF FirstOf
    <2>5. Cardinality(Better(h)) \in Nat BY <1>0, <1>2
    <2> HIDE DEF Better
    <2> QED BY <1>1, <2>2, <2>3, <2>4, <2>5
  <1>5. ASSUME NEW h \in H \ T PROVE ~(Cardinality(Better(h)) < k)
    <2>1. T \subseteq Better(h) BY <1>0, <1>3
    <2>2. Cardinality(T) <= Cardinality(Better(h)) BY <1>2, <2>1, FS_Subset
    <2>3. Cardinality(T) = k BY DEF FirstOf
    <2>4. Cardinality(Better(h)) \in Nat BY <1>2
    <2> HIDE DEF Better
    <2> QED BY <2>2, <2>3, <2>4
  <1>6. BestOf(H, k) = {h \in H : Cardinality(Better(h)) < k} BY DEF BestOf
  <1> HIDE DEF Better
  <1> QED BY <1>0, <1>4, <1>5, <1>6

LEMMA FirstUnion ==
    ASSUME NEW P, NEW Q, Ranking(P \cup Q), NEW k \in Nat \ {0},
           NEW B, FirstOf(B, P, k), NEW T, FirstOf(T, B \cup Q, k)
    PROVE  FirstOf(T, P \cup Q, k)
  <1>1. Ranking(P) /\ IsFiniteSet(P) BY RankingSubset DEF Ranking
  <1>2. FirstOf(B, P, k) OBVIOUS
  <1>3. Ranking(B \cup Q)
    <2>1. B \cup Q \subseteq P \cup Q BY <1>2 DEF FirstOf
    <2> QED BY <2>1, RankingSubset
  <1>4. FirstOf(T, B \cup Q, k) OBVIOUS
  <1>5. B \subseteq P /\ T \subseteq B \cup Q BY <1>2, <1>4 DEF FirstOf
  <1>6. IsFiniteSet(B) /\ IsFiniteSet(B \cup Q) BY <1>3, <1>1, <1>5, FS_Subset DEF Ranking
  <1>7. IsFiniteSet(T) BY <1>5, <1>6, FS_Subset
  <1>8. Cardinality(B) \in Nat /\ Cardinality(T) \in Nat /\ Cardinality(B \cup Q) \in Nat
    BY <1>6, <1>7, FS_CardinalityType
  <1>9. \A t \in T : \A h \in (P \cup Q) \ T : Worse(h, t)
    <2>1. SUFFICES ASSUME NEW t \in T, NEW h \in (P \cup Q) \ T PROVE Worse(h, t) OBVIOUS
    <2>2. CASE h \in B \cup Q BY <2>2, <1>4 DEF FirstOf
    <2>3. CASE h \notin B \cup Q
      <3>1. h \in P \ B BY <2>3
      <3>2. Cardinality(B) = k /\ \A b \in B : Worse(h, b) BY <3>1, <1>2 DEF FirstOf
      <3>3. CASE t \in B BY <3>2, <3>3
      <3>4. CASE t \notin B
        <4>1. \E c \in B : c \notin T
          <5>1. SUFFICES ASSUME \A c \in B : c \in T PROVE FALSE OBVIOUS
          <5>2. B \cup {t} \subseteq T BY <5>1
          <5>3. Cardinality(B \cup {t}) = Cardinality(B) + 1 BY <3>4, <1>6, FS_AddElement
          <5>4. Cardinality(B \cup {t}) <= Cardinality(T) BY <5>2, <1>7, FS_Subset
          <5>5. Cardinality(T) <= k BY <1>4, <1>8 DEF FirstOf
          <5> QED BY <5>3, <5>4, <5>5, <3>2, <1>8
        <4>2. PICK c \in B : c \notin T BY <4>1
        <4>3. Worse(c, t) BY <4>2, <1>4 DEF FirstOf
        <4>4. Worse(h, c) BY <3>2
        <4>5. {t, c, h} \subseteq P \cup Q BY <1>5
        <4> QED BY <4>3, <4>4, <4>5, OrderOfHits
      <3> QED BY <3>3, <3>4
    <2> QED BY <2>2, <2>3
  <1>10. Cardinality(T) = k \/ (T = P \cup Q /\ Cardinality(T) <= k)
    <2>1. SUFFICES ASSUME Cardinality(T) # k PROVE T = P \cup Q /\ Cardinality(T) <= k OBVIOUS
    <2>2. T = B \cup Q /\ Cardinality(T) <= k BY <2>1, <1>4 DEF FirstOf
    <2>3. Cardinality(B) <= Cardinality(T) BY <2>2, <1>7, FS_Subset
    <2>4. Cardinality(B) # k BY <2>1, <2>2, <2>3, <1>8
    <2>5. B = P BY <2>4, <1>2 DEF FirstOf
    <2> QED BY <2>2, <2>5
  <1> QED BY <1>5, <1>9, <1>10 DEF FirstOf

LEMMA BestJoins ==
    ASSUME NEW P, NEW Q, NEW R, R = P \cup Q, Ranking(R), NEW k \in Nat \ {0},
           NEW T, T = BestOf(P, k), NEW U, U = BestOf(T \cup Q, k)
    PROVE  U = BestOf(R, k)
  <1>1. FirstOf(T, P, k) BY RankingSubset, BestOfIsFirst
  <1>2. Ranking(T \cup Q)
    <2>1. T \cup Q \subseteq R BY <1>1 DEF FirstOf
    <2> QED BY <2>1, RankingSubset
  <1>3. FirstOf(U, T \cup Q, k) BY <1>2, BestOfIsFirst
  <1>4. FirstOf(U, R, k) BY <1>1, <1>3, FirstUnion
  <1> QED BY <1>4, FirstIsBestOf

\* Hits that rank behind a full top do not change it.
Outranked(Q, P, T) == \A q \in Q : q \in P \/ \A t \in T : Worse(q, t)

LEMMA FirstIgnores ==
    ASSUME NEW P, NEW Q, Ranking(P \cup Q), NEW k \in Nat \ {0}, NEW T, T = BestOf(P, k),
           Q \subseteq P \/ Cardinality(T) = k,
           Outranked(Q, P, T)
    PROVE  T = BestOf(P \cup Q, k)
  <1>1. Ranking(P) BY RankingSubset
  <1>2. FirstOf(T, P, k) BY <1>1, BestOfIsFirst
  <1>3. CASE Q \subseteq P
    <2>1. P \cup Q = P BY <1>3
    <2> QED BY <2>1
  <1>4. CASE Cardinality(T) = k
    <2>1. FirstOf(T, P \cup Q, k) BY <1>2, <1>4 DEF FirstOf, Outranked
    <2> QED BY <2>1, FirstIsBestOf
  <1> QED BY <1>3, <1>4

\* The worst hit of the top, and its score.
LEMMA WorstIs ==
    ASSUME NEW T, Ranking(T), T # {}
    PROVE  /\ WorstOf(T) \in T
           /\ \A g \in T \ {WorstOf(T)} : Worse(WorstOf(T), g)
           /\ \A g \in T : WorstOf(T).score <= g.score
           /\ WorstOf(T).score \in Nat
  <1> DEFINE R == {p \in T \X T : p[1] = p[2] \/ Worse(p[2], p[1])}
  <1>1. \A x, y \in T : <<x, y>> \in R <=> (x = y \/ Worse(y, x)) OBVIOUS
  <1> HIDE DEF R
  <1>2. \A x, y \in T : <<x, y>> \in R \/ <<y, x>> \in R BY <1>1, OrderOfHits
  <1>3. \A x, y, z \in T : <<x, y>> \in R /\ <<y, z>> \in R => <<x, z>> \in R
    BY <1>1, OrderOfHits
  <1>4. PICK w \in T : \A y \in T : <<y, w>> \in R BY <1>2, <1>3, Greatest DEF Ranking
  <1>5. \A g \in T \ {w} : Worse(w, g) BY <1>1, <1>4
  <1>6. /\ WorstOf(T) \in T
        /\ \A g \in T \ {WorstOf(T)} : Worse(WorstOf(T), g)
    BY <1>5 DEF WorstOf
  <1>7. \A g \in T : g.score \in Nat BY DEF Ranking
  <1>8. \A g \in T : WorstOf(T).score <= g.score
    <2> TAKE g \in T
    <2>1. CASE g = WorstOf(T) BY <2>1, <1>7
    <2>2. CASE g # WorstOf(T) BY <2>2, <1>6, <1>7 DEF Worse
    <2> QED BY <2>1, <2>2
  <1> QED BY <1>6, <1>7, <1>8

\* A hit that beats the k-th takes its place.
LEMMA FirstReplaced ==
    ASSUME NEW P, NEW h, Ranking(P \cup {h}), h \notin P, NEW k \in Nat \ {0},
           NEW T, T = BestOf(P, k),
           Cardinality(T) # k \/ h.score > WorstOf(T).score
    PROVE  (IF Cardinality(T) = k THEN T \ {WorstOf(T)} ELSE T) \cup {h} = BestOf(P \cup {h}, k)
  <1> DEFINE H == P \cup {h}
  <1>1. Ranking(P) BY RankingSubset
  <1>2. FirstOf(T, P, k) BY <1>1, BestOfIsFirst
  <1>3. T \subseteq P BY <1>2 DEF FirstOf
  <1>4. IsFiniteSet(T) BY <1>1, <1>3, FS_Subset DEF Ranking
  <1>5. Cardinality(T) \in Nat BY <1>4, FS_CardinalityType
  <1>6. CASE Cardinality(T) # k
    <2>1. T = P /\ Cardinality(T) <= k BY <1>2, <1>6 DEF FirstOf
    <2>2. Cardinality(T \cup {h}) = Cardinality(T) + 1 BY <2>1, <1>4, FS_AddElement
    <2>3. Cardinality(T \cup {h}) <= k BY <2>1, <2>2, <1>5, <1>6
    <2>4. FirstOf(T \cup {h}, P \cup {h}, k) BY <2>1, <2>3 DEF FirstOf
    <2>5. T \cup {h} = BestOf(P \cup {h}, k) BY <2>4, FirstIsBestOf
    <2> QED BY <2>5, <1>6
  <1>7. CASE Cardinality(T) = k
    <2> DEFINE w == WorstOf(T)
               V == (T \ {w}) \cup {h}
    <2>1. T # {} BY <1>7, FS_EmptySet
    <2>2. Ranking(T) BY <1>1, <1>3, RankingSubset
    <2>3. w \in T /\ \A g \in T \ {w} : Worse(w, g) BY <2>1, <2>2, WorstIs
    <2>4. Cardinality(T \ {w}) = Cardinality(T) - 1 /\ IsFiniteSet(T \ {w})
      BY <2>3, <1>4, FS_RemoveElement
    <2>5. h \notin T \ {w} BY <1>3
    <2>6. Cardinality(V) = Cardinality(T \ {w}) + 1 BY <2>4, <2>5, FS_AddElement
    <2>7. Cardinality(V) = k BY <2>4, <2>6, <1>7, <1>5
    <2>8. Worse(w, h)
      <3>1. h.score > w.score BY <1>7
      <3>2. h.score \in Nat /\ w.score \in Nat BY <2>3, <1>3 DEF Ranking
      <3> HIDE DEF w
      <3> QED BY <3>1, <3>2 DEF Worse
    <2> HIDE DEF w
    <2>9. \A t \in V : \A g \in H \ V : Worse(g, t)
      <3> TAKE t \in V
      <3> TAKE g \in H \ V
      <3>1. g = w \/ g \in P \ T OBVIOUS
      <3>2. g \in P \ T => Worse(g, w) BY <2>3, <1>2 DEF FirstOf
      <3>3. {w, h, g, t} \subseteq H BY <2>3, <1>3
      <3>4. CASE t = h BY <3>1, <3>2, <3>3, <3>4, <2>8, OrderOfHits
      <3>5. CASE t \in T \ {w}
        <4>1. g \in P \ T => Worse(g, t) BY <3>5, <1>2 DEF FirstOf
        <4> QED BY <3>1, <3>5, <4>1, <2>3
      <3> QED BY <3>4, <3>5
    <2>10. FirstOf(V, H, k) BY <2>7, <2>9, <1>3 DEF FirstOf
    <2>11. V = BestOf(H, k) BY <2>10, FirstIsBestOf
    <2> QED BY <2>11, <1>7 DEF w
  <1> QED BY <1>6, <1>7

-----------------------------------------------------------------------------
(* Scores and bounds. *)

LEMMA Quotient ==
    ASSUME NEW a \in Nat, NEW b \in Nat \ {0}
    PROVE  /\ a \div b \in Nat
           /\ (a \div b) * b <= a
           /\ a < ((a \div b) + 1) * b
  OBVIOUS

LEMMA MulMono ==
    ASSUME NEW a \in Nat, NEW b \in Nat, NEW c \in Nat, a <= b
    PROVE  a * c <= b * c /\ a * c \in Nat /\ b * c \in Nat
  OBVIOUS

LEMMA MulCancel ==
    ASSUME NEW a \in Nat, NEW b \in Nat, NEW c \in Nat \ {0}, a * c < b * c
    PROVE  a < b
  <1>1. SUFFICES ASSUME ~(a < b) PROVE FALSE OBVIOUS
  <1>2. b <= a BY <1>1
  <1>3. b * c <= a * c BY <1>2, MulMono
  <1> QED BY <1>3, MulMono

\* q fits into c / d when q * d <= c.
LEMMA QuotientLeast ==
    ASSUME NEW q \in Nat, NEW c \in Nat, NEW d \in Nat \ {0}, q * d <= c
    PROVE  q <= c \div d
  <1> DEFINE r == c \div d
  <1>1. r \in Nat /\ c < (r + 1) * d BY Quotient
  <1> HIDE DEF r
  <1>2. r + 1 \in Nat /\ (r + 1) * d \in Nat /\ q * d \in Nat BY <1>1
  <1>3. q * d < (r + 1) * d BY <1>1, <1>2
  <1>4. q < r + 1 BY <1>2, <1>3, MulCancel
  <1> QED BY <1>1, <1>4 DEF r

LEMMA QuotientMono ==
    ASSUME NEW a \in Nat, NEW b \in Nat \ {0}, NEW c \in Nat, NEW d \in Nat \ {0}, a * d <= c * b
    PROVE  a \div b <= c \div d
  <1> DEFINE q == a \div b
  <1>1. q \in Nat /\ q * b <= a BY Quotient
  <1> HIDE DEF q
  <1>2. (q * b) * d <= a * d BY <1>1, MulMono
  <1>3. (q * b) * d = (q * d) * b BY <1>1
  <1>4. q * d \in Nat /\ c + 1 \in Nat BY <1>1
  <1>5. (q * d) * b <= c * b BY <1>1, <1>2, <1>3
  <1>6. q * d <= c
    <2>1. SUFFICES ASSUME ~(q * d <= c) PROVE FALSE OBVIOUS
    <2>2. c + 1 <= q * d BY <2>1, <1>4
    <2>3. (c + 1) * b <= (q * d) * b BY <2>2, <1>4, MulMono
    <2>4. (c + 1) * b = c * b + b BY <1>4
    <2>5. c * b \in Nat OBVIOUS
    <2> QED BY <2>3, <2>4, <2>5, <1>4, <1>5
  <1>7. q <= c \div d BY <1>1, <1>6, QuotientLeast
  <1> QED BY <1>7 DEF q

LEMMA ContribType ==
    ASSUME NEW idf \in Nat, NEW tf \in Nat, NEW dl \in Nat
    PROVE  Contrib(idf, tf, dl) \in Nat
  <1>1. Scale * idf * tf \in Nat BY DEF Scale
  <1>2. tf + 1 + dl \in Nat \ {0} OBVIOUS
  <1> QED BY <1>1, <1>2, Quotient DEF Contrib

\* A term scores no more than one that repeats it oftener in a shorter text.
LEMMA ContribMono ==
    ASSUME NEW idf \in Nat, NEW tf \in Nat, NEW dl \in Nat, NEW mtf \in Nat, NEW len \in Nat,
           tf <= mtf, tf * len <= mtf * dl
    PROVE  Contrib(idf, tf, dl) <= Contrib(idf, mtf, len)
  <1> DEFINE s == Scale * idf
             a == tf * (mtf + 1 + len)
             c == mtf * (tf + 1 + dl)
  <1>1. s \in Nat BY DEF Scale
  <1>2. a <= c /\ a \in Nat /\ c \in Nat
    <2>1. a = tf * mtf + tf + tf * len BY Z3
    <2>2. c = tf * mtf + mtf + mtf * dl BY Z3
    <2>3. tf * mtf \in Nat /\ tf * len \in Nat /\ mtf * dl \in Nat OBVIOUS
    <2> HIDE DEF a, c
    <2> QED BY <2>1, <2>2, <2>3
  <1>3. (s * tf) * (mtf + 1 + len) = a * s BY <1>1
  <1>4. (s * mtf) * (tf + 1 + dl) = c * s BY <1>1
  <1>5. s * tf \in Nat /\ s * mtf \in Nat BY <1>1
  <1>6. mtf + 1 + len \in Nat \ {0} /\ tf + 1 + dl \in Nat \ {0} OBVIOUS
  <1> HIDE DEF a, c, s
  <1>7. a * s <= c * s BY <1>1, <1>2, MulMono
  <1>8. (s * tf) \div (tf + 1 + dl) <= (s * mtf) \div (mtf + 1 + len)
    BY <1>3, <1>4, <1>5, <1>6, <1>7, QuotientMono
  <1> QED BY <1>8 DEF Contrib, s

\* A stored length is rounded down.
LEMMA QuantizedLower ==
    ASSUME NEW len \in Nat
    PROVE  Quantized(len) \in Nat /\ Quantized(len) <= len
  <1> DEFINE S == {p \in Powers : p * LeadingBit <= len} \cup {1}
  <1>0. 1 \in Int /\ 256 \in Int OBVIOUS
  <1>1. IsFiniteSet(1 .. 256) BY <1>0, FS_Interval
  <1>2. S \subseteq 1 .. 256 BY DEF Powers
  <1>3. S \subseteq Int /\ IsFiniteSet(S) /\ S # {} BY <1>1, <1>2, FS_Subset
  <1> HIDE DEF S
  <1>4. Max(S) \in S BY <1>3, LargestOf
  <1>5. Max(S) \in Nat \ {0}
    <2>1. \A x \in 1 .. 256 : x \in Nat \ {0} OBVIOUS
    <2> QED BY <1>2, <1>4, <2>1
  <1>6. len \div Max(S) \in Nat /\ (len \div Max(S)) * Max(S) <= len BY <1>5, Quotient
  <1>7. Quantized(len) = (len \div Max(S)) * Max(S) BY DEF Quantized, S
  <1>8. \A x, y \in Nat : x * y \in Nat OBVIOUS
  <1> QED BY <1>5, <1>6, <1>7, <1>8

-----------------------------------------------------------------------------
(* Blocks. *)

LEMMA BlockPlace ==
    ASSUME NEW n \in Nat, NEW p \in 1 .. n
    PROVE  /\ BlockOf(p) \in 1 .. NumBlocks(n)
           /\ BlockStart(BlockOf(p)) <= p /\ p <= BlockOf(p) * BlockSize
           /\ BlockStart(BlockOf(p)) \in Nat /\ BlockOf(p) * BlockSize \in Nat
  <1> DEFINE B == BlockSize
             q == (p - 1) \div B
             m == (n + B - 1) \div B
  <1>0. B \in Nat \ {0} BY RankAssumption
  <1>1. p - 1 \in Nat /\ n + B - 1 \in Nat BY <1>0
  <1> HIDE DEF B
  <1>2. q \in Nat /\ q * B <= p - 1 /\ p - 1 < (q + 1) * B BY <1>0, <1>1, Quotient
  <1>3. BlockOf(p) = q + 1 /\ NumBlocks(n) = m /\ BlockStart(q + 1) = ((q + 1) - 1) * B + 1
    <2>1. BlockOf(p) = q + 1 BY DEF BlockOf, B
    <2>2. NumBlocks(n) = m BY DEF NumBlocks, B
    <2> HIDE DEF q, m
    <2>3. BlockStart(q + 1) = ((q + 1) - 1) * B + 1 BY DEF BlockStart, B
    <2> QED BY <2>1, <2>2, <2>3
  <1> HIDE DEF q
  <1>4. (q + 1) * B = q * B + B /\ q * B \in Nat BY <1>0, <1>2
  <1>5. (q + 1) * B <= n + B - 1 BY <1>2, <1>4, <1>0
  <1>6. q + 1 <= m BY <1>0, <1>1, <1>2, <1>5, QuotientLeast
  <1>7. m \in Nat BY <1>0, <1>1, Quotient
  <1> HIDE DEF m
  <1>8. (q + 1) - 1 = q BY <1>2
  <1> QED BY <1>0, <1>2, <1>3, <1>4, <1>6, <1>7, <1>8 DEF B

LEMMA BlockRange ==
    ASSUME NEW n \in Nat \ {0}, NEW b \in 1 .. NumBlocks(n)
    PROVE  /\ BlockStart(b) \in 1 .. n
           /\ Min({b * BlockSize, n}) \in BlockStart(b) .. n
           /\ Min({b * BlockSize, n}) <= b * BlockSize
           /\ b < NumBlocks(n) => /\ Min({b * BlockSize, n}) = b * BlockSize
                                  /\ BlockStart(b + 1) = b * BlockSize + 1
                                  /\ b * BlockSize < n
           /\ b = NumBlocks(n) => Min({b * BlockSize, n}) = n
  <1> DEFINE B == BlockSize
             m == (n + B - 1) \div B
             e == Min({b * B, n})
  <1>0. B \in Nat \ {0} BY RankAssumption
  <1>1. n + B - 1 \in Nat BY <1>0
  <1>2. NumBlocks(n) = m /\ BlockStart(b) = (b - 1) * B + 1 /\ BlockStart(b + 1) = ((b + 1) - 1) * B + 1
    BY DEF NumBlocks, BlockStart, B
  <1> HIDE DEF B
  <1>3. m \in Nat /\ m * B <= n + B - 1 /\ n + B - 1 < (m + 1) * B BY <1>0, <1>1, Quotient
  <1>4. b \in Nat \ {0} /\ b <= m BY <1>2, <1>3
  <1> HIDE DEF m
  <1>5. b * B \in Nat /\ (b - 1) * B \in Nat /\ (b - 1) * B = b * B - B BY <1>0, <1>4
  <1>6. b * B <= m * B /\ m * B \in Nat BY <1>0, <1>3, <1>4, MulMono
  <1>7. (b - 1) * B + 1 <= n BY <1>0, <1>3, <1>5, <1>6
  <1>8. {b * B, n} \subseteq Nat /\ {b * B, n} # {} BY <1>5
  <1>9. e \in {b * B, n} /\ e <= b * B /\ e <= n BY <1>8, LeastOf
  <1> HIDE DEF e
  <1>10. b < m => b * B < n
    <2>1. SUFFICES ASSUME b < m PROVE b * B < n OBVIOUS
    <2>2. b + 1 <= m /\ b + 1 \in Nat BY <2>1, <1>3, <1>4
    <2>3. (b + 1) * B <= m * B BY <2>2, <1>0, <1>3, MulMono
    <2>4. (b + 1) * B = b * B + B BY <1>0, <1>4
    <2> QED BY <2>3, <2>4, <1>0, <1>3, <1>5, <1>6
  <1>11. b = m => n <= b * B
    <2>1. (m + 1) * B = m * B + B BY <1>0, <1>3
    <2> QED BY <2>1, <1>0, <1>3, <1>6
  <1>12. e \in (b - 1) * B + 1 .. n BY <1>0, <1>5, <1>7, <1>9
  <1>13. b < m => e = b * B BY <1>5, <1>9, <1>10
  <1>14. b = m => e = n BY <1>5, <1>9, <1>11
  <1>15. (b + 1) - 1 = b BY <1>4
  <1> QED BY <1>2, <1>5, <1>7, <1>9, <1>10, <1>12, <1>13, <1>14, <1>15 DEF B, e

-----------------------------------------------------------------------------
(* Posting lists. *)

LEMMA SumIs ==
    ASSUME NEW f
    PROVE  SumFunction(f) = SumFunctionOnSet(f, DOMAIN f)
  BY DEF SumFunction

LEMMA ImageFinite ==
    ASSUME NEW S, IsFiniteSet(S), NEW f, f \in [S -> {f[x] : x \in S}]
    PROVE  IsFiniteSet({f[x] : x \in S})
  <1> DEFINE T == {f[x] : x \in S}
  <1>1. \A t \in T : \E x \in S : f[x] = t OBVIOUS
  <1>2. f \in [S -> T] OBVIOUS
  <1> HIDE DEF T
  <1>3. f \in Surjection(S, T) BY <1>1, <1>2, Fun_IsSurj
  <1>4. IsFiniteSet(T) BY <1>3, FS_Surjection
  <1> QED BY <1>4 DEF T

LEMMA Length ==
    ASSUME NEW n \in Nat, NEW S, NEW f \in [1 .. n -> S]
    PROVE  f \in Seq(S) /\ Len(f) = n /\ DOMAIN f = 1 .. n
  OBVIOUS

\* A word of a document is found in the dictionary.
LEMMA LookupFinds ==
    ASSUME NEW sg, WellFormed(sg), NEW term
    PROVE  LookupTerm(sg, term) = Postings(sg, term)
  <1>1. CASE Postings(sg, term) = {} BY <1>1 DEF LookupTerm
  <1>2. CASE Postings(sg, term) # {}
    <2> DEFINE dict == sg.dict
    <2>1. term \in DictTerms(dict) BY <1>2 DEF Postings, WellFormed
    <2>2. PICK p \in DOMAIN dict : term \in ToSet(dict[p]) BY <2>1 DEF DictTerms
    <2>3. dict # <<>> BY <2>2
    <2>4. ~Before(term, dict[p][1]) /\ \A r \in DOMAIN dict : r > p => Before(term, dict[r][1])
      BY <2>2 DEF WellFormed, OrderedDict
    <2>5. DOMAIN dict \subseteq Nat BY DEF WellFormed, OrderedDict
    <2> DEFINE upTo == {r \in DOMAIN dict : ~Before(term, dict[r][1])}
    <2>6. p \in upTo /\ \A r \in upTo : p >= r
      <3>1. p \in upTo BY <2>4
      <3>2. \A r \in upTo : ~(r > p) BY <2>4
      <3>3. \A r \in upTo : r \in Nat BY <2>5
      <3>4. p \in Nat BY <2>5
      <3> QED BY <3>1, <3>2, <3>3, <3>4
    <2>7. DictSeek(dict, term) = IF upTo = {} THEN 1 ELSE Max(upTo) BY DEF DictSeek
    <2>8. upTo \subseteq Nat BY <2>5
    <2> HIDE DEF upTo, dict
    <2>9. Max(upTo) \in upTo /\ \A y \in upTo : Max(upTo) >= y BY <2>6 DEF Max
    <2>10. Max(upTo) \in Nat /\ p \in Nat BY <2>6, <2>8, <2>9
    <2>11. Max(upTo) >= p /\ p >= Max(upTo) BY <2>6, <2>9
    <2>12. Max(upTo) = p BY <2>10, <2>11
    <2>13. DictSeek(dict, term) = p BY <2>6, <2>7, <2>12
    <2>14. InDict(dict, term) BY <2>2, <2>3, <2>13 DEF InDict
    <2> QED BY <2>14 DEF LookupTerm, dict
  <1> QED BY <1>1, <1>2

\* Rank of a number among others.
Upto(S, x) == {y \in S : y <= x}

LEMMA RankIn ==
    ASSUME NEW S \in SUBSET Nat, IsFiniteSet(S), NEW x \in S
    PROVE  /\ Cardinality(Upto(S, x)) \in 1 .. Cardinality(S)
           /\ \A y \in S : x < y => Cardinality(Upto(S, x)) < Cardinality(Upto(S, y))
  <1>0. Cardinality(S) \in Nat BY FS_CardinalityType
  <1>1. \A y \in S : IsFiniteSet(Upto(S, y)) /\ Cardinality(Upto(S, y)) \in Nat
    BY FS_Subset, FS_CardinalityType DEF Upto
  <1>2. Cardinality(Upto(S, x)) <= Cardinality(S) BY FS_Subset DEF Upto
  <1>3. Cardinality(Upto(S, x)) # 0
    <2>1. x \in Upto(S, x) BY DEF Upto
    <2> QED BY <1>1, <2>1, FS_EmptySet
  <1>4. ASSUME NEW y \in S, x < y PROVE Cardinality(Upto(S, x)) < Cardinality(Upto(S, y))
    <2>1. x \in Nat /\ y \in Nat OBVIOUS
    <2>2. y \notin Upto(S, x) BY <1>4, <2>1 DEF Upto
    <2>3. Upto(S, x) \cup {y} \subseteq Upto(S, y)
      <3>1. \A z \in S : z <= x => z <= y
        <4> TAKE z \in S
        <4>1. z \in Nat OBVIOUS
        <4> QED BY <1>4, <2>1, <4>1
      <3>2. y <= y BY <2>1
      <3> QED BY <3>1, <3>2 DEF Upto
    <2>4. Cardinality(Upto(S, x) \cup {y}) = Cardinality(Upto(S, x)) + 1
      BY <1>1, <2>2, FS_AddElement
    <2>5. Cardinality(Upto(S, x) \cup {y}) <= Cardinality(Upto(S, y)) BY <1>1, <2>3, FS_Subset
    <2> QED BY <1>1, <2>4, <2>5
  <1> QED BY <1>0, <1>1, <1>2, <1>3, <1>4

LEMMA RankHeld ==
    ASSUME NEW S \in SUBSET Nat, IsFiniteSet(S), NEW j \in 1 .. Cardinality(S)
    PROVE  \E x \in S : Cardinality(Upto(S, x)) = j
  <1> DEFINE n == Cardinality(S)
             T == 1 .. n
             f == [x \in S |-> Cardinality(Upto(S, x))]
  <1>1. n \in Nat BY FS_CardinalityType
  <1>2. IsFiniteSet(T) /\ Cardinality(T) = n BY <1>1, FS_Interval
  <1>3. f \in [S -> T] BY RankIn
  <1>4. \A x, y \in S : f[x] = f[y] => x = y
    <2> SUFFICES ASSUME NEW x \in S, NEW y \in S, f[x] = f[y], x # y PROVE FALSE OBVIOUS
    <2>1. x \in Nat /\ y \in Nat OBVIOUS
    <2>2. x < y \/ y < x BY <2>1
    <2>3. f[x] < f[y] \/ f[y] < f[x] BY <2>2, RankIn
    <2>4. f[x] \in Nat /\ f[y] \in Nat BY RankIn
    <2> QED BY <2>3, <2>4
  <1>5. j \in T OBVIOUS
  <1> HIDE DEF T, n
  <1>6. f \in Injection(S, T)
    <2> HIDE DEF f
    <2> QED BY <1>3, <1>4, Fun_IsInj
  <1>7. f \in Surjection(S, T)
    <2> HIDE DEF f
    <2> QED BY <1>2, <1>6, FS_Injection DEF n
  <1>8. \E x \in S : f[x] = j
    <2> HIDE DEF f
    <2> QED BY <1>5, <1>7 DEF Surjection
  <1> QED BY <1>8

GoodList(list) ==
    /\ Len(list) \in Nat \ {0} /\ DOMAIN list = 1 .. Len(list)
    /\ \A j \in 1 .. Len(list) : /\ list[j].tid \in 0 .. Nowhere - 1
                                 /\ list[j].tf \in Nat \ {0}
                                 /\ list[j].dl \in Nat
    /\ \A i, j \in 1 .. Len(list) : i < j => list[i].tid < list[j].tid

LEMMA DocLenType ==
    ASSUME NEW docs, Documents(docs), NEW tid \in DOMAIN docs
    PROVE  /\ DocLen(docs[tid]) \in Nat
           /\ \A term : TermFreq(docs[tid], term) \in Nat
  <1> DEFINE doc == docs[tid]
             f == [t \in DOMAIN doc.pos |-> Cardinality(doc.pos[t])]
  <1>1. IsFiniteSet(DOMAIN doc.pos) /\ \A t \in DOMAIN doc.pos : IsFiniteSet(doc.pos[t])
    BY DEF Documents
  <1>2. Counts(f, DOMAIN f) BY <1>1, FS_CardinalityType DEF Counts
  <1>3. SumFunctionOnSet(f, DOMAIN f) \in Nat
    <2> HIDE DEF f
    <2> QED BY <1>2, SumType
  <1>4. DocLen(doc) \in Nat
    <2>1. DocLen(doc) = SumFunction(f) BY DEF DocLen
    <2> HIDE DEF f
    <2> QED BY <1>3, <2>1, SumIs
  <1>5. \A term : TermFreq(doc, term) \in Nat BY <1>1, FS_CardinalityType DEF TermFreq
  <1> QED BY <1>4, <1>5

LEMMA LengthType ==
    ASSUME NEW sg, WellFormed(sg), NEW tid \in DOMAIN sg.docs
    PROVE  StoredLen(sg, sg.docs[tid]) \in Nat
  <1>1. DocLen(sg.docs[tid]) \in Nat BY DocLenType DEF WellFormed
  <1> QED BY <1>1, QuantizedLower DEF StoredLen

\* A posting list is in TID order and has just the documents of its word.
LEMMA ListIsGood ==
    ASSUME NEW sg, WellFormed(sg), NEW term, LookupTerm(sg, term) # {}
    PROVE  LET list == PostingList(sg, term)
           IN  /\ GoodList(list)
               /\ Len(list) = Cardinality(LookupTerm(sg, term))
               /\ \A j \in 1 .. Len(list) :
                     /\ list[j].tid \in Postings(sg, term)
                     /\ list[j] = Posting(sg, term, list[j].tid)
               /\ \A tid \in Postings(sg, term) : \E j \in 1 .. Len(list) : list[j].tid = tid
  <1> DEFINE tids == LookupTerm(sg, term)
             n == Cardinality(tids)
             nth(j) == CHOOSE tid \in tids : Cardinality({x \in tids : x <= tid}) = j
             list == PostingList(sg, term)
             P == {Posting(sg, term, tid) : tid \in tids}
  <1>1. tids = Postings(sg, term) BY LookupFinds
  <1>2. tids \subseteq DOMAIN sg.docs /\ tids \subseteq Nat
    BY <1>1 DEF Postings, WellFormed, Documents
  <1>3. IsFiniteSet(tids) BY <1>2, FS_Subset DEF WellFormed, Documents
  <1>4. n \in Nat \ {0} BY <1>3, FS_CardinalityType, FS_EmptySet
  <1>5. list = [j \in 1 .. n |-> Posting(sg, term, nth(j))] BY DEF PostingList
  <1> HIDE DEF tids, n, list
  <1>6. \A j \in 1 .. n : nth(j) \in tids /\ Cardinality(Upto(tids, nth(j))) = j
    <2> TAKE j \in 1 .. n
    <2>1. \E x \in tids : Cardinality(Upto(tids, x)) = j BY <1>2, <1>3, RankHeld DEF n
    <2>2. \E x \in tids : Cardinality({y \in tids : y <= x}) = j BY <2>1 DEF Upto
    <2>3. nth(j) \in tids /\ Cardinality({x \in tids : x <= nth(j)}) = j BY <2>2
    <2> HIDE DEF nth
    <2> QED BY <2>3 DEF Upto
  <1> HIDE DEF nth
  <1>7. \A j \in 1 .. n : Posting(sg, term, nth(j)) \in P BY <1>6
  <1> HIDE DEF P
  <1>8. list \in [1 .. n -> P] BY <1>5, <1>7
  <1>9. Len(list) = n /\ DOMAIN list = 1 .. n BY <1>4, <1>8, Length
  <1>10. \A j \in 1 .. n : list[j].tid = nth(j) /\ list[j] = Posting(sg, term, list[j].tid)
    BY <1>5 DEF Posting
  <1>11. \A tid \in tids : \E j \in 1 .. n : list[j].tid = tid
    <2> TAKE tid \in tids
    <2> DEFINE j == Cardinality(Upto(tids, tid))
    <2>1. j \in 1 .. n BY <1>2, <1>3, RankIn DEF n
    <2>2. nth(j) = tid
      <3>1. nth(j) \in tids /\ Cardinality(Upto(tids, nth(j))) = j BY <1>6, <2>1
      <3>2. nth(j) \in Nat /\ tid \in Nat BY <1>2, <3>1
      <3>3. CASE nth(j) < tid
        <4>1. Cardinality(Upto(tids, nth(j))) < j BY <3>1, <3>3, <1>2, <1>3, RankIn
        <4> QED BY <3>1, <4>1, <2>1
      <3>4. CASE tid < nth(j)
        <4>1. j < Cardinality(Upto(tids, nth(j))) BY <3>1, <3>4, <1>2, <1>3, RankIn
        <4> QED BY <3>1, <4>1, <2>1
      <3> QED BY <3>2, <3>3, <3>4
    <2> HIDE DEF j
    <2> QED BY <1>10, <2>1, <2>2
  <1>12. \A i, j \in 1 .. n : i < j => list[i].tid < list[j].tid
    <2> SUFFICES ASSUME NEW i \in 1 .. n, NEW j \in 1 .. n, i < j
                 PROVE  list[i].tid < list[j].tid
      OBVIOUS
    <2>1. list[i].tid = nth(i) /\ list[j].tid = nth(j) BY <1>10
    <2>2. nth(i) \in tids /\ nth(j) \in tids BY <1>6
    <2>3. nth(i) \in Nat /\ nth(j) \in Nat BY <1>2, <2>2
    <2>4. Cardinality(Upto(tids, nth(i))) = i /\ Cardinality(Upto(tids, nth(j))) = j BY <1>6
    <2>5. SUFFICES ASSUME ~(nth(i) < nth(j)) PROVE FALSE BY <2>1
    <2>6. nth(j) < nth(i) \/ nth(i) = nth(j) BY <2>3, <2>5
    <2>7. CASE nth(i) = nth(j) BY <2>4, <2>7
    <2>8. CASE nth(j) < nth(i)
      <3>1. j < i BY <2>8, <2>2, <2>4, <1>2, <1>3, RankIn
      <3> QED BY <3>1
    <2> QED BY <2>6, <2>7, <2>8
  <1>13. ASSUME NEW j \in 1 .. n
         PROVE  list[j].tid \in 0 .. Nowhere - 1 /\ list[j].tf \in Nat \ {0} /\ list[j].dl \in Nat
    <2> DEFINE tid == list[j].tid
    <2>1. tid \in tids BY <1>6, <1>10
    <2>2. tid \in DOMAIN sg.docs /\ term \in DOMAIN sg.docs[tid].pos BY <1>1, <2>1 DEF Postings
    <2>3. list[j].tf = Cardinality(sg.docs[tid].pos[term])
          /\ list[j].dl = StoredLen(sg, sg.docs[tid])
      <3>1. list[j] = Posting(sg, term, tid) BY <1>10
      <3> HIDE DEF tid
      <3>2. Posting(sg, term, tid).tf = TermFreq(sg.docs[tid], term)
            /\ Posting(sg, term, tid).dl = StoredLen(sg, sg.docs[tid])
        BY DEF Posting
      <3>3. TermFreq(sg.docs[tid], term) = Cardinality(sg.docs[tid].pos[term])
        BY <2>2 DEF TermFreq
      <3> QED BY <3>1, <3>2, <3>3
    <2>4. IsFiniteSet(sg.docs[tid].pos[term]) /\ sg.docs[tid].pos[term] # {}
      BY <2>2 DEF WellFormed, Documents
    <2>5. list[j].tf \in Nat \ {0} BY <2>3, <2>4, FS_CardinalityType, FS_EmptySet
    <2>6. list[j].dl \in Nat BY <2>2, <2>3, LengthType
    <2>7. tid \in 0 .. Nowhere - 1 BY <2>2 DEF WellFormed, Documents
    <2> QED BY <2>5, <2>6, <2>7
  <1>14. GoodList(list) BY <1>4, <1>9, <1>12, <1>13 DEF GoodList
  <1> QED BY <1>1, <1>6, <1>9, <1>10, <1>11, <1>14 DEF n, tids, list

-----------------------------------------------------------------------------
(* Cursors. *)

GoodCursor(cur) ==
    /\ GoodList(cur.list)
    /\ cur.maxc \in Nat
    /\ \A j \in 1 .. Len(cur.list) : Score(cur, j) \in Nat /\ Score(cur, j) <= cur.maxc
    /\ Len(cur.hdr) = NumBlocks(Len(cur.list)) /\ DOMAIN cur.hdr = 1 .. Len(cur.hdr)
    /\ \A b \in 1 .. Len(cur.hdr) :
          /\ cur.hdr[b].first = cur.list[BlockStart(b)].tid
          /\ cur.hdr[b].last = cur.list[BlockEnd(cur.list, b)].tid
          /\ cur.bound[b] \in Nat
          /\ \A j \in BlockStart(b) .. BlockEnd(cur.list, b) : Score(cur, j) <= cur.bound[b]
    /\ \A b \in 1 .. Len(cur.hdr) :
          b < Len(cur.hdr) => cur.after[b] \in {Nowhere, cur.list[BlockStart(b + 1)].tid}

LEMMA BlockSpan ==
    ASSUME NEW list, GoodList(list), NEW b \in 1 .. NumBlocks(Len(list))
    PROVE  /\ BlockStart(b) \in 1 .. Len(list)
           /\ BlockEnd(list, b) \in BlockStart(b) .. Len(list)
           /\ BlockStart(b) .. BlockEnd(list, b) \subseteq 1 .. Len(list)
           /\ b < NumBlocks(Len(list)) => BlockStart(b + 1) = BlockEnd(list, b) + 1
           /\ b = NumBlocks(Len(list)) => BlockEnd(list, b) = Len(list)
  <1>1. Len(list) \in Nat \ {0} BY DEF GoodList
  <1>2. BlockEnd(list, b) = Min({b * BlockSize, Len(list)}) BY DEF BlockEnd
  <1>3. BlockStart(b) \in 1 .. Len(list) /\ BlockEnd(list, b) \in BlockStart(b) .. Len(list)
    BY <1>1, <1>2, BlockRange
  <1>4. BlockStart(b) .. BlockEnd(list, b) \subseteq 1 .. Len(list) BY <1>1, <1>3
  <1> QED BY <1>1, <1>2, <1>3, <1>4, BlockRange

LEMMA BlockHas ==
    ASSUME NEW list, GoodList(list), NEW p \in 1 .. Len(list)
    PROVE  /\ BlockOf(p) \in 1 .. NumBlocks(Len(list))
           /\ p \in BlockStart(BlockOf(p)) .. BlockEnd(list, BlockOf(p))
  <1>1. Len(list) \in Nat BY DEF GoodList
  <1>2. /\ BlockOf(p) \in 1 .. NumBlocks(Len(list))
        /\ BlockStart(BlockOf(p)) <= p /\ p <= BlockOf(p) * BlockSize
        /\ BlockStart(BlockOf(p)) \in Nat /\ BlockOf(p) * BlockSize \in Nat
    BY <1>1, BlockPlace
  <1> DEFINE S == {BlockOf(p) * BlockSize, Len(list)}
  <1>3. S \subseteq Nat /\ S # {} BY <1>1, <1>2
  <1>4. Min(S) \in S BY <1>3, LeastOf
  <1>5. BlockEnd(list, BlockOf(p)) = Min(S) BY DEF BlockEnd
  <1>6. p <= Min(S) /\ Min(S) \in Nat BY <1>1, <1>2, <1>3, <1>4
  <1> HIDE DEF S
  <1> QED BY <1>2, <1>5, <1>6

LEMMA LargestField ==
    ASSUME NEW list, GoodList(list), NEW in \in SUBSET (1 .. Len(list)), in # {}
    PROVE  LET mtf == Max({list[j].tf : j \in in})
           IN  mtf \in Nat \ {0} /\ \A j \in in : list[j].tf <= mtf
  <1> DEFINE f == [j \in in |-> list[j].tf]
             S == {list[j].tf : j \in in}
  <1>1. Len(list) \in Nat BY DEF GoodList
  <1>2. IsFiniteSet(in)
    <2>1. IsFiniteSet(1 .. Len(list)) BY <1>1, FS_Interval
    <2> QED BY <2>1, FS_Subset
  <1>3. S = {f[j] : j \in in} OBVIOUS
  <1>4. f \in [in -> {f[j] : j \in in}] OBVIOUS
  <1>5. IsFiniteSet({f[j] : j \in in})
    <2> HIDE DEF f
    <2> QED BY <1>2, <1>4, ImageFinite
  <1>6. \A j \in in : list[j].tf \in Nat \ {0} BY DEF GoodList
  <1>7. S \subseteq Int /\ S # {} /\ S \subseteq Nat \ {0}
    <2>1. \A s \in S : s \in Nat \ {0} BY <1>6
    <2>2. \A s \in Nat \ {0} : s \in Int OBVIOUS
    <2>3. S # {} OBVIOUS
    <2> HIDE DEF S
    <2> QED BY <2>1, <2>2, <2>3
  <1>8. IsFiniteSet(S) BY <1>3, <1>5
  <1>9. \A j \in in : list[j].tf \in S OBVIOUS
  <1> HIDE DEF S
  <1>10. Max(S) \in S /\ \A y \in S : Max(S) >= y BY <1>7, <1>8, LargestOf
  <1>11. \A j \in in : Max(S) >= list[j].tf BY <1>9, <1>10
  <1>12. Max(S) \in Nat \ {0} BY <1>7, <1>10
  <1>13. \A j \in in : list[j].tf <= Max(S) BY <1>6, <1>11, <1>12
  <1> QED BY <1>12, <1>13 DEF S

\* No posting of a block scores above what its header says.
LEMMA HeaderBounds ==
    ASSUME NEW list, GoodList(list), NEW b \in 1 .. NumBlocks(Len(list))
    PROVE  LET h == Header(list, b)
           IN  /\ h.first = list[BlockStart(b)].tid /\ h.last = list[BlockEnd(list, b)].tid
               /\ h.mtf \in Nat /\ h.len \in Nat
               /\ \A j \in BlockStart(b) .. BlockEnd(list, b) :
                     list[j].tf <= h.mtf /\ list[j].tf * h.len <= h.mtf * list[j].dl
  <1> DEFINE in == BlockStart(b) .. BlockEnd(list, b)
             mtf == Max({list[j].tf : j \in in})
             L == {(mtf * list[j].dl) \div list[j].tf : j \in in}
  <1>1. in \subseteq 1 .. Len(list) /\ in # {}
    <2>1. BlockStart(b) \in 1 .. Len(list) /\ BlockEnd(list, b) \in BlockStart(b) .. Len(list)
      BY BlockSpan
    <2>2. BlockStart(b) \in in BY <2>1 DEF GoodList
    <2> QED BY <2>2, BlockSpan
  <1>2. /\ Header(list, b).first = list[BlockStart(b)].tid
        /\ Header(list, b).last = list[BlockEnd(list, b)].tid
        /\ Header(list, b).mtf = mtf
        /\ Header(list, b).len = Min(L)
    BY DEF Header, EffectiveLen
  <1> HIDE DEF in
  <1>3. mtf \in Nat \ {0} /\ \A j \in in : list[j].tf <= mtf BY <1>1, LargestField
  <1> HIDE DEF mtf
  <1>4. \A j \in in : list[j].tf \in Nat \ {0} /\ list[j].dl \in Nat BY <1>1 DEF GoodList
  <1>5. ASSUME NEW j \in in
        PROVE  (mtf * list[j].dl) \div list[j].tf \in Nat
               /\ ((mtf * list[j].dl) \div list[j].tf) * list[j].tf <= mtf * list[j].dl
    <2>1. mtf * list[j].dl \in Nat BY <1>3, <1>4
    <2> QED BY <2>1, <1>4, Quotient
  <1>6. L \subseteq Nat /\ L # {} BY <1>1, <1>5
  <1>7. Min(L) \in Nat /\ \A y \in L : Min(L) <= y BY <1>6, LeastOf
  <1>8. ASSUME NEW j \in in
        PROVE  list[j].tf * Min(L) <= mtf * list[j].dl
    <2> DEFINE q == (mtf * list[j].dl) \div list[j].tf
               m == Min(L)
               t == list[j].tf
    <2>1. m <= q BY <1>7
    <2>2. m \in Nat /\ q \in Nat /\ t \in Nat BY <1>4, <1>5, <1>7
    <2>3. q * t <= mtf * list[j].dl BY <1>5
    <2>4. mtf * list[j].dl \in Nat BY <1>3, <1>4
    <2> HIDE DEF q, m, t
    <2>5. m * t <= q * t /\ m * t \in Nat /\ q * t \in Nat BY <2>1, <2>2, MulMono
    <2>6. m * t = t * m BY <2>2
    <2>7. t * m <= mtf * list[j].dl BY <2>3, <2>4, <2>5, <2>6
    <2> QED BY <2>7 DEF m, t
  <1> HIDE DEF L
  <1> QED BY <1>2, <1>3, <1>7, <1>8 DEF in

LEMMA NextFirstIs ==
    ASSUME NEW sg, NEW term, NEW b, b < NumBlocks(Cardinality(LookupTerm(sg, term)))
    PROVE  NextFirst(sg, term, b) \in {Nowhere, PostingList(sg, term)[BlockStart(b + 1)].tid}
  BY Zenon DEF NextFirst

LEMMA CursorIsGood ==
    ASSUME NEW sg, WellFormed(sg), NEW term, LookupTerm(sg, term) # {}, NEW idf \in Nat
    PROVE  GoodCursor(Cursor(sg, term, idf)) /\ Cursor(sg, term, idf).list = PostingList(sg, term)
  <1> DEFINE list == PostingList(sg, term)
             n    == NumBlocks(Len(list))
             mtf  == Max({list[j].tf : j \in DOMAIN list})
             hdr  == [b \in 1 .. n |-> Header(list, b)]
             cur  == Cursor(sg, term, idf)
             len(b) == IF sg.sidecar THEN Quantized(hdr[b].len) ELSE hdr[b].len
  <1>1. GoodList(list) /\ Len(list) = Cardinality(LookupTerm(sg, term)) BY ListIsGood
  <1>2. /\ cur.list = list /\ cur.idf = idf /\ cur.maxc = Contrib(idf, mtf, 0)
        /\ cur.hdr = hdr
        /\ cur.after = [b \in DOMAIN hdr |-> NextFirst(sg, term, b)]
        /\ cur.bound = [b \in DOMAIN hdr |-> Contrib(idf, hdr[b].mtf, len(b))]
    BY DEF Cursor
  <1> HIDE DEF list, cur
  <1>3. Len(list) \in Nat \ {0} /\ DOMAIN list = 1 .. Len(list) BY <1>1 DEF GoodList
  <1>4. n \in Nat
    <2>1. 1 \in 1 .. Len(list) BY <1>3
    <2>2. BlockSize \in Nat \ {0} BY RankAssumption
    <2>3. Len(list) + BlockSize - 1 \in Nat BY <1>3, <2>2
    <2>4. NumBlocks(Len(list)) = (Len(list) + BlockSize - 1) \div BlockSize BY DEF NumBlocks
    <2> QED BY <2>2, <2>3, <2>4, Quotient
  <1> HIDE DEF n
  <1>5. Len(hdr) = n /\ DOMAIN hdr = 1 .. n
    <2> DEFINE P == {Header(list, b) : b \in 1 .. n}
    <2>1. hdr \in [1 .. n -> P] OBVIOUS
    <2> HIDE DEF P, hdr
    <2> QED BY <2>1, <1>4, Length
  <1>6. \A b \in 1 .. n : hdr[b] = Header(list, b) OBVIOUS
  <1>7. \A j \in 1 .. Len(list) : list[j].tf \in Nat \ {0} /\ list[j].dl \in Nat
    BY <1>1 DEF GoodList
  <1>8. mtf \in Nat \ {0} /\ \A j \in 1 .. Len(list) : list[j].tf <= mtf
    <2>1. DOMAIN list \in SUBSET (1 .. Len(list)) /\ 1 \in DOMAIN list BY <1>3
    <2>2. DOMAIN list # {} BY <2>1
    <2>3. mtf \in Nat \ {0} /\ \A j \in DOMAIN list : list[j].tf <= mtf
      BY <1>1, <2>1, <2>2, LargestField
    <2> HIDE DEF mtf
    <2> QED BY <1>3, <2>3
  <1> HIDE DEF mtf, hdr
  <1>9. \A j : Score(cur, j) = Contrib(idf, list[j].tf, list[j].dl) BY <1>2 DEF Score
  <1>10. cur.maxc \in Nat BY <1>2, <1>8, ContribType
  <1>11. ASSUME NEW j \in 1 .. Len(list)
         PROVE  Score(cur, j) \in Nat /\ Score(cur, j) <= cur.maxc
    <2>1. list[j].tf * 0 <= mtf * list[j].dl BY <1>7, <1>8
    <2>2. Contrib(idf, list[j].tf, list[j].dl) <= Contrib(idf, mtf, 0)
      BY <2>1, <1>7, <1>8, ContribMono
    <2>3. list[j].tf \in Nat /\ list[j].dl \in Nat BY <1>7
    <2>4. Contrib(idf, list[j].tf, list[j].dl) \in Nat BY <2>3, ContribType
    <2> QED BY <2>2, <2>4, <1>2, <1>9
  <1>12. ASSUME NEW b \in 1 .. n
         PROVE  /\ cur.hdr[b].first = cur.list[BlockStart(b)].tid
                /\ cur.hdr[b].last = cur.list[BlockEnd(cur.list, b)].tid
                /\ cur.bound[b] \in Nat
                /\ \A j \in BlockStart(b) .. BlockEnd(cur.list, b) : Score(cur, j) <= cur.bound[b]
    <2> DEFINE h == hdr[b]
    <2>1. /\ h.first = list[BlockStart(b)].tid /\ h.last = list[BlockEnd(list, b)].tid
          /\ h.mtf \in Nat /\ h.len \in Nat
          /\ \A j \in BlockStart(b) .. BlockEnd(list, b) :
                list[j].tf <= h.mtf /\ list[j].tf * h.len <= h.mtf * list[j].dl
      BY <1>1, <1>6, HeaderBounds DEF n
    <2>2. cur.bound[b] = Contrib(idf, h.mtf, len(b)) /\ cur.hdr[b] = h BY <1>2, <1>5
    <2>3. len(b) \in Nat /\ len(b) <= h.len BY <2>1, QuantizedLower
    <2> HIDE DEF h, len
    <2>4. cur.bound[b] \in Nat BY <2>1, <2>2, <2>3, ContribType
    <2>5. ASSUME NEW j \in BlockStart(b) .. BlockEnd(list, b)
          PROVE  Score(cur, j) <= cur.bound[b]
      <3>1. j \in 1 .. Len(list) BY <1>1, BlockSpan DEF n
      <3>2. list[j].tf \in Nat /\ list[j].dl \in Nat BY <3>1, <1>7
      <3>3. list[j].tf * len(b) <= h.mtf * list[j].dl
        <4>1. len(b) * list[j].tf <= h.len * list[j].tf BY <2>1, <2>3, <3>2, MulMono
        <4>2. len(b) * list[j].tf = list[j].tf * len(b) /\ h.len * list[j].tf = list[j].tf * h.len
          BY <2>1, <2>3, <3>2
        <4>3. list[j].tf * h.len <= h.mtf * list[j].dl BY <2>1
        <4>4. /\ list[j].tf * len(b) \in Nat /\ list[j].tf * h.len \in Nat
              /\ h.mtf * list[j].dl \in Nat
          BY <2>1, <2>3, <3>2
        <4> QED BY <4>1, <4>2, <4>3, <4>4
      <3>4. Contrib(idf, list[j].tf, list[j].dl) <= Contrib(idf, h.mtf, len(b))
        BY <2>1, <2>3, <3>2, <3>3, ContribMono
      <3> QED BY <3>4, <1>9, <2>2
    <2> QED BY <2>1, <2>2, <2>4, <2>5, <1>2
  <1>13. \A b \in 1 .. n : b < n => cur.after[b] \in {Nowhere, cur.list[BlockStart(b + 1)].tid}
    <2> TAKE b \in 1 .. n
    <2>1. cur.after[b] = NextFirst(sg, term, b) BY <1>2, <1>5
    <2>2. b < n => NextFirst(sg, term, b) \in {Nowhere, list[BlockStart(b + 1)].tid}
      BY <1>1, NextFirstIs DEF n, list
    <2> QED BY <2>1, <2>2, <1>2
  <1>14. GoodCursor(cur)
    BY <1>1, <1>2, <1>5, <1>10, <1>11, <1>12, <1>13 DEF GoodCursor, n
  <1> QED BY <1>2, <1>14 DEF cur, list

-----------------------------------------------------------------------------
(* Moves of a cursor. *)

Alive(cur, j) == cur.list[j].tid \notin cur.tombs
Settled(cur, p) == p \in 1 .. Len(cur.list) + 1 /\ (p <= Len(cur.list) => Alive(cur, p))

LEMMA DocidType ==
    ASSUME NEW cur, GoodCursor(cur), NEW p \in 1 .. Len(cur.list) + 1
    PROVE  /\ Docid(cur, p) \in 0 .. Nowhere
           /\ Docid(cur, p) = Nowhere <=> p = Len(cur.list) + 1
           /\ p <= Len(cur.list) => Docid(cur, p) = cur.list[p].tid
  <1>1. Len(cur.list) \in Nat BY DEF GoodCursor, GoodList
  <1>2. Nowhere \in Nat BY RankAssumption
  <1>3. CASE p <= Len(cur.list)
    <2>1. cur.list[p].tid \in 0 .. Nowhere - 1 BY <1>1, <1>3 DEF GoodCursor, GoodList
    <2>2. Docid(cur, p) = cur.list[p].tid BY <1>1, <1>3 DEF Docid
    <2> QED BY <1>1, <1>2, <1>3, <2>1, <2>2
  <1>4. CASE p > Len(cur.list)
    <2>1. Docid(cur, p) = Nowhere BY <1>4 DEF Docid
    <2> QED BY <1>1, <1>2, <1>4, <2>1
  <1> QED BY <1>1, <1>3, <1>4

LEMMA DocidOrder ==
    ASSUME NEW cur, GoodCursor(cur), NEW p \in 1 .. Len(cur.list) + 1,
           NEW q \in 1 .. Len(cur.list) + 1, p <= q
    PROVE  Docid(cur, p) <= Docid(cur, q)
  <1>1. Len(cur.list) \in Nat BY DEF GoodCursor, GoodList
  <1>2. Nowhere \in Nat BY RankAssumption
  <1>3. Docid(cur, p) \in 0 .. Nowhere /\ Docid(cur, q) \in 0 .. Nowhere BY DocidType
  <1>4. CASE p = q BY <1>3, <1>4
  <1>5. CASE p < q /\ q <= Len(cur.list)
    <2>1. cur.list[p].tid < cur.list[q].tid BY <1>1, <1>5 DEF GoodCursor, GoodList
    <2>2. Docid(cur, p) = cur.list[p].tid /\ Docid(cur, q) = cur.list[q].tid
      BY <1>1, <1>5, DocidType
    <2> QED BY <1>3, <2>1, <2>2
  <1>6. CASE q = Len(cur.list) + 1 BY <1>2, <1>3, <1>6, DocidType
  <1> QED BY <1>1, <1>4, <1>5, <1>6

\* Settle goes to the next live posting.
LEMMA SettleIs ==
    ASSUME NEW cur, GoodCursor(cur), NEW p \in 1 .. Len(cur.list) + 1
    PROVE  /\ Settle(cur, p) \in p .. Len(cur.list) + 1
           /\ Settle(cur, p) \in 1 .. Len(cur.list) + 1
           /\ Settled(cur, Settle(cur, p))
           /\ \A j \in p .. Settle(cur, p) - 1 : ~Alive(cur, j)
           /\ Docid(cur, p) <= Docid(cur, Settle(cur, p))
  <1> DEFINE n == Len(cur.list)
             live == {j \in p .. n : cur.list[j].tid \notin cur.tombs}
             q == Settle(cur, p)
  <1>1. n \in Nat BY DEF GoodCursor, GoodList
  <1>2. q = IF live = {} THEN n + 1 ELSE Min(live) BY DEF Settle
  <1>3. \A j \in p .. n : j \in live <=> Alive(cur, j) BY DEF Alive
  <1>4. live \subseteq p .. n /\ live \subseteq Nat BY <1>1
  <1> HIDE DEF live, q, n
  <1>5. live # {} => Min(live) \in live /\ \A j \in live : Min(live) <= j BY <1>4, LeastOf
  <1>6. q \in p .. n + 1 /\ q \in 1 .. n + 1
    <2>1. CASE live = {} BY <2>1, <1>1, <1>2 DEF n
    <2>2. CASE live # {}
      <3>1. q \in p .. n BY <2>2, <1>2, <1>4, <1>5
      <3> QED BY <3>1, <1>1
    <2> QED BY <2>1, <2>2
  <1>7. Settled(cur, q)
    <2>1. SUFFICES ASSUME q <= n PROVE Alive(cur, q) BY <1>6 DEF Settled, n
    <2>2. q \in live BY <2>1, <1>1, <1>2, <1>5
    <2> QED BY <2>2, <1>3, <1>4
  <1>8. \A j \in p .. q - 1 : ~Alive(cur, j)
    <2> SUFFICES ASSUME NEW j \in p .. q - 1, Alive(cur, j) PROVE FALSE OBVIOUS
    <2>1. j \in p .. n /\ j < q BY <1>1, <1>6
    <2>2. j \in live BY <2>1, <1>3
    <2>3. q <= j BY <2>2, <1>2, <1>5
    <2> QED BY <2>1, <2>3, <1>1, <1>6
  <1>9. Docid(cur, p) <= Docid(cur, q) BY <1>1, <1>6, DocidOrder DEF n
  <1> QED BY <1>6, <1>7, <1>8, <1>9 DEF q, n

LEMMA BlockOrder ==
    ASSUME NEW p \in Nat \ {0}, NEW q \in Nat \ {0}, p <= q
    PROVE  BlockOf(p) <= BlockOf(q) /\ BlockStart(p) <= BlockStart(q)
           /\ BlockStart(p) \in Nat \ {0} /\ BlockStart(p + 1) = p * BlockSize + 1
  <1> DEFINE B == BlockSize
             x == p - 1
             y == q - 1
  <1>1. B \in Nat \ {0} BY RankAssumption
  <1>2. x \in Nat /\ y \in Nat /\ x <= y OBVIOUS
  <1>3. BlockOf(p) = x \div B + 1 /\ BlockOf(q) = y \div B + 1 BY DEF BlockOf
  <1>4. BlockStart(p) = x * B + 1 /\ BlockStart(q) = y * B + 1 BY DEF BlockStart
  <1>5. BlockStart(p + 1) = p * B + 1
    <2>1. BlockStart(p + 1) = ((p + 1) - 1) * B + 1 BY DEF BlockStart
    <2>2. (p + 1) - 1 = p OBVIOUS
    <2> QED BY <2>1, <2>2
  <1> HIDE DEF x, y, B
  <1>6. x * B <= y * B /\ x * B \in Nat /\ y * B \in Nat BY <1>1, <1>2, MulMono
  <1>7. x \div B <= y \div B BY <1>1, <1>2, <1>6, QuotientMono
  <1>8. x \div B \in Nat /\ y \div B \in Nat BY <1>1, <1>2, Quotient
  <1> QED BY <1>3, <1>4, <1>5, <1>6, <1>7, <1>8 DEF B

\* The first posting at or above the target, of those at or behind p.
AtLeast(cur, p, target) == {j \in p .. Len(cur.list) : cur.list[j].tid >= target}

\* A block skipped by its neighbour's header has nothing at or above the target.
LEMMA SkippedBelow ==
    ASSUME NEW cur, GoodCursor(cur), NEW target \in 0 .. Nowhere,
           NEW j \in 1 .. Len(cur.list), Skippable(cur, BlockOf(j), target)
    PROVE  cur.list[j].tid < target
  <1> DEFINE b == BlockOf(j)
             n == Len(cur.list)
  <1>1. n \in Nat /\ Nowhere \in Nat BY RankAssumption DEF GoodCursor, GoodList
  <1>2. GoodList(cur.list) /\ Len(cur.hdr) = NumBlocks(n) BY DEF GoodCursor
  <1>3. b \in 1 .. NumBlocks(n) /\ j \in BlockStart(b) .. BlockEnd(cur.list, b)
    BY <1>2, BlockHas
  <1>4. b < Len(cur.hdr) /\ cur.after[b] <= target BY DEF Skippable
  <1>5. NumBlocks(n) \in Int
    <2>1. BlockSize \in Nat \ {0} BY RankAssumption
    <2>2. n + BlockSize - 1 \in Nat BY <1>1, <2>1
    <2> HIDE DEF n
    <2> QED BY <2>1, <2>2, Quotient DEF NumBlocks
  <1>6. cur.after[b] \in {Nowhere, cur.list[BlockStart(b + 1)].tid}
    BY <1>2, <1>3, <1>4 DEF GoodCursor
  <1>7. cur.list[j].tid \in 0 .. Nowhere - 1 BY <1>2 DEF GoodList
  <1> HIDE DEF b, n
  <1>8. CASE cur.after[b] = Nowhere BY <1>1, <1>4, <1>7, <1>8
  <1>9. CASE cur.after[b] = cur.list[BlockStart(b + 1)].tid
    <2>1. BlockStart(b + 1) = BlockEnd(cur.list, b) + 1 /\ BlockEnd(cur.list, b) \in 1 .. n
      BY <1>2, <1>3, <1>4, BlockSpan DEF n
    <2>2. b + 1 \in 1 .. NumBlocks(n) BY <1>2, <1>3, <1>4, <1>5
    <2>3. BlockStart(b + 1) \in 1 .. n BY <1>2, <2>2, BlockSpan DEF n
    <2>4. j < BlockStart(b + 1) BY <1>1, <1>3, <2>1
    <2>5. cur.list[j].tid < cur.list[BlockStart(b + 1)].tid
      BY <1>2, <2>3, <2>4 DEF GoodList, n
    <2>6. cur.list[BlockStart(b + 1)].tid \in 0 .. Nowhere - 1 BY <1>2, <2>3 DEF GoodList, n
    <2> QED BY <1>1, <1>4, <1>7, <1>9, <2>5, <2>6
  <1> QED BY <1>6, <1>8, <1>9

LEMMA SeekFinds ==
    ASSUME NEW cur, GoodCursor(cur), NEW p \in 1 .. Len(cur.list),
           NEW target \in 0 .. Nowhere, cur.list[p].tid < target
    PROVE  \/ /\ AtLeast(cur, p, target) = {}
              /\ Seek(cur, p, target) = Len(cur.list) + 1
           \/ \E q \in AtLeast(cur, p, target) :
                 /\ Seek(cur, p, target) = Settle(cur, q)
                 /\ \A j \in AtLeast(cur, p, target) : q <= j
  <1> DEFINE n == Len(cur.list)
             A == AtLeast(cur, p, target)
             b == BlockOf(p)
             m == Len(cur.hdr)
             s == SkipBlocks(cur, b + 1, target)
             S == {i \in b + 1 .. m + 1 : i = m + 1 \/ ~Skippable(cur, i, target)}
             here == {j \in p .. BlockEnd(cur.list, b) : cur.list[j].tid >= target}
             there == {j \in BlockStart(s) .. n : cur.list[j].tid >= target}
  <1>1. n \in Nat /\ Nowhere \in Nat BY RankAssumption DEF GoodCursor, GoodList
  <1>2. GoodList(cur.list) /\ m = NumBlocks(n) BY DEF GoodCursor
  <1>3. b \in 1 .. m /\ p \in BlockStart(b) .. BlockEnd(cur.list, b) BY <1>2, BlockHas
  <1>4. Docid(cur, p) = cur.list[p].tid BY <1>1 DEF Docid
  <1>5. cur.list[p].tid \in 0 .. Nowhere - 1 BY <1>2 DEF GoodList
  <1>6. ~(Docid(cur, p) >= target) BY <1>1, <1>4, <1>5
  <1>7. Seek(cur, p, target) = IF here # {} THEN Settle(cur, Min(here))
                               ELSE IF there # {} THEN Settle(cur, Min(there)) ELSE n + 1
    BY <1>6 DEF Seek
  <1>m. m \in Nat
    <2>1. BlockSize \in Nat \ {0} BY RankAssumption
    <2>2. n + BlockSize - 1 \in Nat BY <1>1, <2>1
    <2> HIDE DEF n
    <2> QED BY <1>2, <2>1, <2>2, Quotient DEF NumBlocks
  <1>8. BlockEnd(cur.list, b) \in 1 .. n
    <2>1. BlockEnd(cur.list, b) \in BlockStart(b) .. n /\ BlockStart(b) \in 1 .. n
      BY <1>2, <1>3, BlockSpan
    <2> QED BY <2>1, <1>1
  <1>9. here \subseteq A /\ here \subseteq Nat BY <1>1, <1>8 DEF AtLeast
  <1>10. s = Min(S) BY DEF SkipBlocks
  <1>11. S \subseteq Nat /\ m + 1 \in S BY <1>3, <1>m
  <1>12. S # {} BY <1>11
  <1>13. s \in S /\ \A i \in S : s <= i BY <1>10, <1>11, <1>12, LeastOf
  <1>14. s \in b + 1 .. m + 1 /\ \A i \in b + 1 .. s - 1 : Skippable(cur, i, target)
    <2>1. s \in b + 1 .. m + 1 BY <1>13
    <2>2. \A i \in b + 1 .. s - 1 : i \in b + 1 .. m + 1 /\ ~(s <= i) BY <2>1, <1>3, <1>m
    <2> HIDE DEF s
    <2>3. \A i \in b + 1 .. s - 1 : i \notin S BY <2>2, <1>13
    <2> QED BY <2>1, <2>2, <2>3
  <1> HIDE DEF s, S, m
  <1>15. \A j \in A : j \in here \/ j > BlockEnd(cur.list, b) BY <1>1, <1>8 DEF AtLeast
  <1>16. \A j \in A : j > BlockEnd(cur.list, b) => j \in there
    <2> SUFFICES ASSUME NEW j \in A, j > BlockEnd(cur.list, b) PROVE j \in there OBVIOUS
    <2>1. j \in 1 .. n /\ p <= j /\ cur.list[j].tid >= target BY <1>1 DEF AtLeast
    <2>2. BlockOf(j) \in 1 .. m /\ j \in BlockStart(BlockOf(j)) .. BlockEnd(cur.list, BlockOf(j))
      BY <1>2, <2>1, BlockHas
    <2>3. BlockOf(j) # b BY <1>8, <2>2, <1>1
    <2>4. b <= BlockOf(j)
      <3>1. p \in Nat \ {0} /\ j \in Nat \ {0} /\ p <= j BY <1>1, <2>1
      <3> QED BY <3>1, BlockOrder
    <2>5. cur.list[j].tid \in 0 .. Nowhere - 1 BY <1>2, <2>1 DEF GoodList
    <2> DEFINE i == BlockOf(j)
    <2> HIDE DEF i, b
    <2>6. ~(i <= s - 1)
      <3> SUFFICES ASSUME i <= s - 1 PROVE FALSE OBVIOUS
      <3>1. i \in b + 1 .. s - 1 BY <1>3, <1>14, <2>2, <2>3, <2>4, <1>m DEF i
      <3>2. cur.list[j].tid < target BY <3>1, <1>14, <2>1, SkippedBelow DEF i
      <3> QED BY <3>2, <2>1, <2>5, <1>1
    <2>7. s <= i /\ s \in Nat \ {0} /\ i \in Nat \ {0} BY <1>3, <1>14, <2>2, <2>6, <1>m DEF i
    <2>8. BlockStart(s) <= BlockStart(i) /\ BlockStart(s) \in Nat \ {0} BY <2>7, BlockOrder
    <2>9. BlockStart(i) <= j /\ BlockStart(i) \in Nat BY <2>2, <2>7, BlockOrder DEF i
    <2> QED BY <2>1, <2>8, <2>9, <1>1
  <1>17. there \subseteq A /\ there \subseteq Nat
    <2>1. s \in Nat \ {0} /\ b \in Nat \ {0} /\ b + 1 \in Nat \ {0} /\ b + 1 <= s
      BY <1>3, <1>14, <1>m
    <2>2. BlockStart(b + 1) <= BlockStart(s) /\ BlockStart(b + 1) \in Nat \ {0}
      BY <2>1, BlockOrder
    <2>3. s <= s BY <2>1
    <2>3a. BlockStart(s) \in Nat \ {0} BY <2>1, <2>3, BlockOrder
    <2>4. BlockStart(b + 1) = b * BlockSize + 1
      <3>1. b <= b BY <2>1
      <3> QED BY <2>1, <3>1, BlockOrder
    <2>5. p <= b * BlockSize /\ b * BlockSize \in Nat BY <1>1, BlockPlace
    <2>6. p <= BlockStart(s) BY <2>2, <2>3a, <2>4, <2>5
    <2> HIDE DEF b
    <2> QED BY <2>3a, <2>6, <1>1 DEF AtLeast
  <1> HIDE DEF here, there, b
  <1>18. \A j \in A : j \in Nat BY <1>1 DEF AtLeast
  <1>19. CASE here # {}
    <2>1. Min(here) \in here /\ \A j \in here : Min(here) <= j BY <1>9, <1>19, LeastOf
    <2>2. Min(here) <= BlockEnd(cur.list, b) BY <2>1 DEF here
    <2>3. \A j \in A : Min(here) <= j
      <3> TAKE j \in A
      <3>1. Min(here) \in Nat BY <1>9, <2>1
      <3> QED BY <3>1, <2>1, <2>2, <1>8, <1>15, <1>18
    <2> QED BY <1>7, <1>9, <1>19, <2>1, <2>3
  <1>20. CASE here = {} /\ there # {}
    <2>1. Min(there) \in there /\ \A j \in there : Min(there) <= j BY <1>17, <1>20, LeastOf
    <2>2. \A j \in A : Min(there) <= j BY <2>1, <1>15, <1>16, <1>20
    <2> QED BY <1>7, <1>17, <1>20, <2>1, <2>2
  <1>21. CASE here = {} /\ there = {}
    <2>1. A = {} BY <1>15, <1>16, <1>21
    <2> QED BY <1>7, <1>21, <2>1
  <1> QED BY <1>19, <1>20, <1>21

\* wand_seek passes over no live posting at or above the target.
LEMMA SeekIs ==
    ASSUME NEW cur, GoodCursor(cur), NEW p \in 1 .. Len(cur.list) + 1,
           NEW target \in 0 .. Nowhere
    PROVE  /\ Seek(cur, p, target) \in p .. Len(cur.list) + 1
           /\ Settled(cur, Seek(cur, p, target))
           /\ Docid(cur, Seek(cur, p, target)) >= target
           /\ \A j \in p .. Seek(cur, p, target) - 1 : Alive(cur, j) => cur.list[j].tid < target
  <1> DEFINE n == Len(cur.list)
             q == Seek(cur, p, target)
             A == AtLeast(cur, p, target)
  <1>1. n \in Nat /\ Nowhere \in Nat BY RankAssumption DEF GoodCursor, GoodList
  <1>2. \A j \in 1 .. n : cur.list[j].tid \in 0 .. Nowhere - 1 BY DEF GoodCursor, GoodList
  <1>3. Docid(cur, p) \in 0 .. Nowhere BY DocidType
  <1>4. CASE Docid(cur, p) >= target
    <2>1. q = Settle(cur, p) BY <1>4 DEF Seek
    <2>2. /\ q \in p .. n + 1 /\ q \in 1 .. n + 1 /\ Settled(cur, q)
          /\ \A j \in p .. q - 1 : ~Alive(cur, j)
          /\ Docid(cur, p) <= Docid(cur, q)
      BY <2>1, SettleIs
    <2>3. Docid(cur, q) \in 0 .. Nowhere BY <2>2, DocidType
    <2> HIDE DEF q
    <2>4. Docid(cur, q) >= target BY <2>2, <2>3, <1>3, <1>4, <1>1
    <2> QED BY <2>2, <2>4 DEF q
  <1>5. CASE ~(Docid(cur, p) >= target)
    <2>1. Docid(cur, p) < target BY <1>1, <1>3, <1>5
    <2>2. p \in 1 .. n /\ cur.list[p].tid < target
      <3>1. p # n + 1 BY <2>1, <1>1, DocidType
      <3>2. p <= n BY <3>1, <1>1
      <3> QED BY <3>2, <2>1, DocidType
    <2>3. CASE A = {} /\ q = n + 1
      <3>1. q \in p .. n + 1 /\ q \in 1 .. n + 1 BY <2>3, <1>1
      <3>2. Settled(cur, q) BY <2>3, <3>1, <1>1 DEF Settled
      <3>3. Docid(cur, q) = Nowhere BY <2>3, <3>1, DocidType
      <3>4. \A j \in p .. n : cur.list[j].tid < target
        <4> TAKE j \in p .. n
        <4>1. j \in 1 .. n BY <1>1
        <4>2. ~(cur.list[j].tid >= target) BY <2>3 DEF AtLeast
        <4> QED BY <4>1, <4>2, <1>1, <1>2
      <3> HIDE DEF A, q, n
      <3> QED BY <2>3, <3>1, <3>2, <3>3, <3>4, <1>1 DEF q, n
    <2>4. ASSUME NEW r \in A, q = Settle(cur, r), \A j \in A : r <= j
          PROVE  /\ q \in p .. n + 1 /\ Settled(cur, q) /\ Docid(cur, q) >= target
                 /\ \A j \in p .. q - 1 : Alive(cur, j) => cur.list[j].tid < target
      <3>1. r \in p .. n /\ r \in 1 .. n + 1 /\ r \in 1 .. n /\ cur.list[r].tid >= target
        BY <1>1 DEF AtLeast
      <3>2. /\ q \in r .. n + 1 /\ q \in 1 .. n + 1 /\ Settled(cur, q)
            /\ \A j \in r .. q - 1 : ~Alive(cur, j)
            /\ Docid(cur, r) <= Docid(cur, q)
        BY <2>4, <3>1, SettleIs
      <3>3. Docid(cur, r) = cur.list[r].tid BY <3>1, <1>1, DocidType
      <3>4. Docid(cur, q) \in 0 .. Nowhere BY <3>2, DocidType
      <3>5. cur.list[r].tid \in 0 .. Nowhere - 1 BY <3>1, <1>2
      <3>6. \A j \in p .. n : j < r => cur.list[j].tid < target
        <4> SUFFICES ASSUME NEW j \in p .. n, j < r PROVE cur.list[j].tid < target OBVIOUS
        <4>1. j \in 1 .. n BY <1>1
        <4>2. j \notin A BY <2>4, <3>1, <4>1
        <4>3. ~(cur.list[j].tid >= target) BY <4>2 DEF AtLeast
        <4> QED BY <4>1, <4>3, <1>1, <1>2
      <3> HIDE DEF A, q, n
      <3>7. Docid(cur, q) >= target BY <3>1, <3>2, <3>3, <3>4, <3>5, <1>1
      <3>8. q \in p .. n + 1 BY <3>1, <3>2, <1>1
      <3>9. ASSUME NEW j \in p .. q - 1, Alive(cur, j) PROVE cur.list[j].tid < target
        <4>1. j \notin r .. q - 1 BY <3>9, <3>2
        <4>2. j < r /\ j \in p .. n BY <4>1, <3>1, <3>8, <1>1
        <4> QED BY <4>2, <3>6
      <3> QED BY <3>2, <3>7, <3>8, <3>9
    <2>5. \/ A = {} /\ q = n + 1
          \/ \E r \in A : q = Settle(cur, r) /\ \A j \in A : r <= j
      BY <2>2, SeekFinds
    <2> HIDE DEF A, q, n
    <2> QED BY <2>3, <2>4, <2>5 DEF q, n
  <1> QED BY <1>4, <1>5

-----------------------------------------------------------------------------
(* Documents: the cursors that hold one, its score, and sets of hits. *)

GoodCursors(cs) == IsFiniteSet(DOMAIN cs) /\ \A c \in DOMAIN cs : GoodCursor(cs[c])

LiveIn(cur, d)  == \E j \in 1 .. Len(cur.list) : cur.list[j].tid = d /\ Alive(cur, j)
PlaceOf(cur, d) == CHOOSE j \in 1 .. Len(cur.list) : cur.list[j].tid = d
Holders(cs, d)  == {c \in DOMAIN cs : LiveIn(cs[c], d)}
Weights(cs, d)  == [c \in DOMAIN cs |-> Score(cs[c], PlaceOf(cs[c], d))]
Total(cs, d)    == SumFunctionOnSet(Weights(cs, d), Holders(cs, d))
HitsOf(cs, D)   == {Hit(d, Total(cs, d)) : d \in D}

LEMMA PlaceIs ==
    ASSUME NEW cur, GoodCursor(cur), NEW j \in 1 .. Len(cur.list)
    PROVE  PlaceOf(cur, cur.list[j].tid) = j
  <1> DEFINE d == cur.list[j].tid
             i == PlaceOf(cur, d)
             n == Len(cur.list)
  <1>1. n \in Nat BY DEF GoodCursor, GoodList
  <1>2. i \in 1 .. n /\ cur.list[i].tid = d
    <2>1. \E x \in 1 .. n : cur.list[x].tid = d OBVIOUS
    <2> HIDE DEF d
    <2> QED BY <2>1 DEF PlaceOf
  <1> HIDE DEF i
  <1>3. ~(i < j)
    <2> SUFFICES ASSUME i < j PROVE FALSE OBVIOUS
    <2>1. cur.list[i].tid < cur.list[j].tid BY <1>2 DEF GoodCursor, GoodList
    <2>2. cur.list[i].tid \in Nat BY <1>2, RankAssumption DEF GoodCursor, GoodList
    <2> QED BY <1>2, <2>1, <2>2
  <1>4. ~(j < i)
    <2> SUFFICES ASSUME j < i PROVE FALSE OBVIOUS
    <2>1. cur.list[j].tid < cur.list[i].tid BY <1>2 DEF GoodCursor, GoodList
    <2>2. cur.list[i].tid \in Nat BY <1>2, RankAssumption DEF GoodCursor, GoodList
    <2> QED BY <1>2, <2>1, <2>2
  <1> QED BY <1>1, <1>2, <1>3, <1>4 DEF i

LEMMA LivePlace ==
    ASSUME NEW cur, GoodCursor(cur), NEW d, LiveIn(cur, d)
    PROVE  /\ PlaceOf(cur, d) \in 1 .. Len(cur.list)
           /\ cur.list[PlaceOf(cur, d)].tid = d
           /\ Alive(cur, PlaceOf(cur, d))
           /\ d \in 0 .. Nowhere - 1
           /\ Score(cur, PlaceOf(cur, d)) \in Nat
           /\ Score(cur, PlaceOf(cur, d)) <= cur.maxc
  <1>1. PICK j \in 1 .. Len(cur.list) : cur.list[j].tid = d /\ Alive(cur, j) BY DEF LiveIn
  <1>2. PlaceOf(cur, d) = j BY <1>1, PlaceIs
  <1>3. d \in 0 .. Nowhere - 1 BY <1>1 DEF GoodCursor, GoodList
  <1> QED BY <1>1, <1>2, <1>3 DEF GoodCursor

LEMMA HoldersCount ==
    ASSUME NEW cs, GoodCursors(cs), NEW d
    PROVE  /\ Counts(Weights(cs, d), Holders(cs, d))
           /\ Holders(cs, d) \subseteq DOMAIN cs /\ IsFiniteSet(Holders(cs, d))
           /\ Total(cs, d) \in Nat
  <1>1. Holders(cs, d) \subseteq DOMAIN cs BY DEF Holders
  <1>2. IsFiniteSet(Holders(cs, d)) BY <1>1, FS_Subset DEF GoodCursors
  <1>3. \A c \in Holders(cs, d) : Weights(cs, d)[c] \in Nat
    BY LivePlace DEF Holders, Weights, GoodCursors
  <1>4. Counts(Weights(cs, d), Holders(cs, d)) BY <1>2, <1>3 DEF Counts
  <1> QED BY <1>1, <1>2, <1>4, SumType DEF Total

\* A sum over more cursors, with more for each, is no less than the score.
LEMMA TotalBounded ==
    ASSUME NEW cs, GoodCursors(cs), NEW d, NEW C, IsFiniteSet(C), Holders(cs, d) \subseteq C,
           NEW G, \A c \in C : G[c] \in Nat,
           \A c \in Holders(cs, d) : Weights(cs, d)[c] <= G[c]
    PROVE  Total(cs, d) <= SumFunctionOnSet(G, C) /\ SumFunctionOnSet(G, C) \in Nat
  <1> DEFINE H == Holders(cs, d)
  <1>1. Counts(Weights(cs, d), H) BY HoldersCount
  <1>2. Counts(G, C) BY DEF Counts
  <1>3. Counts(G, H) BY <1>1 DEF Counts
  <1>4. SumFunctionOnSet(Weights(cs, d), H) <= SumFunctionOnSet(G, H) BY <1>1, <1>3, SumMonotone
  <1>5. SumFunctionOnSet(G, H) <= SumFunctionOnSet(G, C) BY <1>2, SumSubset
  <1>6. /\ SumFunctionOnSet(Weights(cs, d), H) \in Nat /\ SumFunctionOnSet(G, H) \in Nat
        /\ SumFunctionOnSet(G, C) \in Nat
    BY <1>1, <1>2, <1>3, SumType
  <1> QED BY <1>4, <1>5, <1>6 DEF Total

\* The sum of what the holders stand on is the score.
LEMMA TotalIs ==
    ASSUME NEW cs, GoodCursors(cs), NEW d, NEW pos,
           \A c \in Holders(cs, d) : pos[c] = PlaceOf(cs[c], d)
    PROVE  SumFunction([c \in Holders(cs, d) |-> Score(cs[c], pos[c])]) = Total(cs, d)
  <1> DEFINE H == Holders(cs, d)
             f == [c \in H |-> Score(cs[c], pos[c])]
  <1>1. Counts(Weights(cs, d), H) /\ H \subseteq DOMAIN cs BY HoldersCount
  <1>2. \A c \in H : Weights(cs, d)[c] = f[c] BY <1>1 DEF Weights
  <1>3. DOMAIN f = H OBVIOUS
  <1> HIDE DEF f, H
  <1>4. SumFunctionOnSet(Weights(cs, d), H) = SumFunctionOnSet(f, H) BY <1>1, <1>2, SumSame
  <1>5. SumFunction(f) = SumFunctionOnSet(f, H) BY <1>3, SumIs
  <1> QED BY <1>4, <1>5 DEF Total, H, f

LEMMA HitFields ==
    ASSUME NEW d, NEW n
    PROVE  Hit(d, n).tid = d /\ Hit(d, n).score = n
  BY DEF Hit

LEMMA HitsRank ==
    ASSUME NEW cs, GoodCursors(cs), NEW D \in SUBSET Nat, IsFiniteSet(D)
    PROVE  /\ Ranking(HitsOf(cs, D))
           /\ \A d : Hit(d, Total(cs, d)) \in HitsOf(cs, D) <=> d \in D
  <1> DEFINE f == [d \in D |-> Hit(d, Total(cs, d))]
             H == HitsOf(cs, D)
  <1>1. H = {f[d] : d \in D} BY DEF HitsOf
  <1>2. f \in [D -> {f[d] : d \in D}] OBVIOUS
  <1>3. IsFiniteSet({f[d] : d \in D})
    <2> HIDE DEF f
    <2> QED BY <1>2, ImageFinite
  <1>4. IsFiniteSet(H) BY <1>1, <1>3
  <1>5. \A d \in D : Total(cs, d) \in Nat BY HoldersCount
  <1>6. \A d \in D : Hit(d, Total(cs, d)) \in [tid : Nat, score : Nat] BY <1>5 DEF Hit
  <1>7. H \subseteq [tid : Nat, score : Nat] BY <1>6 DEF HitsOf
  <1>8. \A h \in H : h.tid \in D /\ h = Hit(h.tid, Total(cs, h.tid)) BY HitFields DEF HitsOf
  <1>9. \A g, h \in H : g.tid = h.tid => g = h BY <1>8
  <1>10. \A d : Hit(d, Total(cs, d)) \in H <=> d \in D
    <2> TAKE d
    <2>1. Hit(d, Total(cs, d)) \in H => d \in D BY <1>8, HitFields
    <2>2. d \in D => Hit(d, Total(cs, d)) \in H BY DEF HitsOf
    <2> QED BY <2>1, <2>2
  <1> QED BY <1>4, <1>7, <1>9, <1>10 DEF Ranking

LEMMA HitsUnion ==
    ASSUME NEW cs, NEW D, NEW E
    PROVE  HitsOf(cs, D \cup E) = HitsOf(cs, D) \cup HitsOf(cs, E)
  BY DEF HitsOf

\* Documents that a full top outranks may be left out.
Shadowed(cs, D, k, T) ==
    \A d \in D : Cardinality(T) = k /\ \A t \in T : Worse(Hit(d, Total(cs, d)), t)

LEMMA TopIgnores ==
    ASSUME NEW cs, GoodCursors(cs), NEW D, NEW E, D \subseteq E, E \subseteq Nat, IsFiniteSet(E),
           NEW k \in Nat \ {0}, NEW T, T = BestOf(HitsOf(cs, D), k),
           Shadowed(cs, E \ D, k, T)
    PROVE  T = BestOf(HitsOf(cs, E), k)
  <1> DEFINE P == HitsOf(cs, D)
             Q == HitsOf(cs, E)
  <1>1. P \cup Q = Q BY DEF HitsOf
  <1>2. Ranking(Q) BY HitsRank
  <1>3. \A q \in Q : q \in P \/ (Cardinality(T) = k /\ \A t \in T : Worse(q, t))
    BY DEF HitsOf, Shadowed
  <1>4. Q \subseteq P \/ Cardinality(T) = k BY <1>3
  <1>5. Outranked(Q, P, T) BY <1>3 DEF Outranked
  <1>6. T = BestOf(P, k) OBVIOUS
  <1> HIDE DEF P, Q
  <1>7. Ranking(P \cup Q) BY <1>1, <1>2
  <1>8. T = BestOf(P \cup Q, k) BY <1>4, <1>5, <1>6, <1>7, FirstIgnores
  <1> QED BY <1>1, <1>8 DEF Q

\* The hits of a top are documents that were met; all score at least the k-th.
LEMMA TopMembers ==
    ASSUME NEW cs, GoodCursors(cs), NEW D \in SUBSET Nat, IsFiniteSet(D),
           NEW k \in Nat \ {0}, NEW T, T = BestOf(HitsOf(cs, D), k)
    PROVE  /\ \A t \in T : t.tid \in D /\ t = Hit(t.tid, Total(cs, t.tid)) /\ t.score \in Nat
           /\ Cardinality(T) = k => /\ WorstOf(T) \in T
                                    /\ WorstOf(T).score \in Nat
                                    /\ \A t \in T : WorstOf(T).score <= t.score
           /\ Cardinality(T) \in Nat /\ Cardinality(T) <= k
  <1>1. Ranking(HitsOf(cs, D)) BY HitsRank
  <1>2. FirstOf(T, HitsOf(cs, D), k) BY <1>1, BestOfIsFirst
  <1>3. T \subseteq HitsOf(cs, D) BY <1>2 DEF FirstOf
  <1>4. Ranking(T) BY <1>1, <1>3, RankingSubset
  <1>5. Cardinality(T) \in Nat BY <1>4, FS_CardinalityType DEF Ranking
  <1>6. Cardinality(T) <= k BY <1>2, <1>5 DEF FirstOf
  <1>7. Cardinality(T) = k => T # {} BY FS_EmptySet
  <1>8. \A t \in T : t.tid \in D /\ t = Hit(t.tid, Total(cs, t.tid)) /\ t.score \in Nat
    BY <1>3, HitFields, HoldersCount DEF HitsOf
  <1> QED BY <1>4, <1>5, <1>6, <1>7, <1>8, WorstIs

-----------------------------------------------------------------------------
(* The cursors of a corpus. *)

LEMMA IdfType ==
    ASSUME NEW c, RankedCorpus(c), NEW term
    PROVE  TermIdf(c, term) \in Nat
  <1> DEFINE df == DocFreq(c, term)
             n == CorpusSize(c)
             f == [s \in DOMAIN c.segs |-> Cardinality(LookupTerm(c.segs[s], term))]
             P == {tid \in DOMAIN c.pending : term \in DOMAIN c.pending[tid].pos}
  <1>1. n \in Nat \ {0}
    <2>1. Cardinality(DOMAIN c.heap) \in Nat BY FS_CardinalityType DEF RankedCorpus
    <2> DEFINE m == Cardinality(DOMAIN c.heap)
    <2>2. IsFiniteSet({1, m})
      <3>1. IsFiniteSet({m}) BY FS_Singleton
      <3>2. IsFiniteSet({m} \cup {1}) BY <3>1, FS_AddElement
      <3>3. {m} \cup {1} = {1, m} OBVIOUS
      <3> QED BY <3>2, <3>3
    <2> HIDE DEF m
    <2>3. {1, m} \subseteq Int /\ {1, m} # {} BY <2>1 DEF m
    <2>4. Max({1, m}) \in {1, m} /\ Max({1, m}) >= 1 BY <2>2, <2>3, LargestOf
    <2>5. n = Max({1, m}) BY DEF CorpusSize, m
    <2> QED BY <2>1, <2>4, <2>5 DEF m
  <1>2. df \in Nat
    <2>1. \A s \in DOMAIN c.segs : f[s] \in Nat
      <3> TAKE s \in DOMAIN c.segs
      <3>1. LookupTerm(c.segs[s], term) \subseteq DOMAIN c.segs[s].docs
        BY DEF LookupTerm, Postings
      <3>2. IsFiniteSet(LookupTerm(c.segs[s], term))
        BY <3>1, FS_Subset DEF RankedCorpus, WellFormed, Documents
      <3> QED BY <3>2, FS_CardinalityType
    <2>2. Counts(f, DOMAIN f) BY <2>1 DEF Counts, RankedCorpus
    <2>3. P \subseteq DOMAIN c.heap BY DEF RankedCorpus
    <2>4. Cardinality(P) \in Nat BY <2>3, FS_Subset, FS_CardinalityType DEF RankedCorpus
    <2>5. df = SumFunction(f) + Cardinality(P) BY DEF DocFreq
    <2> HIDE DEF f, P, df
    <2>6. SumFunction(f) \in Nat BY <2>2, SumType, SumIs
    <2> QED BY <2>4, <2>5, <2>6
  <1> HIDE DEF df, n
  <1>3. Idf(n, df) \in Nat
    <2> DEFINE m == Min({df, n})
    <2>1. {df, n} \subseteq Nat /\ {df, n} # {} BY <1>1, <1>2
    <2>2. m \in Nat /\ m <= n BY <2>1, LeastOf
    <2> HIDE DEF m
    <2>3. IsFiniteSet({1, m})
      <3>1. IsFiniteSet({m}) BY FS_Singleton
      <3>2. IsFiniteSet({m} \cup {1}) BY <3>1, FS_AddElement
      <3>3. {m} \cup {1} = {1, m} OBVIOUS
      <3> QED BY <3>2, <3>3
    <2>4. {1, m} \subseteq Int /\ {1, m} # {} BY <2>2
    <2>5. Max({1, m}) \in {1, m} BY <2>3, <2>4, LargestOf
    <2>6. Max({1, m}) \in Nat /\ Max({1, m}) <= n BY <2>2, <2>5, <1>1
    <2>7. Idf(n, df) = 1 + n - Max({1, m}) BY DEF Idf, m
    <2> QED BY <2>6, <2>7, <1>1
  <1> QED BY <1>3 DEF TermIdf, df, n

\* What is known of a cursor of a corpus.
LEMMA CursorOf ==
    ASSUME NEW c, RankedCorpus(c), NEW terms, NEW k \in DOMAIN Cursors(c, terms)
    PROVE  LET cur == Cursors(c, terms)[k]
               sg == c.segs[SegOf(k)]
               term == terms[WordOf(k)]
           IN  /\ k \in (DOMAIN terms) \X (DOMAIN c.segs)
               /\ k = <<WordOf(k), SegOf(k)>>
               /\ WellFormed(sg) /\ LookupTerm(sg, term) # {}
               /\ GoodCursor(cur)
               /\ cur.list = PostingList(sg, term) /\ cur.tombs = sg.tombs
               /\ cur.idf = TermIdf(c, term)
  <1> DEFINE sg == c.segs[SegOf(k)]
             term == terms[WordOf(k)]
  <1>1. /\ k \in (DOMAIN terms) \X (DOMAIN c.segs) /\ LookupTerm(sg, term) # {}
        /\ Cursors(c, terms)[k] = Cursor(sg, term, TermIdf(c, term))
    BY DEF Cursors, CursorsOf
  <1>2. k = <<WordOf(k), SegOf(k)>> /\ SegOf(k) \in DOMAIN c.segs
    BY <1>1 DEF WordOf, SegOf
  <1>3. WellFormed(sg) BY <1>2 DEF RankedCorpus
  <1>4. TermIdf(c, term) \in Nat BY IdfType
  <1> HIDE DEF sg, term
  <1>5. /\ GoodCursor(Cursor(sg, term, TermIdf(c, term)))
        /\ Cursor(sg, term, TermIdf(c, term)).list = PostingList(sg, term)
    BY <1>1, <1>3, <1>4, CursorIsGood
  <1>6. /\ Cursor(sg, term, TermIdf(c, term)).tombs = sg.tombs
        /\ Cursor(sg, term, TermIdf(c, term)).idf = TermIdf(c, term)
    BY DEF Cursor
  <1> QED BY <1>1, <1>2, <1>3, <1>5, <1>6 DEF sg, term

LEMMA CursorsAreGood ==
    ASSUME NEW c, RankedCorpus(c), NEW terms, Listed(terms)
    PROVE  GoodCursors(Cursors(c, terms))
  <1>1. IsFiniteSet(DOMAIN terms) BY FS_Interval DEF Listed
  <1>2. IsFiniteSet((DOMAIN terms) \X (DOMAIN c.segs)) BY <1>1, FS_Product DEF RankedCorpus
  <1>3. DOMAIN Cursors(c, terms) \subseteq (DOMAIN terms) \X (DOMAIN c.segs)
    BY DEF Cursors, CursorsOf
  <1>4. IsFiniteSet(DOMAIN Cursors(c, terms)) BY <1>2, <1>3, FS_Subset
  <1> QED BY <1>4, CursorOf DEF GoodCursors

\* A document is live in one segment.
LEMMA OneHome ==
    ASSUME NEW c, RankedCorpus(c), NEW s \in DOMAIN c.segs, NEW r \in DOMAIN c.segs,
           NEW tid, tid \in SegTids(c, s), tid \in SegTids(c, r)
    PROVE  s = r
  <1> DEFINE S == {x \in DOMAIN c.segs : tid \in SegTids(c, x)}
             p == IF tid \in DOMAIN c.pending THEN 1 ELSE 0
  <1>1. tid \in DOMAIN c.heap BY DEF RankedCorpus
  <1>2. Cardinality(S) + p = 1 BY <1>1 DEF RankedCorpus, ConsistentCorpus
  <1>3. IsFiniteSet(S) BY FS_Subset DEF RankedCorpus
  <1>4. Cardinality(S) \in Nat BY <1>3, FS_CardinalityType
  <1>5. s \in S /\ r \in S OBVIOUS
  <1> HIDE DEF S
  <1>6. Cardinality(S) <= 1 BY <1>2, <1>4
  <1>7. Cardinality(S) # 0 BY <1>3, <1>5, FS_EmptySet
  <1>8. Cardinality(S) = 1 BY <1>4, <1>6, <1>7
  <1>9. \E x : S = {x} BY <1>3, <1>8, FS_Singleton
  <1> QED BY <1>5, <1>9

\* The cursors that hold a document: one for each word it has of the query.
LEMMA HoldersAre ==
    ASSUME NEW c, RankedCorpus(c), NEW terms, NEW k \in DOMAIN Cursors(c, terms), NEW tid
    PROVE  LiveIn(Cursors(c, terms)[k], tid) <=>
               /\ tid \in SegTids(c, SegOf(k))
               /\ terms[WordOf(k)] \in DOMAIN c.segs[SegOf(k)].docs[tid].pos
  <1> DEFINE cur == Cursors(c, terms)[k]
             sg == c.segs[SegOf(k)]
             term == terms[WordOf(k)]
             list == PostingList(sg, term)
  <1>1. /\ WellFormed(sg) /\ LookupTerm(sg, term) # {}
        /\ cur.list = list /\ cur.tombs = sg.tombs
    BY CursorOf
  <1>2. /\ \A j \in 1 .. Len(list) : list[j].tid \in Postings(sg, term)
        /\ \A x \in Postings(sg, term) : \E j \in 1 .. Len(list) : list[j].tid = x
    BY <1>1, ListIsGood
  <1>3. LiveIn(cur, tid) <=> tid \in Postings(sg, term) /\ tid \notin sg.tombs
    <2> HIDE DEF list, sg, term, cur
    <2> QED BY <1>1, <1>2 DEF LiveIn, Alive
  <1> QED BY <1>3 DEF Postings, SegTids

LEMMA WordHeld ==
    ASSUME NEW c, RankedCorpus(c), NEW terms, NEW s \in DOMAIN c.segs, NEW tid \in SegTids(c, s),
           NEW t \in DOMAIN terms, terms[t] \in DOMAIN c.segs[s].docs[tid].pos
    PROVE  /\ <<t, s>> \in DOMAIN Cursors(c, terms)
           /\ WordOf(<<t, s>>) = t /\ SegOf(<<t, s>>) = s
           /\ <<t, s>> \in Holders(Cursors(c, terms), tid)
           /\ Weights(Cursors(c, terms), tid)[<<t, s>>] =
                Contrib(TermIdf(c, terms[t]), TermFreq(c.segs[s].docs[tid], terms[t]),
                        StoredLen(c.segs[s], c.segs[s].docs[tid]))
  <1> DEFINE sg == c.segs[s]
             term == terms[t]
             cs == Cursors(c, terms)
             k == <<t, s>>
             list == PostingList(sg, term)
  <1>1. WordOf(k) = t /\ SegOf(k) = s BY DEF WordOf, SegOf
  <1>2. WellFormed(sg) BY DEF RankedCorpus
  <1>3. tid \in Postings(sg, term) BY DEF Postings, SegTids
  <1>4. LookupTerm(sg, term) # {} BY <1>2, <1>3, LookupFinds
  <1>5. k \in DOMAIN cs BY <1>1, <1>4 DEF Cursors, CursorsOf
  <1>6. k \in Holders(cs, tid) BY <1>1, <1>5, HoldersAre DEF Holders
  <1>7. GoodCursor(cs[k]) /\ cs[k].list = list /\ cs[k].idf = TermIdf(c, term)
    BY <1>1, <1>5, CursorOf
  <1> DEFINE j == PlaceOf(cs[k], tid)
  <1>8. j \in 1 .. Len(list) /\ list[j].tid = tid
    BY <1>6, <1>7, LivePlace DEF Holders
  <1>9. list[j] = Posting(sg, term, tid) BY <1>2, <1>4, <1>8, ListIsGood
  <1>10. Weights(cs, tid)[k] = Score(cs[k], j) BY <1>5 DEF Weights
  <1> HIDE DEF j, list, sg, term
  <1>11. list[j].tf = TermFreq(sg.docs[tid], term) /\ list[j].dl = StoredLen(sg, sg.docs[tid])
    BY <1>9 DEF Posting
  <1>12. Score(cs[k], j) = Contrib(TermIdf(c, term), TermFreq(sg.docs[tid], term),
                                   StoredLen(sg, sg.docs[tid]))
    BY <1>7, <1>11 DEF Score
  <1> QED BY <1>1, <1>5, <1>6, <1>10, <1>12 DEF sg, term

-----------------------------------------------------------------------------
(* The hits a walk is there for, as documents of its cursors. *)

LEMMA SumIndexed ==
    ASSUME NEW T, IsFiniteSet(T), NEW W \in SUBSET T, NEW F, \A t \in T : F[t] \in Nat,
           NEW s, NEW G, \A t \in W : G[<<t, s>>] = F[t], \A t \in T \ W : F[t] = 0
    PROVE  SumFunctionOnSet(F, T) = SumFunctionOnSet(G, {<<t, s>> : t \in W})
  <1> DEFINE Pairs(X) == {<<t, s>> : t \in X \cap W}
             Q == {X \in SUBSET T : SumFunctionOnSet(F, X) = SumFunctionOnSet(G, Pairs(X))}
  <1>1. {} \in Q
    <2>1. Pairs({}) = {} OBVIOUS
    <2> HIDE DEF Pairs
    <2> QED BY <2>1, SumEmpty
  <1>2. ASSUME NEW X \in SUBSET T, NEW x \in T, X \in Q, x \notin X
        PROVE  X \cup {x} \in Q
    <2>1. IsFiniteSet(X) /\ IsFiniteSet(X \cup {x}) /\ X \cup {x} \in SUBSET T
      BY FS_Subset, FS_AddElement
    <2>2. Counts(F, X) /\ Counts(F, X \cup {x}) BY <2>1 DEF Counts
    <2>3. SumFunctionOnSet(F, X \cup {x}) = SumFunctionOnSet(F, X) + F[x]
      BY <1>2, <2>2, SumAdd
    <2>4. SumFunctionOnSet(F, X) \in Nat BY <2>2, SumType
    <2>5. SumFunctionOnSet(F, X) = SumFunctionOnSet(G, Pairs(X)) BY <1>2
    <2>6. CASE x \in W
      <3>1. Pairs(X \cup {x}) = Pairs(X) \cup {<<x, s>>} BY <2>6
      <3>2. <<x, s>> \notin Pairs(X) BY <1>2
      <3>3. IsFiniteSet(Pairs(X))
        <4> DEFINE f == [t \in X \cap W |-> <<t, s>>]
        <4>1. f \in [X \cap W -> {f[t] : t \in X \cap W}] OBVIOUS
        <4>2. IsFiniteSet(X \cap W) BY <2>1, FS_Subset
        <4>3. Pairs(X) = {f[t] : t \in X \cap W} OBVIOUS
        <4> HIDE DEF f, Pairs
        <4> QED BY <4>1, <4>2, <4>3, ImageFinite
      <3>4. IsFiniteSet(Pairs(X) \cup {<<x, s>>}) BY <3>3, FS_AddElement
      <3>5. \A p \in Pairs(X) \cup {<<x, s>>} : G[p] \in Nat BY <2>6
      <3>6. Counts(G, Pairs(X) \cup {<<x, s>>}) BY <3>4, <3>5 DEF Counts
      <3> HIDE DEF Pairs
      <3>7. SumFunctionOnSet(G, Pairs(X) \cup {<<x, s>>}) = SumFunctionOnSet(G, Pairs(X)) + G[<<x, s>>]
        BY <3>2, <3>6, SumAdd
      <3> QED BY <2>1, <2>3, <2>5, <2>6, <3>1, <3>7
    <2>7. CASE x \notin W
      <3>1. Pairs(X \cup {x}) = Pairs(X) BY <2>7
      <3>2. F[x] = 0 BY <2>7
      <3> HIDE DEF Pairs
      <3>3. SumFunctionOnSet(F, X \cup {x}) = SumFunctionOnSet(F, X) BY <2>3, <2>4, <3>2
      <3> QED BY <2>1, <2>5, <3>1, <3>3
    <2> QED BY <2>6, <2>7
  <1>3. \A X \in SUBSET T, x \in T : X \in Q /\ x \notin X => X \cup {x} \in Q BY <1>2
  <1>4. Pairs(T) = {<<t, s>> : t \in W} OBVIOUS
  <1> HIDE DEF Q, Pairs
  <1>5. T \in Q BY <1>1, <1>3, FiniteInduction
  <1> QED BY <1>4, <1>5 DEF Q

\* The documents a walk is there for.
Rel == UNION {{x \in SegTids(index, s) : Relevant(s, x)} : s \in DOMAIN index.segs}

Setup ==
    /\ want \in Nat \ {0} /\ RankedCorpus(index) /\ Listed(QueryTerms(query))
    /\ curs = Cursors(index, QueryTerms(query))

LEMMA HoldersOfDoc ==
    ASSUME Setup, NEW s \in DOMAIN index.segs, NEW tid \in SegTids(index, s)
    PROVE  Holders(curs, tid) = {<<t, s>> : t \in WordsIn(index.segs[s].docs[tid])}
  <1> DEFINE terms == QueryTerms(query)
             doc == index.segs[s].docs[tid]
             W == WordsIn(doc)
  <1>1. W = {t \in DOMAIN terms : terms[t] \in DOMAIN doc.pos} BY DEF WordsIn, AllWords
  <1>2. RankedCorpus(index) /\ curs = Cursors(index, terms) BY DEF Setup
  <1> HIDE DEF W, terms
  <1>3. ASSUME NEW t \in W PROVE <<t, s>> \in Holders(curs, tid)
    BY <1>1, <1>2, WordHeld
  <1>4. ASSUME NEW k \in Holders(curs, tid) PROVE \E t \in W : k = <<t, s>>
    <2>1. k \in DOMAIN curs /\ LiveIn(curs[k], tid) BY DEF Holders
    <2>2. /\ tid \in SegTids(index, SegOf(k))
          /\ terms[WordOf(k)] \in DOMAIN index.segs[SegOf(k)].docs[tid].pos
      BY <1>2, <2>1, HoldersAre
    <2>3. k \in (DOMAIN terms) \X (DOMAIN index.segs) /\ k = <<WordOf(k), SegOf(k)>>
      BY <1>2, <2>1, CursorOf
    <2>4. WordOf(k) \in DOMAIN terms /\ SegOf(k) \in DOMAIN index.segs
      BY <2>3 DEF WordOf, SegOf
    <2>5. SegOf(k) = s BY <1>2, <2>2, <2>4, OneHome
    <2>6. WordOf(k) \in W BY <1>1, <2>2, <2>4, <2>5
    <2> QED BY <2>3, <2>5, <2>6
  <1> QED BY <1>3, <1>4 DEF W

\* The score of a document is the sum of what its cursors have for it.
LEMMA SegmentHitIs ==
    ASSUME Setup, NEW s \in DOMAIN index.segs, NEW tid \in SegTids(index, s)
    PROVE  SegmentHit(s, tid) = Hit(tid, Total(curs, tid))
  <1> DEFINE terms == QueryTerms(query)
             doc == index.segs[s].docs[tid]
             len == StoredLen(index.segs[s], doc)
             W == WordsIn(doc)
             F == [t \in AllWords |-> TermScore(doc, terms[t], len)]
             G == Weights(curs, tid)
             T == AllWords
  <1>1. W = {t \in T : terms[t] \in DOMAIN doc.pos} BY DEF WordsIn
  <1>2. RankedCorpus(index) /\ curs = Cursors(index, terms) /\ Listed(terms) BY DEF Setup
  <1>3. T = DOMAIN terms BY DEF AllWords
  <1>4. IsFiniteSet(T)
    <2> HIDE DEF terms
    <2> QED BY <1>2, <1>3, FS_Interval DEF Listed
  <1>5. ASSUME NEW t \in W PROVE G[<<t, s>>] = F[t] /\ F[t] \in Nat
    <2>0. t \in T /\ terms[t] \in DOMAIN doc.pos BY <1>1
    <2>1. G[<<t, s>>] = Contrib(TermIdf(index, terms[t]), TermFreq(doc, terms[t]), len)
      BY <1>2, <1>3, <2>0, WordHeld
    <2>2. F[t] = Contrib(TermIdf(index, terms[t]), TermFreq(doc, terms[t]), len)
      BY <2>0 DEF TermScore
    <2>3. <<t, s>> \in Holders(curs, tid) BY <1>2, <1>3, <2>0, WordHeld
    <2>4. GoodCursors(curs) BY <1>2, CursorsAreGood
    <2>5. G[<<t, s>>] \in Nat BY <2>3, <2>4, HoldersCount DEF Counts
    <2> QED BY <2>1, <2>2, <2>5
  <1>6. ASSUME NEW t \in T \ W PROVE F[t] = 0
    <2>1. terms[t] \notin DOMAIN doc.pos BY <1>1
    <2> QED BY <2>1 DEF TermScore
  <1>8. W \in SUBSET T BY <1>1
  <1>9. DOMAIN F = T OBVIOUS
  <1>10. DocScore(doc, len) = SumFunction(F) BY DEF DocScore
  <1>11. Holders(curs, tid) = {<<t, s>> : t \in W} BY HoldersOfDoc
  <1>12. SegmentHit(s, tid) = Hit(tid, DocScore(doc, len)) BY DEF SegmentHit
  <1> HIDE DEF F, W, T, G, doc, len
  <1>7. ASSUME NEW t \in T PROVE F[t] \in Nat
    <2>1. CASE t \in W BY <2>1, <1>5
    <2>2. CASE t \notin W
      <3>1. F[t] = 0 BY <2>2, <1>6
      <3> QED BY <3>1
    <2> QED BY <2>1, <2>2
  <1>13. SumFunctionOnSet(F, T) = SumFunctionOnSet(G, {<<t, s>> : t \in W})
    BY <1>4, <1>5, <1>6, <1>7, <1>8, SumIndexed
  <1>14. DocScore(doc, len) = SumFunctionOnSet(F, T) BY <1>9, <1>10, SumIs
  <1>15. Total(curs, tid) = SumFunctionOnSet(G, {<<t, s>> : t \in W}) BY <1>11 DEF Total, G
  <1> QED BY <1>12, <1>13, <1>14, <1>15

LEMMA RelFacts ==
    ASSUME Setup
    PROVE  /\ GoodCursors(curs)
           /\ Rel \subseteq 0 .. Nowhere - 1 /\ Rel \subseteq Nat /\ IsFiniteSet(Rel)
           /\ WalkHits = HitsOf(curs, Rel)
           /\ \A d \in Rel : /\ Holders(curs, d) # {}
                             /\ walk.how = "driven" => Holders(curs, d) \cap Drivers # {}
  <1>1. GoodCursors(curs) BY CursorsAreGood DEF Setup
  <1>2. \A s \in DOMAIN index.segs : SegTids(index, s) \subseteq DOMAIN index.heap
    BY DEF Setup, RankedCorpus
  <1>3. Rel \subseteq DOMAIN index.heap BY <1>2 DEF Rel
  <1>4. IsFiniteSet(Rel) BY <1>3, FS_Subset DEF Setup, RankedCorpus
  <1>5. \A d \in Rel : d \in 0 .. Nowhere - 1
    <2> SUFFICES ASSUME NEW s \in DOMAIN index.segs, NEW d \in SegTids(index, s)
                 PROVE  d \in 0 .. Nowhere - 1
      BY DEF Rel
    <2>1. WellFormed(index.segs[s]) BY DEF Setup, RankedCorpus
    <2> QED BY <2>1 DEF WellFormed, Documents, SegTids
  <1>6. \A d \in 0 .. Nowhere - 1 : d \in Nat BY RankAssumption
  <1>7. WalkHits = HitsOf(curs, Rel)
    <2>1. \A s \in DOMAIN index.segs : \A x \in SegTids(index, s) :
             SegmentHit(s, x) = Hit(x, Total(curs, x))
      BY SegmentHitIs
    <2>2. WalkHits = UNION {{Hit(x, Total(curs, x)) : x \in {y \in SegTids(index, s) : Relevant(s, y)}} :
                            s \in DOMAIN index.segs}
      <3>1. \A s \in DOMAIN index.segs :
               {SegmentHit(s, x) : x \in {y \in SegTids(index, s) : Relevant(s, y)}}
               = {Hit(x, Total(curs, x)) : x \in {y \in SegTids(index, s) : Relevant(s, y)}}
        BY <2>1
      <3> QED BY <3>1 DEF WalkHits
    <2> QED BY <2>2 DEF HitsOf, Rel
  <1>8. ASSUME NEW d \in Rel
        PROVE  /\ Holders(curs, d) # {}
               /\ walk.how = "driven" => Holders(curs, d) \cap Drivers # {}
    <2>1. PICK s \in DOMAIN index.segs : d \in SegTids(index, s) /\ Relevant(s, d) BY DEF Rel
    <2> DEFINE W == WordsIn(index.segs[s].docs[d])
    <2>2. W # {} /\ (walk.how = "driven" => W \cap walk.drivers # {}) BY <2>1 DEF Relevant
    <2>3. Holders(curs, d) = {<<t, s>> : t \in W} BY <2>1, HoldersOfDoc
    <2>4. Holders(curs, d) \subseteq DOMAIN curs BY DEF Holders
    <2> HIDE DEF W
    <2>5. Holders(curs, d) # {} BY <2>2, <2>3
    <2>6. ASSUME walk.how = "driven" PROVE Holders(curs, d) \cap Drivers # {}
      <3>1. PICK t \in W : t \in walk.drivers BY <2>2, <2>6
      <3>2. <<t, s>> \in Holders(curs, d) /\ WordOf(<<t, s>>) = t BY <2>3 DEF WordOf
      <3>3. <<t, s>> \in Drivers BY <2>4, <3>1, <3>2 DEF Drivers
      <3> QED BY <3>2, <3>3
    <2> QED BY <2>5, <2>6
  <1> QED BY <1>1, <1>3, <1>4, <1>5, <1>6, <1>7, <1>8

-----------------------------------------------------------------------------
(* Walks by document: where the cursors stand. *)

\* Documents below F are behind all cursors, and the cursors of K are past them.
Tracked(cs, pos, K, F) ==
    /\ F \in 0 .. Nowhere
    /\ K \subseteq DOMAIN cs
    /\ \A c \in DOMAIN cs : Settled(cs[c], pos[c])
    /\ \A c \in DOMAIN cs : \A j \in 1 .. pos[c] - 1 :
          Alive(cs[c], j) => cs[c].list[j].tid < F
    /\ \A c \in K : Docid(cs[c], pos[c]) >= F

LEMMA StandsType ==
    ASSUME NEW cs, GoodCursors(cs), NEW pos, NEW K, NEW F, Tracked(cs, pos, K, F),
           NEW c \in DOMAIN cs
    PROVE  /\ GoodCursor(cs[c]) /\ Len(cs[c].list) \in Nat
           /\ pos[c] \in 1 .. Len(cs[c].list) + 1
           /\ Docid(cs[c], pos[c]) \in 0 .. Nowhere
           /\ Docid(cs[c], pos[c]) # Nowhere =>
                 /\ pos[c] \in 1 .. Len(cs[c].list)
                 /\ Docid(cs[c], pos[c]) = cs[c].list[pos[c]].tid
                 /\ LiveIn(cs[c], Docid(cs[c], pos[c]))
                 /\ PlaceOf(cs[c], Docid(cs[c], pos[c])) = pos[c]
  <1>1. GoodCursor(cs[c]) BY DEF GoodCursors
  <1>2. Len(cs[c].list) \in Nat BY <1>1 DEF GoodCursor, GoodList
  <1>3. pos[c] \in 1 .. Len(cs[c].list) + 1 /\ Settled(cs[c], pos[c]) BY DEF Tracked, Settled
  <1> DEFINE d == Docid(cs[c], pos[c])
  <1>4. d \in 0 .. Nowhere BY <1>1, <1>3, DocidType
  <1>5. ASSUME d # Nowhere
        PROVE  /\ pos[c] \in 1 .. Len(cs[c].list) /\ d = cs[c].list[pos[c]].tid
               /\ LiveIn(cs[c], d) /\ PlaceOf(cs[c], d) = pos[c]
    <2>1. pos[c] \in 1 .. Len(cs[c].list)
      <3>1. pos[c] # Len(cs[c].list) + 1 BY <1>1, <1>3, <1>5, DocidType
      <3> QED BY <1>2, <1>3, <3>1
    <2>2. d = cs[c].list[pos[c]].tid BY <1>1, <1>3, <2>1, DocidType
    <2>3. LiveIn(cs[c], d) BY <1>3, <2>1, <2>2 DEF LiveIn, Settled
    <2>4. PlaceOf(cs[c], d) = pos[c] BY <1>1, <2>1, <2>2, PlaceIs
    <2> QED BY <2>1, <2>2, <2>3, <2>4
  <1> QED BY <1>1, <1>2, <1>3, <1>4, <1>5

\* A document not yet met lies at or ahead of a cursor that holds it.
LEMMA Ahead ==
    ASSUME NEW cs, GoodCursors(cs), NEW pos, NEW K, NEW F, Tracked(cs, pos, K, F),
           NEW c \in DOMAIN cs, NEW d \in Nat, F <= d, LiveIn(cs[c], d)
    PROVE  /\ pos[c] <= PlaceOf(cs[c], d)
           /\ pos[c] \in 1 .. Len(cs[c].list)
           /\ Docid(cs[c], pos[c]) <= d
           /\ Docid(cs[c], pos[c]) < Nowhere
           /\ Docid(cs[c], pos[c]) = d => pos[c] = PlaceOf(cs[c], d)
  <1> DEFINE p == pos[c]
             q == PlaceOf(cs[c], d)
             n == Len(cs[c].list)
  <1>1. GoodCursor(cs[c]) /\ n \in Nat /\ p \in 1 .. n + 1 BY StandsType
  <1>2. q \in 1 .. n /\ cs[c].list[q].tid = d /\ Alive(cs[c], q) /\ d \in 0 .. Nowhere - 1
    BY <1>1, LivePlace
  <1>3. Nowhere \in Nat /\ F \in 0 .. Nowhere BY RankAssumption DEF Tracked
  <1>4. p <= q
    <2> SUFFICES ASSUME ~(p <= q) PROVE FALSE OBVIOUS
    <2>1. q \in 1 .. p - 1 BY <1>1, <1>2
    <2>2. cs[c].list[q].tid < F BY <2>1, <1>2 DEF Tracked
    <2> QED BY <2>2, <1>2, <1>3
  <1>5. q \in 1 .. n + 1 BY <1>1, <1>2
  <1>6. Docid(cs[c], q) = d BY <1>1, <1>2, <1>5, DocidType
  <1>7. Docid(cs[c], p) <= d BY <1>1, <1>4, <1>5, <1>6, DocidOrder
  <1>8. p \in 1 .. n BY <1>1, <1>2, <1>4
  <1>9. Docid(cs[c], p) \in 0 .. Nowhere BY StandsType
  <1>10. Docid(cs[c], p) < Nowhere BY <1>2, <1>3, <1>7, <1>9
  <1>11. Docid(cs[c], p) = d => p = q
    <2>1. Docid(cs[c], p) # Nowhere BY <1>3, <1>9, <1>10
    <2> QED BY <2>1, StandsType
  <1> QED BY <1>4, <1>7, <1>8, <1>10, <1>11

\* The cursors that stand on the next document are those that hold it.
LEMMA Here ==
    ASSUME NEW cs, GoodCursors(cs), NEW pos, NEW K, NEW F, Tracked(cs, pos, K, F),
           NEW d \in 0 .. Nowhere - 1, F <= d,
           \A c \in DOMAIN cs : Docid(cs[c], pos[c]) >= d
    PROVE  /\ {c \in DOMAIN cs : Docid(cs[c], pos[c]) = d} = Holders(cs, d)
           /\ \A c \in Holders(cs, d) : pos[c] = PlaceOf(cs[c], d)
  <1>1. Nowhere \in Nat /\ d \in Nat /\ d # Nowhere BY RankAssumption
  <1>2. ASSUME NEW c \in DOMAIN cs, Docid(cs[c], pos[c]) = d PROVE LiveIn(cs[c], d)
    BY <1>1, <1>2, StandsType
  <1>3. ASSUME NEW c \in DOMAIN cs, LiveIn(cs[c], d)
        PROVE  Docid(cs[c], pos[c]) = d /\ pos[c] = PlaceOf(cs[c], d)
    <2>1. /\ Docid(cs[c], pos[c]) <= d
          /\ Docid(cs[c], pos[c]) = d => pos[c] = PlaceOf(cs[c], d)
      BY <1>1, <1>3, Ahead
    <2>2. Docid(cs[c], pos[c]) \in 0 .. Nowhere /\ Docid(cs[c], pos[c]) >= d BY StandsType
    <2> QED BY <1>1, <2>1, <2>2
  <1> QED BY <1>2, <1>3 DEF Holders

LEMMA MovePast ==
    ASSUME NEW cs, GoodCursors(cs), NEW pos, NEW K, NEW F, Tracked(cs, pos, K, F),
           NEW new, NEW L \in SUBSET (DOMAIN cs), NEW G \in 0 .. Nowhere, F <= G,
           \A c \in DOMAIN cs :
              /\ Settled(cs[c], new[c])
              /\ \A j \in pos[c] .. new[c] - 1 : Alive(cs[c], j) => cs[c].list[j].tid < G,
           \A c \in L : Docid(cs[c], new[c]) >= G
    PROVE  Tracked(cs, new, L, G)
  <1> SUFFICES ASSUME NEW c \in DOMAIN cs, NEW j \in 1 .. new[c] - 1, Alive(cs[c], j)
               PROVE  cs[c].list[j].tid < G
    BY DEF Tracked
  <1>1. GoodCursor(cs[c]) /\ Len(cs[c].list) \in Nat /\ pos[c] \in 1 .. Len(cs[c].list) + 1
    BY StandsType
  <1>2. new[c] \in 1 .. Len(cs[c].list) + 1 BY DEF Settled
  <1>3. CASE j < pos[c]
    <2>1. j \in 1 .. pos[c] - 1 BY <1>1, <1>2, <1>3
    <2>2. cs[c].list[j].tid < F BY <2>1 DEF Tracked
    <2>3. j \in 1 .. Len(cs[c].list) BY <1>1, <1>2
    <2>4. cs[c].list[j].tid \in Nat
      BY <1>1, <2>3, RankAssumption DEF GoodCursor, GoodList
    <2> QED BY <2>2, <2>4 DEF Tracked
  <1>4. CASE ~(j < pos[c])
    <2>1. j \in pos[c] .. new[c] - 1 BY <1>1, <1>2, <1>4
    <2> QED BY <2>1
  <1> QED BY <1>3, <1>4

LEMMA SeekMoves ==
    ASSUME GoodCursors(curs), NEW pos, NEW K, NEW F, Tracked(curs, pos, K, F),
           NEW C \in SUBSET (DOMAIN curs), NEW L \in SUBSET (DOMAIN curs),
           NEW d \in 0 .. Nowhere, F <= d,
           \A c \in L : c \in C \/ Docid(curs[c], pos[c]) >= d
    PROVE  /\ Tracked(curs, SeekAll(pos, C, d), L, d)
           /\ \A c \in DOMAIN curs \ C : SeekAll(pos, C, d)[c] = pos[c]
           /\ \A c \in C : Docid(curs[c], SeekAll(pos, C, d)[c]) >= d
  <1> DEFINE new == SeekAll(pos, C, d)
  <1>1. \A c \in DOMAIN curs : new[c] = IF c \in C THEN Seek(curs[c], pos[c], d) ELSE pos[c]
    BY DEF SeekAll
  <1> HIDE DEF new
  <1>2. ASSUME NEW c \in C
        PROVE  /\ Settled(curs[c], new[c]) /\ Docid(curs[c], new[c]) >= d
               /\ \A j \in pos[c] .. new[c] - 1 : Alive(curs[c], j) => curs[c].list[j].tid < d
    <2>1. c \in DOMAIN curs /\ new[c] = Seek(curs[c], pos[c], d) BY <1>1
    <2>2. GoodCursor(curs[c]) /\ pos[c] \in 1 .. Len(curs[c].list) + 1 BY <2>1, StandsType
    <2> QED BY <2>1, <2>2, SeekIs
  <1>3. ASSUME NEW c \in DOMAIN curs \ C
        PROVE  /\ Settled(curs[c], new[c]) /\ new[c] = pos[c]
               /\ \A j \in pos[c] .. new[c] - 1 : Alive(curs[c], j) => curs[c].list[j].tid < d
    <2>1. new[c] = pos[c] BY <1>1
    <2>2. pos[c] \in 1 .. Len(curs[c].list) + 1 /\ Len(curs[c].list) \in Nat BY StandsType
    <2>3. pos[c] .. pos[c] - 1 = {} BY <2>2
    <2> QED BY <2>1, <2>3 DEF Tracked
  <1>4. \A c \in L : Docid(curs[c], new[c]) >= d BY <1>2, <1>3
  <1>5. \A c \in DOMAIN curs :
           /\ Settled(curs[c], new[c])
           /\ \A j \in pos[c] .. new[c] - 1 : Alive(curs[c], j) => curs[c].list[j].tid < d
    BY <1>2, <1>3
  <1>6. Tracked(curs, new, L, d) BY <1>4, <1>5, MovePast
  <1> QED BY <1>2, <1>3, <1>6 DEF new

LEMMA AdvanceMoves ==
    ASSUME GoodCursors(curs), NEW pos, NEW K, NEW d \in 0 .. Nowhere - 1, Tracked(curs, pos, K, d),
           NEW C, C \subseteq On(pos, d), NEW L \in SUBSET K,
           \A c \in L : c \in C \/ Docid(curs[c], pos[c]) # d
    PROVE  Tracked(curs, Advanced(pos, C), L, d + 1)
  <1> DEFINE new == Advanced(pos, C)
  <1>0. Nowhere \in Nat /\ d \in Nat /\ d + 1 \in 0 .. Nowhere /\ d <= d + 1 /\ d # Nowhere
    BY RankAssumption
  <1>1. \A c \in DOMAIN curs : new[c] = IF c \in C THEN Settle(curs[c], pos[c] + 1) ELSE pos[c]
    BY DEF Advanced
  <1> HIDE DEF new
  <1>2. ASSUME NEW c \in C
        PROVE  /\ Settled(curs[c], new[c]) /\ Docid(curs[c], new[c]) >= d + 1
               /\ \A j \in pos[c] .. new[c] - 1 : Alive(curs[c], j) => curs[c].list[j].tid < d + 1
    <2> DEFINE cur == curs[c]
               p == pos[c]
               n == Len(cur.list)
               q == new[c]
    <2>1. c \in DOMAIN curs /\ q = Settle(cur, p + 1) /\ Docid(cur, p) = d
      BY <1>1, <1>2 DEF On, Id
    <2>2. GoodCursor(cur) /\ n \in Nat /\ p \in 1 .. n /\ cur.list[p].tid = d
      BY <1>0, <2>1, StandsType
    <2>3. p + 1 \in 1 .. n + 1 BY <2>2
    <2> HIDE DEF cur, n, p, q
    <2>4. /\ q \in p + 1 .. n + 1 /\ Settled(cur, q)
          /\ \A j \in p + 1 .. q - 1 : ~Alive(cur, j)
          /\ Docid(cur, p + 1) <= Docid(cur, q) /\ q \in 1 .. n + 1
      BY <2>1, <2>2, <2>3, SettleIs DEF n
    <2>5. Docid(cur, p + 1) >= d + 1
      <3>1. CASE p + 1 <= n
        <4>1. p + 1 \in 1 .. n /\ p < p + 1 BY <2>2, <3>1
        <4>2. cur.list[p].tid < cur.list[p + 1].tid BY <2>2, <4>1 DEF GoodCursor, GoodList, n
        <4>3. Docid(cur, p + 1) = cur.list[p + 1].tid BY <2>2, <2>3, <3>1, DocidType DEF n
        <4>4. Docid(cur, p + 1) \in 0 .. Nowhere BY <2>2, <2>3, DocidType DEF n
        <4> QED BY <4>2, <4>3, <4>4, <2>2, <1>0
      <3>2. CASE ~(p + 1 <= n)
        <4>1. p + 1 = n + 1 BY <2>2, <3>2
        <4>2. Docid(cur, p + 1) = Nowhere BY <2>2, <2>3, <4>1, DocidType DEF n
        <4> QED BY <4>2, <1>0
      <3> QED BY <3>1, <3>2
    <2>6. Docid(cur, q) \in 0 .. Nowhere /\ Docid(cur, p + 1) \in 0 .. Nowhere
      BY <2>2, <2>3, <2>4, DocidType DEF n
    <2>7. Docid(cur, q) >= d + 1 BY <2>4, <2>5, <2>6, <1>0
    <2>8. ASSUME NEW j \in p .. q - 1, Alive(cur, j) PROVE cur.list[j].tid < d + 1
      <3>1. j \notin p + 1 .. q - 1 BY <2>4, <2>8
      <3>2. j = p BY <3>1, <2>2, <2>4
      <3> QED BY <3>2, <2>2, <1>0
    <2> QED BY <2>4, <2>7, <2>8 DEF cur, p, q
  <1>3. ASSUME NEW c \in DOMAIN curs \ C
        PROVE  /\ Settled(curs[c], new[c]) /\ new[c] = pos[c]
               /\ \A j \in pos[c] .. new[c] - 1 : Alive(curs[c], j) => curs[c].list[j].tid < d + 1
    <2>1. new[c] = pos[c] BY <1>1
    <2>2. pos[c] \in 1 .. Len(curs[c].list) + 1 /\ Len(curs[c].list) \in Nat BY StandsType
    <2>3. pos[c] .. pos[c] - 1 = {} BY <2>2
    <2> QED BY <2>1, <2>3 DEF Tracked
  <1>4. ASSUME NEW c \in L PROVE Docid(curs[c], new[c]) >= d + 1
    <2>1. CASE c \in C BY <2>1, <1>2
    <2>2. CASE c \notin C
      <3>1. c \in DOMAIN curs /\ Docid(curs[c], pos[c]) >= d /\ Docid(curs[c], pos[c]) # d
        BY <2>2 DEF Tracked
      <3>2. Docid(curs[c], pos[c]) \in 0 .. Nowhere BY <3>1, StandsType
      <3>3. Docid(curs[c], pos[c]) >= d + 1 BY <3>1, <3>2, <1>0
      <3>4. new[c] = pos[c] BY <2>2, <3>1, <1>3
      <3> QED BY <3>3, <3>4
    <2> QED BY <2>1, <2>2
  <1>5. \A c \in DOMAIN curs :
           /\ Settled(curs[c], new[c])
           /\ \A j \in pos[c] .. new[c] - 1 : Alive(curs[c], j) => curs[c].list[j].tid < d + 1
    BY <1>2, <1>3
  <1>6. L \in SUBSET (DOMAIN curs) BY DEF Tracked
  <1> QED BY <1>0, <1>4, <1>5, <1>6, MovePast DEF new

-----------------------------------------------------------------------------
(* Walks by document: the top after the documents below F. *)

Met(F) == {d \in Rel : d < F}
TopBelow(F) == top = BestOf(HitsOf(curs, Met(F)), want)

LEMMA ThresholdIs ==
    ASSUME Setup, NEW D \in SUBSET Rel, top = BestOf(HitsOf(curs, D), want)
    PROVE  /\ Threshold \in Nat
           /\ \A t \in top : t.tid \in D /\ t.score \in Nat
           /\ Full => top # {} /\ \A t \in top : Threshold <= t.score
  <1>1. GoodCursors(curs) /\ D \in SUBSET Nat /\ IsFiniteSet(D) BY RelFacts, FS_Subset
  <1>2. want \in Nat \ {0} BY DEF Setup
  <1> DEFINE T == top
  <1>3. T = BestOf(HitsOf(curs, D), want) OBVIOUS
  <1>4. Full <=> Cardinality(T) = want BY DEF Full
  <1>5. Threshold = IF Full THEN WorstOf(T).score ELSE 0 BY DEF Threshold
  <1> HIDE DEF T
  <1>6. /\ \A t \in T : t.tid \in D /\ t.score \in Nat
        /\ Cardinality(T) = want => /\ WorstOf(T) \in T
                                    /\ WorstOf(T).score \in Nat
                                    /\ \A t \in T : WorstOf(T).score <= t.score
    BY <1>1, <1>2, <1>3, TopMembers
  <1> QED BY <1>4, <1>5, <1>6 DEF T

\* Documents no better than the k-th hit change nothing.
LEMMA TopKeeps ==
    ASSUME Setup, NEW D, NEW E, D \subseteq E, E \subseteq Rel,
           top = BestOf(HitsOf(curs, D), want), Shadowed(curs, E \ D, want, top)
    PROVE  top = BestOf(HitsOf(curs, E), want)
  <1>1. GoodCursors(curs) /\ Rel \subseteq Nat /\ IsFiniteSet(Rel) /\ want \in Nat \ {0}
    BY RelFacts DEF Setup
  <1>2. E \subseteq Nat /\ IsFiniteSet(E) BY <1>1, FS_Subset
  <1> QED BY <1>1, <1>2, TopIgnores

\* Documents that cannot beat the k-th hit are as good as met.
LEMMA SkipRange ==
    ASSUME Setup, NEW F \in Nat, NEW G \in Nat, F <= G, TopBelow(F),
           \A d \in Rel : F <= d /\ d < G => Full /\ Total(curs, d) <= Threshold
    PROVE  TopBelow(G)
  <1>1. /\ GoodCursors(curs) /\ Rel \subseteq Nat /\ IsFiniteSet(Rel)
    BY RelFacts
  <1>2. Met(F) \cup Met(G) = Met(G) /\ Met(F) \subseteq Rel /\ Met(G) \subseteq Rel
    <2>1. \A e \in Nat : e < F => e < G OBVIOUS
    <2> QED BY <1>1, <2>1 DEF Met
  <1>3. /\ Threshold \in Nat
        /\ \A t \in top : t.tid \in Met(F) /\ t.score \in Nat
        /\ Full => top # {} /\ \A t \in top : Threshold <= t.score
    BY <1>2, ThresholdIs DEF TopBelow
  <1>4. ASSUME NEW e \in Met(G), e \notin Met(F)
        PROVE  Cardinality(top) = want /\ \A t \in top : Worse(Hit(e, Total(curs, e)), t)
    <2>1. e \in Rel /\ e < G /\ F <= e /\ e \in Nat BY <1>1, <1>4 DEF Met
    <2>2. Full /\ Total(curs, e) <= Threshold BY <2>1
    <2>3. Total(curs, e) \in Nat BY <1>1, HoldersCount
    <2>4. ASSUME NEW t \in top PROVE Worse(Hit(e, Total(curs, e)), t)
      <3>1. t.tid \in Nat /\ t.tid < F BY <1>1, <1>2, <1>3 DEF Met
      <3>2. Hit(e, Total(curs, e)).tid = e /\ Hit(e, Total(curs, e)).score = Total(curs, e)
        BY HitFields
      <3>3. Total(curs, e) <= t.score /\ t.score \in Nat BY <1>3, <2>2, <2>3
      <3>4. e > t.tid BY <2>1, <3>1
      <3>5. Total(curs, e) < t.score \/ Total(curs, e) = t.score BY <3>3, <2>3
      <3> QED BY <3>2, <3>4, <3>5 DEF Worse
    <2> QED BY <2>2, <2>4 DEF Full
  <1>5. Shadowed(curs, Met(G) \ Met(F), want, top)
    BY <1>4 DEF Shadowed
  <1>6. Met(F) \subseteq Met(G) BY <1>2
  <1> QED BY <1>2, <1>5, <1>6, TopKeeps DEF TopBelow

Gates == {"none", "bool", "phrase"}

\* What the gate says of a document is whether the walk is there for it.
LEMMA VerdictIs ==
    ASSUME Setup, walk.how \in {"bmw", "maxscore", "driven"}, walk.gate \in Gates,
           NEW pos, NEW d, On(pos, d) = Holders(curs, d), Holders(curs, d) # {},
           walk.how = "driven" => Holders(curs, d) \cap Drivers # {}
    PROVE  d \in Rel <=> /\ walk.filtered => d \in walk.filter
                         /\ GateVerdict(pos, d).admit \/ GateVerdict(pos, d).unknown
  <1> DEFINE here == On(pos, d)
             WholeSegs == {s \in DOMAIN index.segs :
                         {WordOf(c) : c \in here \cap Group(curs, s)} = AllWords}
             terms == QueryTerms(query)
  <1>1. RankedCorpus(index) /\ curs = Cursors(index, terms) BY DEF Setup
  <1>2. PICK k \in DOMAIN curs : LiveIn(curs[k], d) BY DEF Holders
  <1> DEFINE s == SegOf(k)
             W == WordsIn(index.segs[s].docs[d])
  <1>3. s \in DOMAIN index.segs /\ d \in SegTids(index, s)
    <2> HIDE DEF terms
    <2>1. d \in SegTids(index, SegOf(k)) BY <1>1, <1>2, HoldersAre
    <2>2. k \in (DOMAIN terms) \X (DOMAIN index.segs) BY <1>1, <1>2, CursorOf
    <2> QED BY <2>1, <2>2 DEF SegOf
  <1> HIDE DEF s
  <1>4. here = {<<t, s>> : t \in W} BY <1>3, HoldersOfDoc
  <1>5. here \subseteq DOMAIN curs BY DEF On
  <1>6. W # {} /\ W \subseteq AllWords
    <2>1. W \subseteq AllWords BY DEF WordsIn
    <2> HIDE DEF W, here
    <2> QED BY <2>1, <1>4 DEF here
  <1>7. d \in Rel <=> Relevant(s, d)
    <2>1. \A r \in DOMAIN index.segs : d \in SegTids(index, r) => r = s
      BY <1>1, <1>3, OneHome
    <2> QED BY <1>3, <2>1 DEF Rel
  <1>8. {WordOf(c) : c \in here} = W
    <2> HIDE DEF W, here
    <2>1. \A t \in W : <<t, s>> \in here /\ WordOf(<<t, s>>) = t BY <1>4 DEF WordOf
    <2>2. \A c \in here : WordOf(c) \in W BY <1>4, <2>1
    <2> QED BY <2>1, <2>2
  <1>9. walk.how = "driven" => W \cap walk.drivers # {}
    <2> SUFFICES ASSUME walk.how = "driven" PROVE W \cap walk.drivers # {} OBVIOUS
    <2>1. PICK c \in here : c \in Drivers OBVIOUS
    <2>2. WordOf(c) \in W /\ WordOf(c) \in walk.drivers BY <2>1, <1>8 DEF Drivers
    <2> QED BY <2>2
  <1>10. WholeSegs = IF W = AllWords THEN {s} ELSE {}
    <2>1. here \cap Group(curs, s) = here
      <3> HIDE DEF W, here
      <3> QED BY <1>4, <1>5 DEF Group, SegOf
    <2>2. ASSUME NEW r, r # s PROVE here \cap Group(curs, r) = {}
      <3> HIDE DEF W, here
      <3> QED BY <1>4, <2>2 DEF Group, SegOf
    <2> HIDE DEF W, here
    <2>3. ASSUME NEW r, r # s PROVE {WordOf(c) : c \in here \cap Group(curs, r)} # AllWords
      <3> DEFINE Z == here \cap Group(curs, r)
      <3>1. Z = {} BY <2>2, <2>3
      <3> HIDE DEF Z
      <3>2. {WordOf(c) : c \in Z} = {} BY <3>1
      <3>3. AllWords # {} BY <1>6
      <3> QED BY <3>2, <3>3 DEF Z
    <2>4. {WordOf(c) : c \in here \cap Group(curs, s)} = W BY <1>8, <2>1
    <2> QED BY <1>3, <2>3, <2>4
  <1> HIDE DEF here, W, WholeSegs
  <1>11. CASE walk.gate = "none"
    <2>1. GateVerdict(pos, d).admit = TRUE BY <1>11 DEF GateVerdict
    <2>2. Relevant(s, d) <=> (walk.filtered => d \in walk.filter)
      BY <1>6, <1>9, <1>11 DEF Relevant, W
    <2> QED BY <1>7, <2>1, <2>2
  <1>12. CASE walk.gate = "bool"
    <2>1. /\ GateVerdict(pos, d).admit = BoolAdmits({WordOf(c) : c \in here})
          /\ GateVerdict(pos, d).unknown = FALSE
      BY <1>12 DEF GateVerdict, here
    <2>2. Relevant(s, d) <=> (walk.filtered => d \in walk.filter) /\ BoolAdmits(W)
      BY <1>6, <1>9, <1>12 DEF Relevant, W
    <2> QED BY <1>7, <1>8, <2>1, <2>2
  <1>13. CASE walk.gate = "phrase"
    <2>1. /\ GateVerdict(pos, d).admit = (\E r \in WholeSegs : PhraseVerdict(r, d).admit)
          /\ GateVerdict(pos, d).unknown = (\E r \in WholeSegs : PhraseVerdict(r, d).unknown)
      BY <1>13 DEF GateVerdict, here, WholeSegs
    <2>2. Relevant(s, d) <=> /\ walk.filtered => d \in walk.filter
                             /\ W = AllWords
                             /\ PhraseVerdict(s, d).admit \/ PhraseVerdict(s, d).unknown
      BY <1>6, <1>9, <1>13 DEF Relevant, W
    <2>3. GateVerdict(pos, d).admit \/ GateVerdict(pos, d).unknown <=>
            W = AllWords /\ (PhraseVerdict(s, d).admit \/ PhraseVerdict(s, d).unknown)
      BY <2>1, <1>10
    <2> QED BY <1>7, <2>2, <2>3
  <1> QED BY <1>11, <1>12, <1>13 DEF Gates

LEMMA OfferIs ==
    ASSUME Setup, walk.how \in {"bmw", "maxscore", "driven"}, walk.gate \in Gates,
           NEW pos, NEW d \in Nat, On(pos, d) = Holders(curs, d), Holders(curs, d) # {},
           walk.how = "driven" => Holders(curs, d) \cap Drivers # {},
           \A c \in Holders(curs, d) : pos[c] = PlaceOf(curs[c], d),
           TopBelow(d), ~unknown, Offer(pos, d), ~unknown'
    PROVE  top' = BestOf(HitsOf(curs, Met(d + 1)), want)
  <1> DEFINE score == ScoreOf(pos, On(pos, d))
             verdict == GateVerdict(pos, d)
             enters == /\ ~Full \/ score > Threshold
                       /\ walk.filtered => d \in walk.filter
                       /\ ~unknown
  <1>1. /\ GoodCursors(curs) /\ Rel \subseteq Nat /\ IsFiniteSet(Rel) /\ want \in Nat \ {0}
    BY RelFacts DEF Setup
  <1>2. score = Total(curs, d) /\ score \in Nat
    <2>1. Total(curs, d) \in Nat BY <1>1, HoldersCount
    <2>2. SumFunction([c \in Holders(curs, d) |-> Score(curs[c], pos[c])]) = Total(curs, d)
      BY <1>1, TotalIs
    <2> QED BY <2>1, <2>2 DEF ScoreOf
  <1>3. /\ top' = IF enters /\ verdict.admit THEN Replaced(Hit(d, score)) ELSE top
        /\ unknown' = (unknown \/ (enters /\ verdict.unknown))
    BY DEF Offer
  <1>4. d \in Rel <=> /\ walk.filtered => d \in walk.filter
                      /\ verdict.admit \/ verdict.unknown
    BY VerdictIs
  <1>5. ~Full \/ score > Threshold \/ (Full /\ score <= Threshold)
    <2>1. Threshold \in Nat BY ThresholdIs, <1>1 DEF TopBelow, Met
    <2> QED BY <1>2, <2>1
  <1> HIDE DEF verdict, score
  <1>6. CASE d \notin Rel
    <2>1. Met(d + 1) = Met(d)
      <3>1. \A e \in Nat : e < d + 1 <=> e < d \/ e = d OBVIOUS
      <3> QED BY <1>1, <1>6, <3>1 DEF Met
    <2>2. top' = top BY <1>3, <1>4, <1>6
    <2> QED BY <2>1, <2>2 DEF TopBelow
  <1>7. CASE d \in Rel /\ Full /\ score <= Threshold
    <2>1. d + 1 \in Nat /\ d <= d + 1 /\ (\A e \in Nat : d <= e /\ e < d + 1 => e = d) OBVIOUS
    <2>2. \A e \in Rel : d <= e /\ e < d + 1 => Full /\ Total(curs, e) <= Threshold
      BY <1>1, <1>2, <1>7, <2>1
    <2>3. TopBelow(d + 1) BY <2>1, <2>2, SkipRange
    <2>4. ~enters
      <3>1. Threshold \in Nat BY ThresholdIs, <1>1 DEF TopBelow, Met
      <3> QED BY <1>2, <1>7, <3>1
    <2>5. top' = top BY <1>3, <2>4
    <2> QED BY <2>3, <2>5 DEF TopBelow
  <1>8. CASE d \in Rel /\ (~Full \/ score > Threshold)
    <2>1. enters BY <1>4, <1>8
    <2>2. verdict.admit BY <1>3, <1>4, <1>8, <2>1
    <2>3. top' = Replaced(Hit(d, score)) BY <1>3, <2>1, <2>2
    <2> DEFINE P == HitsOf(curs, Met(d))
               h == Hit(d, score)
               T == top
    <2>4. Met(d + 1) = Met(d) \cup {d}
      <3>1. \A e \in Nat : e < d + 1 <=> e < d \/ e = d OBVIOUS
      <3> QED BY <1>1, <1>8, <3>1 DEF Met
    <2>5. HitsOf(curs, Met(d + 1)) = P \cup {h} BY <1>2, <2>4 DEF HitsOf
    <2>6. Ranking(P \cup {h})
      <3>0. Met(d + 1) \subseteq Rel BY DEF Met
      <3>1. Met(d + 1) \in SUBSET Nat /\ IsFiniteSet(Met(d + 1)) BY <1>1, <3>0, FS_Subset
      <3>2. Ranking(HitsOf(curs, Met(d + 1))) BY <1>1, <3>1, HitsRank
      <3> HIDE DEF P, h
      <3> QED BY <2>5, <3>2
    <2>7. h \notin P
      <3>1. Met(d) \in SUBSET Nat /\ IsFiniteSet(Met(d)) BY <1>1, FS_Subset DEF Met
      <3>2. d \notin Met(d) BY DEF Met
      <3> QED BY <1>1, <1>2, <3>1, <3>2, HitsRank
    <2>8. T = BestOf(P, want) BY DEF TopBelow
    <2>9. Cardinality(T) # want \/ h.score > WorstOf(T).score
      BY <1>8, HitFields DEF Full, Threshold
    <2>10. Replaced(h) = (IF Cardinality(T) = want THEN T \ {WorstOf(T)} ELSE T) \cup {h}
      BY DEF Replaced, Full
    <2> HIDE DEF P, h, T
    <2>11. Replaced(h) = BestOf(P \cup {h}, want)
      BY <1>1, <2>6, <2>7, <2>8, <2>9, <2>10, FirstReplaced
    <2> QED BY <2>3, <2>5, <2>11 DEF h
  <1> QED BY <1>5, <1>6, <1>7, <1>8

-----------------------------------------------------------------------------
(* fts_search_bmw. *)

LEMMA MaxSumBounds ==
    ASSUME GoodCursors(curs), NEW C \in SUBSET (DOMAIN curs)
    PROVE  /\ MaxSum(C) \in Nat
           /\ \A d : Holders(curs, d) \subseteq C => Total(curs, d) <= MaxSum(C)
           /\ \A B \in SUBSET C : MaxSum(B) <= MaxSum(C)
  <1> DEFINE f == [c \in DOMAIN curs |-> curs[c].maxc]
             g(B) == [c \in B |-> curs[c].maxc]
  <1>1. \A c \in DOMAIN curs : f[c] = curs[c].maxc /\ f[c] \in Nat BY DEF GoodCursors, GoodCursor
  <1>2. ASSUME NEW B \in SUBSET (DOMAIN curs)
        PROVE  IsFiniteSet(B) /\ Counts(f, B) /\ MaxSum(B) = SumFunctionOnSet(f, B)
    <2>1. IsFiniteSet(B) BY FS_Subset DEF GoodCursors
    <2>2. \A c \in B : g(B)[c] = f[c] OBVIOUS
    <2>3. DOMAIN g(B) = B OBVIOUS
    <2>4. MaxSum(B) = SumFunction(g(B)) BY DEF MaxSum
    <2> HIDE DEF f, g
    <2>5. Counts(f, B) BY <1>1, <2>1 DEF Counts
    <2>6. Counts(g(B), B) BY <1>1, <2>1, <2>2 DEF Counts
    <2>7. SumFunctionOnSet(g(B), B) = SumFunctionOnSet(f, B) BY <2>2, <2>6, SumSame
    <2>8. SumFunction(g(B)) = SumFunctionOnSet(g(B), B) BY <2>3, SumIs
    <2> QED BY <2>1, <2>4, <2>5, <2>7, <2>8
  <1>3. ASSUME NEW d, Holders(curs, d) \subseteq C
        PROVE  Total(curs, d) <= SumFunctionOnSet(f, C)
    <2>1. \A c \in Holders(curs, d) : Weights(curs, d)[c] <= f[c]
      BY <1>1, LivePlace DEF Holders, Weights, GoodCursors
    <2>2. \A c \in C : f[c] \in Nat BY <1>1
    <2>3. IsFiniteSet(C) BY <1>2
    <2> HIDE DEF f
    <2> QED BY <1>3, <2>1, <2>2, <2>3, TotalBounded
  <1>4. SumFunctionOnSet(f, C) \in Nat
    <2> HIDE DEF f
    <2> QED BY <1>2, SumType
  <1>5. ASSUME NEW B \in SUBSET C PROVE SumFunctionOnSet(f, B) <= SumFunctionOnSet(f, C)
    <2>1. Counts(f, C) BY <1>2
    <2> HIDE DEF f
    <2> QED BY <2>1, SumSubset
  <1>6. \A B \in SUBSET C : MaxSum(B) = SumFunctionOnSet(f, B) BY <1>2
  <1>7. MaxSum(C) = SumFunctionOnSet(f, C) BY <1>2
  <1> HIDE DEF f
  <1> QED BY <1>3, <1>4, <1>5, <1>6, <1>7

\* The documents some cursors stand on.
LEMMA IdsAre ==
    ASSUME GoodCursors(curs), NEW K, NEW F, Tracked(curs, at, K, F),
           NEW C \in SUBSET (DOMAIN curs)
    PROVE  /\ \A c \in C : Id(at, c) \in 0 .. Nowhere /\ (Id(at, c) # Nowhere => Id(at, c) \in Ids(C))
           /\ Ids(C) \subseteq 0 .. Nowhere - 1 /\ Ids(C) \subseteq Nat
           /\ Ids(C) # {} => /\ Min(Ids(C)) \in Ids(C) /\ Min(Ids(C)) \in 0 .. Nowhere - 1
                             /\ \E c \in C : Id(at, c) = Min(Ids(C))
                             /\ \A c \in C : Id(at, c) >= Min(Ids(C))
  <1> DEFINE I == Ids(C)
  <1>0. Nowhere \in Nat BY RankAssumption
  <1>1. \A c \in C : Id(at, c) \in 0 .. Nowhere BY StandsType DEF Id
  <1>2. \A c \in C : Id(at, c) # Nowhere => Id(at, c) \in I BY DEF Ids
  <1>3. \A x \in I : x \in 0 .. Nowhere /\ x # Nowhere /\ \E c \in C : Id(at, c) = x
    BY <1>1 DEF Ids
  <1> HIDE DEF I
  <1>4. \A x \in I : x \in 0 .. Nowhere - 1 /\ x \in Nat BY <1>0, <1>3
  <1>5. I \subseteq 0 .. Nowhere - 1 /\ I \subseteq Nat BY <1>4
  <1>6. ASSUME I # {}
        PROVE  /\ Min(I) \in I /\ Min(I) \in 0 .. Nowhere - 1
               /\ \E c \in C : Id(at, c) = Min(I)
               /\ \A c \in C : Id(at, c) >= Min(I)
    <2>1. Min(I) \in I /\ \A y \in I : Min(I) <= y BY <1>5, <1>6, LeastOf
    <2>2. ASSUME NEW c \in C PROVE Id(at, c) >= Min(I)
      <3>1. Min(I) \in 0 .. Nowhere - 1 BY <2>1, <1>5
      <3>2. Id(at, c) = Nowhere \/ Min(I) <= Id(at, c) BY <1>2, <2>1
      <3>3. Id(at, c) \in 0 .. Nowhere BY <1>1
      <3> HIDE DEF Id
      <3> QED BY <3>1, <3>2, <3>3, <1>0
    <2> QED BY <2>1, <2>2, <1>3, <1>5
  <1> QED BY <1>1, <1>2, <1>5, <1>6 DEF I

LEMMA PivotIs ==
    ASSUME GoodCursors(curs), NEW F, Tracked(curs, at, DOMAIN curs, F), Pivots # {}
    PROVE  /\ Pivot \in Pivots /\ Pivot \in 0 .. Nowhere - 1 /\ Pivot \in Nat /\ F <= Pivot
           /\ \A x \in Pivots : Pivot <= x
           /\ \E c \in Lead : Id(at, c) = Pivot
           /\ Lead \subseteq DOMAIN curs
           /\ \A c \in Lead : Id(at, c) < Nowhere
  <1>1. Ids(DOMAIN curs) \subseteq 0 .. Nowhere - 1 /\ Ids(DOMAIN curs) \subseteq Nat BY IdsAre
  <1>2. Pivots \subseteq Ids(DOMAIN curs) BY DEF Pivots
  <1>3. Pivot \in Pivots /\ \A x \in Pivots : Pivot <= x BY <1>1, <1>2, LeastOf DEF Pivot
  <1>4. Pivot \in 0 .. Nowhere - 1 /\ Pivot \in Nat /\ Nowhere \in Nat
    BY <1>1, <1>2, <1>3, RankAssumption
  <1>5. PICK c \in DOMAIN curs : Id(at, c) = Pivot BY <1>2, <1>3 DEF Ids
  <1>6. F <= Pivot /\ F \in 0 .. Nowhere
    <2>1. Docid(curs[c], at[c]) >= F /\ F \in 0 .. Nowhere BY DEF Tracked
    <2> QED BY <2>1, <1>4, <1>5 DEF Id
  <1>7. c \in Lead BY <1>4, <1>5 DEF Lead, UpTo
  <1>8. \A o \in Lead : o \in DOMAIN curs /\ Id(at, o) <= Pivot BY DEF Lead, UpTo
  <1>9. \A o \in DOMAIN curs : Id(at, o) \in 0 .. Nowhere BY IdsAre
  <1>10. ASSUME NEW o \in Lead PROVE Id(at, o) < Nowhere
    <2>1. Id(at, o) \in 0 .. Nowhere /\ Id(at, o) <= Pivot BY <1>8, <1>9
    <2> HIDE DEF Id
    <2> QED BY <2>1, <1>4
  <1> QED BY <1>3, <1>4, <1>5, <1>6, <1>7, <1>8, <1>10

\* The word-wide bounds rule out the documents before the pivot.
LEMMA BelowPivot ==
    ASSUME Setup, NEW F, Tracked(curs, at, DOMAIN curs, F), TopBelow(F), NEW d \in Rel, F <= d,
           Pivots = {} \/ d < Pivot
    PROVE  Full /\ Total(curs, d) <= Threshold
  <1> DEFINE U == UpTo(d)
             X == {Id(at, c) : c \in U}
             x == Max(X)
  <1>1. GoodCursors(curs) /\ d \in 0 .. Nowhere - 1 /\ d \in Nat /\ Holders(curs, d) # {}
    BY RelFacts
  <1>0. Nowhere \in Nat BY RankAssumption
  <1>2. Holders(curs, d) \subseteq U
    BY <1>1, Ahead DEF Holders, UpTo, Id
  <1>3. U \subseteq DOMAIN curs /\ \A c \in U : Id(at, c) <= d BY DEF UpTo
  <1>4. \A c \in DOMAIN curs : Id(at, c) \in 0 .. Nowhere
                               /\ (Id(at, c) # Nowhere => Id(at, c) \in Ids(DOMAIN curs))
    BY <1>1, IdsAre
  <1>5. IsFiniteSet(X)
    <2> DEFINE f == [c \in U |-> Id(at, c)]
    <2>1. IsFiniteSet(U) BY <1>1, <1>3, FS_Subset DEF GoodCursors
    <2>2. f \in [U -> {f[c] : c \in U}] /\ X = {f[c] : c \in U} OBVIOUS
    <2> HIDE DEF f, U, X
    <2> QED BY <2>1, <2>2, ImageFinite
  <1>6. X # {} BY <1>1, <1>2
  <1>7. \A y \in X : y \in 0 .. Nowhere /\ y \in Int /\ y <= d BY <1>3, <1>4
  <1>8. \A c \in DOMAIN curs : Id(at, c) <= d => Id(at, c) \in X BY DEF UpTo
  <1>9. \A y \in X : \E c \in DOMAIN curs : y = Id(at, c) BY <1>3
  <1> HIDE DEF X
  <1>10. x \in X /\ \A y \in X : x >= y BY <1>5, <1>6, <1>7, LargestOf
  <1>11. x \in 0 .. Nowhere /\ x <= d BY <1>7, <1>10
  <1> HIDE DEF x
  <1>12. UpTo(x) = U
    <2>1. ASSUME NEW c \in DOMAIN curs PROVE Id(at, c) <= x <=> Id(at, c) <= d
      <3>1. Id(at, c) \in 0 .. Nowhere BY <1>4
      <3>2. Id(at, c) <= d => x >= Id(at, c) BY <1>8, <1>10
      <3> HIDE DEF Id
      <3> QED BY <3>1, <3>2, <1>1, <1>11
    <2> QED BY <2>1 DEF UpTo
  <1>13. x \in Ids(DOMAIN curs)
    <2>1. x # Nowhere BY <1>0, <1>1, <1>11
    <2>2. PICK c \in DOMAIN curs : x = Id(at, c) BY <1>9, <1>10
    <2> QED BY <2>1, <2>2, <1>4
  <1>14. x \notin Pivots
    <2> SUFFICES ASSUME x \in Pivots PROVE FALSE OBVIOUS
    <2>1. Pivots # {} OBVIOUS
    <2>2. Pivot <= x /\ Pivot \in Nat BY <1>1, <2>1, PivotIs
    <2>3. d < Pivot BY <2>1
    <2> QED BY <1>1, <1>11, <2>2, <2>3
  <1>15. Full /\ ~(MaxSum(U) > Threshold) BY <1>12, <1>13, <1>14 DEF Pivots
  <1>16. MaxSum(U) \in Nat /\ Total(curs, d) <= MaxSum(U) BY <1>1, <1>2, <1>3, MaxSumBounds
  <1>17. Threshold \in Nat /\ Total(curs, d) \in Nat
    BY <1>1, ThresholdIs, HoldersCount DEF TopBelow, Met
  <1> QED BY <1>15, <1>16, <1>17

-----------------------------------------------------------------------------
(* fts_search_bmw, step by step. *)

\* The block of a cursor, and the postings of it at or ahead of the cursor.
LEMMA InBlock ==
    ASSUME NEW cs, GoodCursors(cs), NEW pos, NEW K, NEW F, Tracked(cs, pos, K, F),
           NEW c \in DOMAIN cs, Docid(cs[c], pos[c]) < Nowhere
    PROVE  LET b == BlockOf(pos[c])
               e == BlockEnd(cs[c].list, b)
               last == cs[c].hdr[b].last
           IN  /\ b \in 1 .. Len(cs[c].hdr) /\ cs[c].bound[b] \in Nat
               /\ e \in pos[c] .. Len(cs[c].list) /\ BlockStart(b) <= pos[c]
               /\ BlockStart(b) \in Nat
               /\ last = cs[c].list[e].tid /\ last \in 0 .. Nowhere - 1
               /\ Docid(cs[c], pos[c]) <= last
               /\ \A d \in Nat : F <= d /\ d <= last /\ LiveIn(cs[c], d) =>
                     Score(cs[c], PlaceOf(cs[c], d)) <= cs[c].bound[b]
  <1> DEFINE cur == cs[c]
             p == pos[c]
             n == Len(cur.list)
             b == BlockOf(p)
             e == BlockEnd(cur.list, b)
             last == cur.hdr[b].last
  <1>1. Nowhere \in Nat BY RankAssumption
  <1>2. /\ GoodCursor(cur) /\ n \in Nat /\ p \in 1 .. n /\ Docid(cur, p) = cur.list[p].tid
    BY StandsType, <1>1
  <1>3. GoodList(cur.list) /\ Len(cur.hdr) = NumBlocks(n) BY <1>2 DEF GoodCursor
  <1>4. b \in 1 .. NumBlocks(n) /\ p \in BlockStart(b) .. e BY <1>2, <1>3, BlockHas
  <1>5. BlockStart(b) \in 1 .. n /\ e \in BlockStart(b) .. n BY <1>3, <1>4, BlockSpan
  <1>6. /\ last = cur.list[e].tid /\ cur.bound[b] \in Nat
        /\ \A j \in BlockStart(b) .. e : Score(cur, j) <= cur.bound[b]
    BY <1>2, <1>3, <1>4 DEF GoodCursor
  <1>7. e \in 1 .. n /\ p <= e BY <1>2, <1>4, <1>5
  <1>8. last \in 0 .. Nowhere - 1 BY <1>3, <1>6, <1>7 DEF GoodList
  <1>9. Docid(cur, p) <= last
    <2>1. p = e \/ cur.list[p].tid < cur.list[e].tid BY <1>2, <1>3, <1>7 DEF GoodList
    <2>2. cur.list[p].tid \in 0 .. Nowhere - 1 BY <1>2, <1>3 DEF GoodList
    <2> QED BY <1>1, <1>2, <1>6, <1>8, <2>1, <2>2
  <1>10. ASSUME NEW d \in Nat, F <= d, d <= last, LiveIn(cur, d)
         PROVE  Score(cur, PlaceOf(cur, d)) <= cur.bound[b]
    <2> DEFINE q == PlaceOf(cur, d)
    <2>1. p <= q BY <1>10, Ahead
    <2>2. q \in 1 .. n /\ cur.list[q].tid = d BY <1>2, <1>10, LivePlace
    <2> HIDE DEF q
    <2>3. q <= e
      <3> SUFFICES ASSUME ~(q <= e) PROVE FALSE OBVIOUS
      <3>1. e < q BY <1>7, <2>2, <1>2
      <3>2. cur.list[e].tid < cur.list[q].tid BY <3>1, <2>2, <1>3, <1>7 DEF GoodList
      <3> QED BY <3>2, <2>2, <1>6, <1>8, <1>10
    <2>4. q \in BlockStart(b) .. e BY <1>4, <1>5, <2>1, <2>2, <2>3, <1>2
    <2> QED BY <2>4, <1>6 DEF q
  <1> QED BY <1>2, <1>3, <1>4, <1>5, <1>6, <1>7, <1>8, <1>9, <1>10

\* What the block bounds rule out.
LEMMA BmwWeak ==
    ASSUME Setup, NEW F, Tracked(curs, at, DOMAIN curs, F), TopBelow(F), Pivots # {}, Hopeless,
           NEW G \in 0 .. Nowhere,
           \A c \in Lead : G <= LastOf(c) + 1,
           \A c \in DOMAIN curs \ Lead : G <= Id(at, c)
    PROVE  (TopBelow(G) /\ F <= G) \/ G < F
  <1>1. /\ GoodCursors(curs) /\ Rel \subseteq 0 .. Nowhere - 1 /\ Rel \subseteq Nat
        /\ F \in 0 .. Nowhere /\ Nowhere \in Nat
    BY RelFacts, RankAssumption DEF Tracked
  <1>2. Lead \subseteq DOMAIN curs /\ \A c \in Lead : Id(at, c) < Nowhere BY <1>1, PivotIs
  <1> SUFFICES ASSUME F <= G PROVE TopBelow(G) BY <1>1
  <1> DEFINE bnd == [c \in Lead |-> curs[c].bound[CurBlock(c)]]
  <1>3. \A c \in Lead : bnd[c] = curs[c].bound[CurBlock(c)] /\ bnd[c] \in Nat
    BY <1>1, <1>2, InBlock DEF Id, CurBlock
  <1>4. IsFiniteSet(Lead) BY <1>1, <1>2, FS_Subset DEF GoodCursors
  <1>5. Full /\ SumFunction(bnd) <= Threshold BY DEF Hopeless
  <1>6. DOMAIN bnd = Lead OBVIOUS
  <1> HIDE DEF bnd
  <1>7. SumFunction(bnd) = SumFunctionOnSet(bnd, Lead) BY <1>6, SumIs
  <1>8. ASSUME NEW d \in Rel, F <= d, d < G PROVE Full /\ Total(curs, d) <= Threshold
    <2>1. Holders(curs, d) \subseteq Lead
      <3> SUFFICES ASSUME NEW c \in Holders(curs, d), c \notin Lead PROVE FALSE OBVIOUS
      <3>1. c \in DOMAIN curs /\ LiveIn(curs[c], d) BY DEF Holders
      <3>2. Docid(curs[c], at[c]) <= d BY <3>1, <1>1, <1>8, Ahead
      <3>3. G <= Docid(curs[c], at[c]) BY <3>1 DEF Id
      <3>4. Docid(curs[c], at[c]) \in 0 .. Nowhere BY <3>1, <1>1, StandsType
      <3> QED BY <3>2, <3>3, <3>4, <1>1, <1>8
    <2>2. ASSUME NEW c \in Holders(curs, d) PROVE Weights(curs, d)[c] <= bnd[c]
      <3>1. c \in DOMAIN curs /\ LiveIn(curs[c], d) /\ c \in Lead BY <2>1 DEF Holders
      <3>2. Docid(curs[c], at[c]) < Nowhere BY <3>1, <1>2 DEF Id
      <3>3. LastOf(c) \in 0 .. Nowhere - 1 BY <3>1, <3>2, <1>1, InBlock DEF LastOf, CurBlock
      <3>4. G <= LastOf(c) + 1 BY <3>1
      <3>5. d \in Nat /\ d <= LastOf(c) BY <1>1, <1>8, <3>3, <3>4
      <3>6. Score(curs[c], PlaceOf(curs[c], d)) <= curs[c].bound[CurBlock(c)]
        BY <3>1, <3>2, <3>5, <1>1, <1>8, InBlock DEF LastOf, CurBlock
      <3> QED BY <3>1, <3>6, <1>3 DEF Weights
    <2>3. \A c \in Lead : bnd[c] \in Nat BY <1>3
    <2>4. Total(curs, d) <= SumFunctionOnSet(bnd, Lead) /\ SumFunctionOnSet(bnd, Lead) \in Nat
      BY <1>1, <1>4, <2>1, <2>2, <2>3, TotalBounded
    <2>5. Threshold \in Nat /\ Total(curs, d) \in Nat
      BY <1>1, ThresholdIs, HoldersCount DEF TopBelow, Met
    <2> QED BY <1>5, <1>7, <2>4, <2>5
  <1>9. F \in Nat /\ G \in Nat BY <1>1
  <1> QED BY <1>8, <1>9, SkipRange

Walked(K, new, best, F) ==
    Tracked(curs, new, K, F) /\ best = BestOf(HitsOf(curs, Met(F)), want)

LEMMA BmwSkips ==
    ASSUME Setup, NEW F, Walked(DOMAIN curs, at, top, F), BmwSkipBlock
    PROVE  \E G : Walked(DOMAIN curs, at', top', G)
  <1>1. /\ GoodCursors(curs) /\ Tracked(curs, at, DOMAIN curs, F) /\ TopBelow(F)
        /\ F \in 0 .. Nowhere /\ Nowhere \in Nat
    BY RelFacts, RankAssumption DEF Walked, TopBelow, Tracked
  <1>2. Pivots # {} /\ Hopeless /\ Isolated /\ top' = top BY DEF BmwSkipBlock
  <1>3. PICK c \in DOMAIN curs : Lead = {c} /\ \A o \in DOMAIN curs \ {c} : Id(at, o) > LastOf(c)
    BY <1>2 DEF Isolated
  <1> DEFINE cur == curs[c]
             n == Len(cur.list)
             e == BlockEnd(cur.list, CurBlock(c))
             new == [o \in DOMAIN curs |->
                       IF o \in Lead THEN Settle(curs[o], BlockEnd(curs[o].list, CurBlock(o)) + 1)
                       ELSE at[o]]
             G == LastOf(c) + 1
  <1>4. at' = new BY DEF BmwSkipBlock
  <1>5. new[c] = Settle(cur, e + 1) /\ \A o \in DOMAIN curs \ {c} : new[o] = at[o] BY <1>3
  <1>6. Docid(cur, at[c]) < Nowhere BY <1>1, <1>2, <1>3, PivotIs DEF Id
  <1>7. /\ e \in at[c] .. n /\ LastOf(c) = cur.list[e].tid /\ LastOf(c) \in 0 .. Nowhere - 1
        /\ Docid(cur, at[c]) <= LastOf(c)
    BY <1>1, <1>6, InBlock DEF LastOf, CurBlock
  <1>8. GoodCursor(cur) /\ n \in Nat /\ at[c] \in 1 .. n + 1 /\ GoodList(cur.list)
    BY <1>1, StandsType DEF GoodCursor
  <1> HIDE DEF new, e, n
  <1>9. G \in 0 .. Nowhere /\ F <= G
    <2>1. Docid(cur, at[c]) >= F BY <1>1 DEF Tracked
    <2>2. Docid(cur, at[c]) \in 0 .. Nowhere BY <1>1, StandsType
    <2> HIDE DEF cur
    <2> QED BY <1>1, <1>7, <2>1, <2>2
  <1>10. \A o \in DOMAIN curs \ {c} : G <= Id(at, o)
    <2> TAKE o \in DOMAIN curs \ {c}
    <2>1. Id(at, o) > LastOf(c) BY <1>3
    <2>2. Id(at, o) \in 0 .. Nowhere BY <1>1, IdsAre
    <2> HIDE DEF Id
    <2> QED BY <2>1, <2>2, <1>7
  <1>11. TopBelow(G)
    <2>1. \A o \in Lead : G <= LastOf(o) + 1 BY <1>3, <1>7
    <2>2. (TopBelow(G) /\ F <= G) \/ G < F BY <1>1, <1>2, <1>3, <1>9, <1>10, <2>1, BmwWeak
    <2> QED BY <2>2, <1>1, <1>9
  <1>12. /\ Settled(cur, new[c]) /\ Docid(cur, new[c]) >= G
         /\ \A j \in at[c] .. new[c] - 1 : Alive(cur, j) => cur.list[j].tid < G
    <2>1. e + 1 \in 1 .. n + 1 /\ e \in 1 .. n BY <1>7, <1>8
    <2>2. /\ new[c] \in e + 1 .. n + 1 /\ new[c] \in 1 .. n + 1 /\ Settled(cur, new[c])
          /\ \A j \in e + 1 .. new[c] - 1 : ~Alive(cur, j)
          /\ Docid(cur, e + 1) <= Docid(cur, new[c])
      BY <1>5, <1>8, <2>1, SettleIs DEF n
    <2>3. Docid(cur, e + 1) >= G
      <3>1. CASE e + 1 <= n
        <4>1. cur.list[e].tid < cur.list[e + 1].tid BY <1>8, <2>1, <3>1 DEF GoodList, n
        <4>2. Docid(cur, e + 1) = cur.list[e + 1].tid /\ Docid(cur, e + 1) \in 0 .. Nowhere
          BY <1>8, <2>1, <3>1, DocidType DEF n
        <4> QED BY <4>1, <4>2, <1>7
      <3>2. CASE ~(e + 1 <= n)
        <4>1. e + 1 = n + 1 BY <1>8, <2>1, <3>2
        <4>2. Docid(cur, e + 1) = Nowhere BY <1>8, <2>1, <4>1, DocidType DEF n
        <4> QED BY <4>2, <1>1, <1>9
      <3> QED BY <3>1, <3>2
    <2>4. Docid(cur, e + 1) \in 0 .. Nowhere /\ Docid(cur, new[c]) \in 0 .. Nowhere
      BY <1>8, <2>1, <2>2, DocidType DEF n
    <2>5. Docid(cur, new[c]) >= G BY <1>9, <2>2, <2>3, <2>4
    <2>6. ASSUME NEW j \in at[c] .. new[c] - 1, Alive(cur, j) PROVE cur.list[j].tid < G
      <3>1. j \notin e + 1 .. new[c] - 1 BY <2>2, <2>6
      <3>2. j \in 1 .. n /\ j <= e BY <3>1, <1>7, <1>8, <2>2
      <3>3. j = e \/ cur.list[j].tid < cur.list[e].tid BY <3>2, <2>1, <1>8 DEF GoodList, n
      <3>4. cur.list[j].tid \in 0 .. Nowhere - 1 BY <3>2, <1>8 DEF GoodList, n
      <3> QED BY <3>3, <3>4, <1>1, <1>7
    <2> QED BY <2>2, <2>5, <2>6
  <1>13. ASSUME NEW o \in DOMAIN curs
         PROVE  /\ Settled(curs[o], new[o]) /\ Docid(curs[o], new[o]) >= G
                /\ \A j \in at[o] .. new[o] - 1 : Alive(curs[o], j) => curs[o].list[j].tid < G
    <2>1. CASE o = c BY <2>1, <1>12
    <2>2. CASE o # c
      <3>1. new[o] = at[o] BY <2>2, <1>5
      <3>2. at[o] \in 1 .. Len(curs[o].list) + 1 /\ Len(curs[o].list) \in Nat BY <1>1, StandsType
      <3>3. at[o] .. at[o] - 1 = {} BY <3>2
      <3>4. Id(at, o) \in 0 .. Nowhere /\ G <= Id(at, o) BY <2>2, <1>1, <1>10, IdsAre
      <3>5. Docid(curs[o], at[o]) >= G BY <3>4, <1>9 DEF Id
      <3> QED BY <3>1, <3>3, <3>5, <1>1 DEF Tracked
    <2> QED BY <2>1, <2>2
  <1> HIDE DEF G
  <1>14. Tracked(curs, new, DOMAIN curs, G) BY <1>1, <1>9, <1>13, MovePast
  <1> QED BY <1>2, <1>4, <1>11, <1>14 DEF Walked, TopBelow

LEMMA BmwJumps ==
    ASSUME Setup, NEW F, Walked(DOMAIN curs, at, top, F), BmwJump
    PROVE  \E G : Walked(DOMAIN curs, at', top', G)
  <1>1. /\ GoodCursors(curs) /\ Tracked(curs, at, DOMAIN curs, F) /\ TopBelow(F)
        /\ F \in 0 .. Nowhere /\ Nowhere \in Nat
    BY RelFacts, RankAssumption DEF Walked, TopBelow, Tracked
  <1>2. Pivots # {} /\ Hopeless /\ top' = top /\ at' = SeekAll(at, Lead, SkipTo) BY DEF BmwJump
  <1>3. /\ Lead \subseteq DOMAIN curs /\ Lead # {} /\ \A c \in Lead : Id(at, c) < Nowhere
    BY <1>1, <1>2, PivotIs
  <1> DEFINE S == {LastOf(c) + 1 : c \in Lead} \cup {Id(at, c) : c \in DOMAIN curs \ Lead}
             G == SkipTo
  <1>4. \A c \in Lead : LastOf(c) \in 0 .. Nowhere - 1 /\ Id(at, c) <= LastOf(c)
    BY <1>1, <1>3, InBlock DEF LastOf, CurBlock, Id
  <1>5. \A c \in DOMAIN curs : Id(at, c) \in 0 .. Nowhere /\ F <= Id(at, c)
    <2>1. \A c \in DOMAIN curs : Id(at, c) \in 0 .. Nowhere BY <1>1, IdsAre
    <2>2. \A c \in DOMAIN curs : Id(at, c) >= F BY <1>1 DEF Tracked, Id
    <2> QED BY <2>1, <2>2, <1>1
  <1>6. \A y \in S : y \in 0 .. Nowhere /\ F <= y
    <2>1. ASSUME NEW c \in Lead PROVE LastOf(c) + 1 \in 0 .. Nowhere /\ F <= LastOf(c) + 1
      <3>1. Id(at, c) \in 0 .. Nowhere /\ F <= Id(at, c) BY <1>3, <1>5
      <3>2. LastOf(c) \in 0 .. Nowhere - 1 /\ Id(at, c) <= LastOf(c) BY <1>4
      <3> HIDE DEF LastOf, Id
      <3> QED BY <3>1, <3>2, <1>1
    <2> QED BY <2>1, <1>5
  <1>7. S \subseteq Nat /\ S # {}
    <2>1. S # {} BY <1>3
    <2> HIDE DEF S
    <2> QED BY <2>1, <1>6
  <1>8. \A c \in Lead : LastOf(c) + 1 \in S OBVIOUS
  <1>9. \A c \in DOMAIN curs \ Lead : Id(at, c) \in S OBVIOUS
  <1>10. G = Min(S) BY DEF SkipTo
  <1> HIDE DEF S, G
  <1>11. G \in S /\ \A y \in S : G <= y BY <1>7, <1>10, LeastOf
  <1>12. G \in 0 .. Nowhere /\ F <= G BY <1>6, <1>11
  <1>13. TopBelow(G)
    <2>1. \A c \in Lead : G <= LastOf(c) + 1 BY <1>8, <1>11
    <2>2. \A c \in DOMAIN curs \ Lead : G <= Id(at, c) BY <1>9, <1>11
    <2>3. (TopBelow(G) /\ F <= G) \/ G < F BY <1>1, <1>2, <1>12, <2>1, <2>2, BmwWeak
    <2> QED BY <2>3, <1>1, <1>12
  <1>14. Tracked(curs, at', DOMAIN curs, G)
    <2>1. ASSUME NEW c \in DOMAIN curs, c \notin Lead PROVE Docid(curs[c], at[c]) >= G
      <3>1. G <= Id(at, c) /\ Id(at, c) \in 0 .. Nowhere BY <2>1, <1>5, <1>9, <1>11
      <3> QED BY <3>1, <1>12 DEF Id
    <2>2. \A c \in DOMAIN curs : c \in Lead \/ Docid(curs[c], at[c]) >= G BY <2>1
    <2>3. DOMAIN curs \in SUBSET (DOMAIN curs) /\ Lead \in SUBSET (DOMAIN curs) BY <1>3
    <2>4. Tracked(curs, SeekAll(at, Lead, G), DOMAIN curs, G)
      BY <1>1, <1>12, <2>2, <2>3, SeekMoves
    <2> QED BY <2>4, <1>2 DEF G
  <1> QED BY <1>2, <1>13, <1>14 DEF Walked, TopBelow

LEMMA BeforePivot ==
    ASSUME Setup, NEW F, Walked(DOMAIN curs, at, top, F), Pivots # {}
    PROVE  TopBelow(Pivot)
  <1>1. /\ GoodCursors(curs) /\ Tracked(curs, at, DOMAIN curs, F) /\ TopBelow(F)
        /\ F \in 0 .. Nowhere /\ Nowhere \in Nat
    BY RelFacts, RankAssumption DEF Walked, TopBelow, Tracked
  <1>2. Pivot \in Nat /\ F <= Pivot BY <1>1, PivotIs
  <1>3. \A d \in Rel : F <= d /\ d < Pivot => Full /\ Total(curs, d) <= Threshold
    BY <1>1, BelowPivot
  <1>4. F \in Nat BY <1>1
  <1> QED BY <1>1, <1>2, <1>3, <1>4, SkipRange

LEMMA BmwApproaches ==
    ASSUME Setup, NEW F, Walked(DOMAIN curs, at, top, F), BmwApproach
    PROVE  \E G : Walked(DOMAIN curs, at', top', G)
  <1>1. /\ GoodCursors(curs) /\ Tracked(curs, at, DOMAIN curs, F) /\ TopBelow(F)
        /\ F \in 0 .. Nowhere /\ Nowhere \in Nat
    BY RelFacts, RankAssumption DEF Walked, TopBelow, Tracked
  <1> DEFINE C == UpTo(Pivot - 1)
             G == Pivot
  <1>2. Pivots # {} /\ top' = top /\ at' = SeekAll(at, C, G) BY DEF BmwApproach
  <1>3. G \in 0 .. Nowhere - 1 /\ F <= G BY <1>1, <1>2, PivotIs
  <1>4. TopBelow(G) BY <1>2, BeforePivot
  <1>5. ASSUME NEW c \in DOMAIN curs, c \notin C PROVE Docid(curs[c], at[c]) >= G
    <2>1. ~(Id(at, c) <= G - 1) BY <1>5 DEF UpTo
    <2>2. Id(at, c) \in 0 .. Nowhere BY <1>1, IdsAre
    <2> HIDE DEF G
    <2> QED BY <2>1, <2>2, <1>3 DEF Id
  <1>6. C \in SUBSET (DOMAIN curs) BY DEF UpTo
  <1>7. G \in 0 .. Nowhere BY <1>1, <1>3
  <1> HIDE DEF C, G
  <1>8. \A c \in DOMAIN curs : c \in C \/ Docid(curs[c], at[c]) >= G BY <1>5
  <1>9. DOMAIN curs \in SUBSET (DOMAIN curs) OBVIOUS
  <1>10. Tracked(curs, SeekAll(at, C, G), DOMAIN curs, G)
    BY <1>1, <1>3, <1>6, <1>7, <1>8, <1>9, SeekMoves
  <1> QED BY <1>2, <1>4, <1>10 DEF Walked, TopBelow

LEMMA BmwScores ==
    ASSUME Setup, walk.how = "bmw", walk.gate \in Gates, ~unknown, ~unknown',
           NEW F, Walked(DOMAIN curs, at, top, F), BmwScore
    PROVE  \E G : Walked(DOMAIN curs, at', top', G)
  <1>1. /\ GoodCursors(curs) /\ Tracked(curs, at, DOMAIN curs, F) /\ TopBelow(F)
        /\ F \in 0 .. Nowhere /\ Nowhere \in Nat
    BY RelFacts, RankAssumption DEF Walked, TopBelow, Tracked
  <1> DEFINE d == Pivot
             H == On(at, d)
  <1>2. Pivots # {} /\ d = Min(Ids(DOMAIN curs)) /\ Offer(at, d) /\ at' = Advanced(at, H)
    BY DEF BmwScore
  <1>3. d \in 0 .. Nowhere - 1 /\ d \in Nat /\ F <= d /\ \E c \in Lead : Id(at, c) = d
    BY <1>1, <1>2, PivotIs
  <1>4. TopBelow(d) BY <1>2, BeforePivot
  <1> HIDE DEF d
  <1>5. \A c \in DOMAIN curs : Docid(curs[c], at[c]) >= d
    <2>1. Ids(DOMAIN curs) # {}
      <3>1. Pivots \subseteq Ids(DOMAIN curs) BY DEF Pivots
      <3> QED BY <3>1, <1>2
    <2>2. DOMAIN curs \in SUBSET (DOMAIN curs) OBVIOUS
    <2>3. \A c \in DOMAIN curs : Id(at, c) >= Min(Ids(DOMAIN curs)) BY <1>1, <2>1, <2>2, IdsAre
    <2> QED BY <2>3, <1>2 DEF Id
  <1>6. /\ H = Holders(curs, d) /\ \A c \in Holders(curs, d) : at[c] = PlaceOf(curs[c], d)
    BY <1>1, <1>3, <1>5, Here DEF On, Id
  <1>7. H # {}
    <2>1. Lead \subseteq DOMAIN curs BY DEF Lead, UpTo
    <2> QED BY <1>3, <2>1 DEF On
  <1>8. walk.how \in {"bmw", "maxscore", "driven"} OBVIOUS
  <1>9. top' = BestOf(HitsOf(curs, Met(d + 1)), want)
    BY <1>2, <1>3, <1>4, <1>6, <1>7, <1>8, OfferIs
  <1>10. Tracked(curs, at, DOMAIN curs, d)
    <2>1. ASSUME NEW c \in DOMAIN curs PROVE at[c] .. at[c] - 1 = {}
      <3>1. at[c] \in 1 .. Len(curs[c].list) + 1 /\ Len(curs[c].list) \in Nat BY <1>1, StandsType
      <3> QED BY <3>1
    <2>2. d \in 0 .. Nowhere BY <1>1, <1>3
    <2>3. \A c \in DOMAIN curs :
             /\ Settled(curs[c], at[c])
             /\ \A j \in at[c] .. at[c] - 1 : Alive(curs[c], j) => curs[c].list[j].tid < d
      BY <1>1, <2>1 DEF Tracked
    <2>4. DOMAIN curs \in SUBSET (DOMAIN curs) OBVIOUS
    <2> QED BY <1>1, <1>3, <1>5, <2>2, <2>3, <2>4, MovePast
  <1>11. \A c \in DOMAIN curs : c \in H \/ Docid(curs[c], at[c]) # d BY DEF On, Id
  <1>12. H \subseteq On(at, d) /\ DOMAIN curs \in SUBSET (DOMAIN curs) OBVIOUS
  <1> HIDE DEF H
  <1>13. Tracked(curs, Advanced(at, H), DOMAIN curs, d + 1)
    BY <1>1, <1>3, <1>10, <1>11, <1>12, AdvanceMoves
  <1> QED BY <1>2, <1>9, <1>13 DEF Walked

LEMMA BmwEnds ==
    ASSUME Setup, NEW F, Walked(DOMAIN curs, at, top, F), Pivots = {}
    PROVE  top = BestOf(WalkHits, want)
  <1>1. /\ GoodCursors(curs) /\ Tracked(curs, at, DOMAIN curs, F) /\ TopBelow(F)
        /\ F \in 0 .. Nowhere /\ Nowhere \in Nat /\ Rel \subseteq 0 .. Nowhere - 1
        /\ WalkHits = HitsOf(curs, Rel)
    BY RelFacts, RankAssumption DEF Walked, TopBelow, Tracked
  <1>2. \A d \in Rel : F <= d /\ d < Nowhere => Full /\ Total(curs, d) <= Threshold
    BY <1>1, BelowPivot
  <1>3. F \in Nat /\ F <= Nowhere BY <1>1
  <1>4. TopBelow(Nowhere) BY <1>1, <1>2, <1>3, SkipRange
  <1>5. Met(Nowhere) = Rel
    <2>1. \A d \in 0 .. Nowhere - 1 : d < Nowhere BY <1>1
    <2> QED BY <1>1, <2>1 DEF Met
  <1> QED BY <1>1, <1>4, <1>5 DEF TopBelow

-----------------------------------------------------------------------------
(* fts_search_maxscore. *)

LEMMA Retrack ==
    ASSUME NEW cs, GoodCursors(cs), NEW pos, NEW K, NEW F, Tracked(cs, pos, K, F),
           NEW L \in SUBSET (DOMAIN cs), NEW G \in 0 .. Nowhere, F <= G,
           \A c \in L : Docid(cs[c], pos[c]) >= G
    PROVE  Tracked(cs, pos, L, G)
  <1>1. ASSUME NEW c \in DOMAIN cs PROVE pos[c] .. pos[c] - 1 = {}
    <2>1. pos[c] \in 1 .. Len(cs[c].list) + 1 /\ Len(cs[c].list) \in Nat BY StandsType
    <2> QED BY <2>1
  <1>2. \A c \in DOMAIN cs :
           /\ Settled(cs[c], pos[c])
           /\ \A j \in pos[c] .. pos[c] - 1 : Alive(cs[c], j) => cs[c].list[j].tid < G
    BY <1>1 DEF Tracked
  <1> QED BY <1>2, MovePast

\* The k-th hit only rises.
LEMMA TopRises ==
    ASSUME NEW P, NEW Q, Ranking(P \cup Q), NEW k \in Nat \ {0},
           NEW T, T = BestOf(P, k), NEW U, U = BestOf(P \cup Q, k), Cardinality(T) = k
    PROVE  Cardinality(U) = k /\ WorstOf(T).score <= WorstOf(U).score
  <1>1. Ranking(P) BY RankingSubset
  <1>2. FirstOf(T, P, k) /\ FirstOf(U, P \cup Q, k) BY <1>1, BestOfIsFirst
  <1>3. T \subseteq P /\ U \subseteq P \cup Q BY <1>2 DEF FirstOf
  <1>4. Ranking(T) /\ Ranking(U) BY <1>3, RankingSubset
  <1>5. Cardinality(T) \in Nat /\ Cardinality(U) \in Nat /\ IsFiniteSet(T) /\ IsFiniteSet(U)
    BY <1>4, FS_CardinalityType DEF Ranking
  <1>6. Cardinality(U) = k
    <2>1. CASE U = P \cup Q
      <3>1. Cardinality(T) <= Cardinality(U) BY <1>3, <1>5, <2>1, FS_Subset
      <3>2. Cardinality(U) <= k BY <1>2, <1>5 DEF FirstOf
      <3> QED BY <3>1, <3>2, <1>5
    <2> QED BY <2>1, <1>2 DEF FirstOf
  <1>7. T # {} /\ U # {} BY <1>6, FS_EmptySet
  <1> DEFINE u == WorstOf(U)
             w == WorstOf(T)
  <1>8. /\ u \in U /\ u.score \in Nat /\ w.score \in Nat
        /\ \A t \in T : w.score <= t.score /\ t.score \in Nat
    BY <1>4, <1>7, WorstIs DEF Ranking
  <1> HIDE DEF u, w
  <1>9. w.score <= u.score
    <2> SUFFICES ASSUME u.score < w.score PROVE FALSE BY <1>8
    <2>1. \A t \in T : u.score < t.score BY <1>8
    <2>2. u \notin T BY <1>8, <2>1
    <2>3. T \subseteq U
      <3> SUFFICES ASSUME NEW t \in T, t \notin U PROVE FALSE OBVIOUS
      <3>1. Worse(t, u) BY <1>2, <1>3, <1>8 DEF FirstOf
      <3>2. t.score <= u.score BY <3>1, <1>8 DEF Worse
      <3> QED BY <3>2, <2>1, <1>8
    <2>4. T \cup {u} \subseteq U BY <1>8, <2>3
    <2>5. IsFiniteSet(T \cup {u}) /\ Cardinality(T \cup {u}) = k + 1
      BY <1>5, <2>2, FS_AddElement
    <2>6. Cardinality(T \cup {u}) <= Cardinality(U) BY <1>5, <2>4, FS_Subset
    <2> QED BY <1>6, <2>5, <2>6
  <1> QED BY <1>6, <1>9 DEF u, w

\* The cursors that are not essential cannot beat the k-th hit together.
LEMMA SpareWeak ==
    ASSUME Setup, NEW F, TopBelow(F), Spare # {}
    PROVE  Full /\ MaxSum(Spare) <= Threshold
  <1>1. GoodCursors(curs) /\ RankedCorpus(index) /\ Listed(QueryTerms(query))
    BY RelFacts DEF Setup
  <1>2. Spare \subseteq DOMAIN curs
        /\ \A c \in Spare : Full /\ ~(MaxSum(Below(c)) > Threshold)
    BY DEF Spare, Essential
  <1>3. IsFiniteSet(Spare) BY <1>1, <1>2, FS_Subset DEF GoodCursors
  <1>4. ASSUME NEW c \in Spare
        PROVE  curs[c].maxc \in Nat /\ WordOf(c) \in Nat /\ SegOf(c) \in Nat
    <2>1. curs[c].maxc \in Nat BY <1>1, <1>2 DEF GoodCursors, GoodCursor
    <2>2. c \in (DOMAIN QueryTerms(query)) \X (DOMAIN index.segs)
      BY <1>1, <1>2, CursorOf DEF Setup
    <2>3. WordOf(c) \in DOMAIN QueryTerms(query) /\ SegOf(c) \in DOMAIN index.segs
      BY <2>2 DEF WordOf, SegOf
    <2>4. SegOf(c) \in Nat BY <1>1, <2>3 DEF RankedCorpus
    <2>5. WordOf(c) \in Nat
      <3> DEFINE terms == QueryTerms(query)
      <3>1. Listed(terms) /\ WordOf(c) \in DOMAIN terms BY <1>1, <2>3
      <3> HIDE DEF terms
      <3> QED BY <3>1 DEF Listed
    <2> QED BY <2>1, <2>4, <2>5
  <1> DEFINE S == Spare
             R == {p \in S \X S : p[1] \in Below(p[2])}
  <1>5. \A x, y \in S : <<x, y>> \in R <=>
           \/ curs[x].maxc < curs[y].maxc
           \/ curs[x].maxc = curs[y].maxc /\ Precedes(x, y)
    BY <1>2 DEF Below
  <1> HIDE DEF R, S
  <1>6. ASSUME NEW x \in S, NEW y \in S PROVE <<x, y>> \in R \/ <<y, x>> \in R
    BY <1>4, <1>5 DEF Precedes, S
  <1>7. ASSUME NEW x \in S, NEW y \in S, NEW z \in S, <<x, y>> \in R, <<y, z>> \in R
        PROVE  <<x, z>> \in R
    BY <1>4, <1>5, <1>7 DEF Precedes, S
  <1>8. IsFiniteSet(S) /\ S # {} BY <1>3 DEF S
  <1>9. \E x \in S : \A y \in S : <<y, x>> \in R BY <1>6, <1>7, <1>8, Greatest
  <1>10. PICK c \in Spare : \A y \in Spare : y \in Below(c)
    BY <1>9 DEF R, S
  <1>11. Spare \subseteq Below(c) /\ Below(c) \subseteq DOMAIN curs BY <1>10 DEF Below
  <1>12. /\ MaxSum(Spare) <= MaxSum(Below(c)) /\ MaxSum(Below(c)) \in Nat /\ MaxSum(Spare) \in Nat
    BY <1>1, <1>2, <1>11, MaxSumBounds
  <1>13. Threshold \in Nat BY ThresholdIs DEF TopBelow, Met
  <1>14. Full /\ ~(MaxSum(Below(c)) > Threshold) BY <1>2
  <1> QED BY <1>12, <1>13, <1>14

LEMMA BelowCandidate ==
    ASSUME Setup, NEW F, Walked(Essential, at, top, F), NEW d \in Rel, F <= d,
           Ids(Essential) = {} \/ d < Candidate
    PROVE  Full /\ Total(curs, d) <= Threshold
  <1>1. /\ GoodCursors(curs) /\ Tracked(curs, at, Essential, F) /\ TopBelow(F)
        /\ F \in 0 .. Nowhere /\ Nowhere \in Nat /\ d \in 0 .. Nowhere - 1 /\ d \in Nat
        /\ Holders(curs, d) # {}
    BY RelFacts, RankAssumption DEF Walked, TopBelow, Tracked
  <1>2. Essential \subseteq DOMAIN curs /\ Spare \subseteq DOMAIN curs BY DEF Essential, Spare
  <1>3. Holders(curs, d) \subseteq Spare
    <2> SUFFICES ASSUME NEW c \in Holders(curs, d), c \notin Spare PROVE FALSE OBVIOUS
    <2>1. c \in Essential /\ c \in DOMAIN curs /\ LiveIn(curs[c], d) BY DEF Holders, Spare
    <2>2. Docid(curs[c], at[c]) <= d /\ Docid(curs[c], at[c]) < Nowhere BY <1>1, <2>1, Ahead
    <2>3. Docid(curs[c], at[c]) \in 0 .. Nowhere BY <1>1, <2>1, StandsType
    <2>4. Id(at, c) # Nowhere BY <1>1, <2>2, <2>3 DEF Id
    <2>5. Id(at, c) \in Ids(Essential) BY <1>1, <1>2, <2>1, <2>4, IdsAre
    <2>6. Id(at, c) >= Candidate /\ Candidate \in 0 .. Nowhere - 1
      BY <1>1, <1>2, <2>1, <2>5, IdsAre DEF Candidate
    <2>7. Id(at, c) = Docid(curs[c], at[c]) BY DEF Id
    <2> HIDE DEF Id
    <2> QED BY <1>1, <2>2, <2>3, <2>5, <2>6, <2>7
  <1>4. MaxSum(Spare) \in Nat /\ Total(curs, d) <= MaxSum(Spare)
    BY <1>1, <1>2, <1>3, MaxSumBounds
  <1>5. Full /\ MaxSum(Spare) <= Threshold BY <1>1, <1>3, SpareWeak
  <1>6. Threshold \in Nat /\ Total(curs, d) \in Nat
    BY <1>1, ThresholdIs, HoldersCount DEF TopBelow, Met
  <1> QED BY <1>4, <1>5, <1>6

LEMMA CandidateIs ==
    ASSUME Setup, NEW F, Walked(Essential, at, top, F), Ids(Essential) # {}
    PROVE  /\ Candidate \in 0 .. Nowhere - 1 /\ Candidate \in Nat /\ F <= Candidate
           /\ \E c \in Essential : Id(at, c) = Candidate
           /\ \A c \in Essential : Docid(curs[c], at[c]) >= Candidate
           /\ Tracked(curs, at, Essential, Candidate)
           /\ TopBelow(Candidate)
  <1> DEFINE d == Candidate
  <1>1. /\ GoodCursors(curs) /\ Tracked(curs, at, Essential, F) /\ TopBelow(F)
        /\ F \in 0 .. Nowhere /\ Nowhere \in Nat
    BY RelFacts, RankAssumption DEF Walked, TopBelow, Tracked
  <1>2. Essential \in SUBSET (DOMAIN curs) BY DEF Essential
  <1>3. /\ d \in 0 .. Nowhere - 1 /\ \E c \in Essential : Id(at, c) = d
        /\ \A c \in Essential : Id(at, c) >= d
    BY <1>1, <1>2, IdsAre DEF Candidate
  <1>4. \A d1 \in Rel : F <= d1 /\ d1 < d => Full /\ Total(curs, d1) <= Threshold
    BY BelowCandidate
  <1> HIDE DEF d
  <1>5. d \in Nat /\ d \in 0 .. Nowhere /\ F \in Nat BY <1>1, <1>3
  <1>6. \A c \in Essential : Docid(curs[c], at[c]) >= d BY <1>3 DEF Id
  <1>7. F <= d
    <2>1. PICK c \in Essential : Docid(curs[c], at[c]) = d BY <1>3 DEF Id
    <2> QED BY <2>1, <1>1, <1>5 DEF Tracked
  <1>8. Tracked(curs, at, Essential, d) BY <1>1, <1>2, <1>5, <1>6, <1>7, Retrack
  <1>9. TopBelow(d) BY <1>1, <1>4, <1>5, <1>7, SkipRange
  <1> QED BY <1>3, <1>5, <1>6, <1>7, <1>8, <1>9 DEF d

\* A cursor at or past a document stands on it if it holds it.
LEMMA HereOne ==
    ASSUME NEW cs, GoodCursors(cs), NEW pos, NEW K, NEW F, Tracked(cs, pos, K, F),
           NEW d \in 0 .. Nowhere - 1, F <= d,
           NEW c \in DOMAIN cs, Docid(cs[c], pos[c]) >= d
    PROVE  /\ LiveIn(cs[c], d) <=> Docid(cs[c], pos[c]) = d
           /\ LiveIn(cs[c], d) => pos[c] = PlaceOf(cs[c], d)
  <1>1. Nowhere \in Nat /\ d \in Nat /\ d # Nowhere BY RankAssumption
  <1>2. Docid(cs[c], pos[c]) = d => LiveIn(cs[c], d) BY <1>1, StandsType
  <1>3. ASSUME LiveIn(cs[c], d)
        PROVE  Docid(cs[c], pos[c]) = d /\ pos[c] = PlaceOf(cs[c], d)
    <2>1. /\ Docid(cs[c], pos[c]) <= d
          /\ Docid(cs[c], pos[c]) = d => pos[c] = PlaceOf(cs[c], d)
      BY <1>1, <1>3, Ahead
    <2>2. Docid(cs[c], pos[c]) \in 0 .. Nowhere BY StandsType
    <2> QED BY <1>1, <2>1, <2>2
  <1> QED BY <1>2, <1>3

\* What the essential cursors have and the others may have at most.
LEMMA SplitBound ==
    ASSUME Setup, NEW F, Walked(Essential, at, top, F), Ids(Essential) # {}
    PROVE  /\ Total(curs, Candidate) <=
                ScoreOf(at, On(at, Candidate) \cap Essential) + MaxSum(Spare)
           /\ ScoreOf(at, On(at, Candidate) \cap Essential) \in Nat /\ MaxSum(Spare) \in Nat
  <1> DEFINE d == Candidate
             E == On(at, d) \cap Essential
             H == Holders(curs, d)
             f == [c \in E |-> Score(curs[c], at[c])]
             g == [c \in DOMAIN curs |-> curs[c].maxc]
             G == [c \in DOMAIN curs |-> IF c \in E THEN Score(curs[c], at[c]) ELSE curs[c].maxc]
             m == [c \in Spare |-> curs[c].maxc]
  <1>1. /\ GoodCursors(curs) /\ d \in 0 .. Nowhere - 1 /\ d <= d
        /\ \A c \in Essential : Docid(curs[c], at[c]) >= d
        /\ Tracked(curs, at, Essential, d)
    BY RelFacts, CandidateIs
  <1>2. /\ E \subseteq DOMAIN curs /\ Spare \subseteq DOMAIN curs /\ E \cap Spare = {}
        /\ E \subseteq Essential /\ Essential \subseteq DOMAIN curs
    BY DEF Essential, Spare
  <1> HIDE DEF d
  <1>3. IsFiniteSet(E) /\ IsFiniteSet(Spare) /\ IsFiniteSet(E \cup Spare)
    BY <1>1, <1>2, FS_Subset, FS_Union DEF GoodCursors
  <1>4. ASSUME NEW c \in Essential
        PROVE  /\ c \in E <=> c \in H
               /\ c \in H => at[c] = PlaceOf(curs[c], d)
    <2>1. /\ LiveIn(curs[c], d) <=> Docid(curs[c], at[c]) = d
          /\ LiveIn(curs[c], d) => at[c] = PlaceOf(curs[c], d)
      BY <1>1, <1>2, HereOne
    <2> QED BY <2>1, <1>2 DEF Holders, On, Id
  <1>5. H \subseteq E \cup Spare
    <2>1. H \subseteq DOMAIN curs BY DEF Holders
    <2> HIDE DEF E, H
    <2> QED BY <2>1, <1>4 DEF Spare
  <1>6. ASSUME NEW c \in E
        PROVE  /\ G[c] = f[c] /\ f[c] = Score(curs[c], at[c])
               /\ f[c] \in Nat /\ Weights(curs, d)[c] = f[c]
    <2>1. c \in H /\ c \in DOMAIN curs /\ at[c] = PlaceOf(curs[c], d) BY <1>2, <1>4
    <2>2. Score(curs[c], at[c]) \in Nat BY <1>1, <2>1, LivePlace DEF Holders, GoodCursors
    <2> QED BY <2>1, <2>2 DEF Weights
  <1>7. ASSUME NEW c \in Spare
        PROVE  G[c] = curs[c].maxc /\ curs[c].maxc \in Nat /\ m[c] = curs[c].maxc
    BY <1>1, <1>2 DEF GoodCursors, GoodCursor
  <1>8. ASSUME NEW c \in H, c \in Spare PROVE Weights(curs, d)[c] <= curs[c].maxc
    BY <1>1, <1>2, <1>8, LivePlace DEF Holders, GoodCursors, Weights
  <1>9. DOMAIN f = E /\ DOMAIN m = Spare OBVIOUS
  <1>10. ScoreOf(at, E) = SumFunction(f) /\ MaxSum(Spare) = SumFunction(m)
    BY DEF ScoreOf, MaxSum
  <1> HIDE DEF E, H, f, G, m
  <1>11. \A c \in E \cup Spare : G[c] \in Nat
    <2> TAKE c \in E \cup Spare
    <2>1. CASE c \in E BY <2>1, <1>6
    <2>2. CASE c \in Spare BY <2>2, <1>7
    <2> QED BY <2>1, <2>2
  <1>12. \A c \in H : Weights(curs, d)[c] <= G[c]
    <2> TAKE c \in H
    <2>1. CASE c \in E
      <3>1. Weights(curs, d)[c] = G[c] /\ G[c] \in Nat BY <2>1, <1>6
      <3> QED BY <3>1
    <2>2. CASE c \in Spare BY <2>2, <1>7, <1>8
    <2> QED BY <2>1, <2>2, <1>5
  <1>13. Total(curs, d) <= SumFunctionOnSet(G, E \cup Spare)
    BY <1>1, <1>3, <1>5, <1>11, <1>12, TotalBounded DEF H
  <1>14. Counts(G, E) /\ Counts(G, Spare) BY <1>3, <1>11 DEF Counts
  <1>15. SumFunctionOnSet(G, E \cup Spare) = SumFunctionOnSet(G, E) + SumFunctionOnSet(G, Spare)
    BY <1>2, <1>14, SumUnion
  <1>16. SumFunctionOnSet(G, E) = SumFunction(f)
    <2>1. SumFunctionOnSet(G, E) = SumFunctionOnSet(f, E) BY <1>6, <1>14, SumSame
    <2> QED BY <2>1, <1>9, SumIs
  <1>17. SumFunctionOnSet(G, Spare) = SumFunction(m)
    <2>1. SumFunctionOnSet(G, Spare) = SumFunctionOnSet(m, Spare)
      <3>1. \A c \in Spare : G[c] = m[c] BY <1>7
      <3> QED BY <3>1, <1>14, SumSame
    <2> QED BY <2>1, <1>9, SumIs
  <1>18. SumFunctionOnSet(G, E) \in Nat /\ SumFunctionOnSet(G, Spare) \in Nat
    BY <1>14, SumType
  <1> QED BY <1>10, <1>13, <1>15, <1>16, <1>17, <1>18 DEF d, E

LEMMA MaxScorePasses ==
    ASSUME Setup, NEW F, Walked(Essential, at, top, F), MaxScorePass
    PROVE  \E G : Walked(Essential, at', top', G)
  <1> DEFINE d == Candidate
             E == On(at, d) \cap Essential
  <1>1. /\ Ids(Essential) # {} /\ Full /\ ScoreOf(at, E) + MaxSum(Spare) <= Threshold
        /\ at' = Advanced(at, E) /\ top' = top
    BY DEF MaxScorePass, TooWeak
  <1>2. /\ d \in 0 .. Nowhere - 1 /\ d \in Nat
        /\ Tracked(curs, at, Essential, d) /\ TopBelow(d)
    BY <1>1, CandidateIs
  <1>3. Total(curs, d) <= ScoreOf(at, E) + MaxSum(Spare)
        /\ ScoreOf(at, E) \in Nat /\ MaxSum(Spare) \in Nat
    BY <1>1, SplitBound
  <1>4. GoodCursors(curs) /\ Rel \subseteq Nat BY RelFacts
  <1>5. \A c \in Essential : c \in E \/ Docid(curs[c], at[c]) # d
    BY DEF On, Id, Essential
  <1>6. E \subseteq On(at, d) /\ Essential \in SUBSET Essential OBVIOUS
  <1> HIDE DEF d, E
  <1>7. Total(curs, d) <= Threshold
    <2>1. Threshold \in Nat /\ Total(curs, d) \in Nat
      BY <1>2, <1>4, ThresholdIs, HoldersCount DEF TopBelow, Met
    <2> QED BY <2>1, <1>1, <1>3
  <1>8. TopBelow(d + 1)
    <2>1. d + 1 \in Nat /\ d <= d + 1 /\ \A e \in Nat : d <= e /\ e < d + 1 => e = d BY <1>2
    <2>2. \A e \in Rel : d <= e /\ e < d + 1 => Full /\ Total(curs, e) <= Threshold
      BY <1>1, <1>4, <1>7, <2>1
    <2> QED BY <1>2, <2>1, <2>2, SkipRange
  <1>9. Tracked(curs, Advanced(at, E), Essential, d + 1)
    BY <1>2, <1>4, <1>5, <1>6, AdvanceMoves
  <1> QED BY <1>1, <1>8, <1>9 DEF Walked, TopBelow

LEMMA MaxScoreScores ==
    ASSUME Setup, walk.how = "maxscore", walk.gate \in Gates, ~unknown, ~unknown',
           NEW F, Walked(Essential, at, top, F), MaxScoreScore
    PROVE  \E G : /\ Walked(Essential, at', top', G)
                  /\ TopBelow(G - 1) /\ G - 1 \in Nat
  <1> DEFINE d == Candidate
             sought == SeekAll(at, Spare, d)
             H == On(sought, d)
  <1>1. /\ Ids(Essential) # {} /\ Offer(sought, d)
        /\ at' = Advanced(sought, H \cap Essential)
    BY DEF MaxScoreScore
  <1>2. /\ d \in 0 .. Nowhere - 1 /\ d \in Nat
        /\ \E c \in Essential : Id(at, c) = d
        /\ \A c \in Essential : Docid(curs[c], at[c]) >= d
        /\ Tracked(curs, at, Essential, d) /\ TopBelow(d)
    BY <1>1, CandidateIs
  <1>3. GoodCursors(curs) BY RelFacts
  <1>4. Essential \in SUBSET (DOMAIN curs) /\ Spare \in SUBSET (DOMAIN curs)
        /\ (\A c \in DOMAIN curs : c \in Essential \/ c \in Spare)
        /\ \A c \in Essential : c \notin Spare
    BY DEF Essential, Spare
  <1>5. d \in 0 .. Nowhere /\ d <= d /\ DOMAIN curs \in SUBSET (DOMAIN curs)
    BY <1>2, RankAssumption
  <1> HIDE DEF d, sought, H
  <1>6. /\ Tracked(curs, sought, DOMAIN curs, d)
        /\ \A c \in DOMAIN curs \ Spare : sought[c] = at[c]
    <2>1. \A c \in DOMAIN curs : c \in Spare \/ Docid(curs[c], at[c]) >= d BY <1>2, <1>4
    <2> DEFINE C == Spare
               L == DOMAIN curs
    <2>2. /\ \A c \in L : c \in C \/ Docid(curs[c], at[c]) >= d
          /\ C \in SUBSET (DOMAIN curs) /\ L \in SUBSET (DOMAIN curs)
      BY <2>1, <1>4
    <2> DEFINE K == Essential
    <2>3. Tracked(curs, at, K, d) BY <1>2
    <2>4. sought = SeekAll(at, C, d) BY DEF sought
    <2>6. d \in 0 .. Nowhere /\ d <= d BY <1>5
    <2> HIDE DEF C, L, K
    <2>5. /\ Tracked(curs, SeekAll(at, C, d), L, d)
          /\ \A c \in DOMAIN curs \ C : SeekAll(at, C, d)[c] = at[c]
      BY <1>3, <2>2, <2>3, <2>6, SeekMoves
    <2> QED BY <2>4, <2>5 DEF C, L
  <1>7. \A c \in DOMAIN curs : Docid(curs[c], sought[c]) >= d BY <1>6 DEF Tracked
  <1>8. H = Holders(curs, d) /\ \A c \in Holders(curs, d) : sought[c] = PlaceOf(curs[c], d)
    BY <1>2, <1>3, <1>5, <1>6, <1>7, Here DEF H, On, Id
  <1>9. H # {}
    <2>1. PICK c \in Essential : Id(at, c) = d BY <1>2
    <2>2. c \in DOMAIN curs /\ sought[c] = at[c] BY <2>1, <1>4, <1>6
    <2>3. c \in H BY <2>1, <2>2 DEF H, On, Id
    <2> QED BY <2>3
  <1>10. top' = BestOf(HitsOf(curs, Met(d + 1)), want)
    <2>1. walk.how \in {"bmw", "maxscore", "driven"} OBVIOUS
    <2> QED BY <1>1, <1>2, <1>8, <1>9, <2>1, OfferIs DEF H
  <1>11. Tracked(curs, Advanced(sought, H \cap Essential), Essential, d + 1)
    <2>1. \A c \in Essential : c \in H \cap Essential \/ Docid(curs[c], sought[c]) # d
      BY <1>4 DEF H, On, Id
    <2>2. H \cap Essential \subseteq On(sought, d) BY DEF H
    <2> QED BY <1>2, <1>3, <1>4, <1>6, <2>1, <2>2, AdvanceMoves
  <1> WITNESS d + 1
  <1>12. (d + 1) - 1 = d BY <1>2
  <1> QED BY <1>1, <1>2, <1>10, <1>11, <1>12 DEF Walked

\* As the k-th hit rises, cursors only cease to be essential.
LEMMA EssentialShrinks ==
    ASSUME Setup, UNCHANGED <<curs, want>>, NEW F \in Nat, NEW G \in Nat, F <= G,
           TopBelow(F), top' = BestOf(HitsOf(curs, Met(G)), want)
    PROVE  Essential' \subseteq Essential
  <1>1. GoodCursors(curs) /\ Rel \subseteq Nat /\ IsFiniteSet(Rel) /\ want \in Nat \ {0}
    BY RelFacts DEF Setup
  <1> DEFINE P == HitsOf(curs, Met(F))
             Q == HitsOf(curs, Met(G))
             T == top
             U == top'
  <1>2. Met(F) \subseteq Met(G) /\ Met(G) \subseteq Rel
    <2>1. \A d \in Nat : d < F => d < G OBVIOUS
    <2> QED BY <1>1, <2>1 DEF Met
  <1>3. P \subseteq Q BY <1>2 DEF HitsOf
  <1>4. P \cup Q = Q BY <1>3
  <1>5. Ranking(Q)
    <2>1. Met(G) \in SUBSET Nat /\ IsFiniteSet(Met(G)) BY <1>1, <1>2, FS_Subset
    <2> QED BY <1>1, <2>1, HitsRank
  <1>6. T = BestOf(P, want) /\ U = BestOf(P \cup Q, want) BY <1>4 DEF TopBelow
  <1>7. \A c : MaxSum(Below(c))' = MaxSum(Below(c))
    BY DEF MaxSum, Below
  <1>8. Essential' = {c \in DOMAIN curs : ~Full' \/ MaxSum(Below(c))' > Threshold'}
    BY DEF Essential
  <1>9. Essential = {c \in DOMAIN curs : ~Full \/ MaxSum(Below(c)) > Threshold}
    BY DEF Essential
  <1>10. Full' = (Cardinality(U) = want) /\ Full = (Cardinality(T) = want)
    BY DEF Full
  <1>11. Threshold' = (IF Full' THEN WorstOf(U).score ELSE 0)
         /\ Threshold = (IF Full THEN WorstOf(T).score ELSE 0)
    BY DEF Threshold
  <1>12. \A c \in DOMAIN curs : MaxSum(Below(c)) \in Nat
    <2> TAKE c \in DOMAIN curs
    <2>1. Below(c) \subseteq DOMAIN curs BY DEF Below
    <2> QED BY <1>1, <2>1, MaxSumBounds
  <1>13. Threshold \in Nat BY ThresholdIs, <1>2 DEF TopBelow, Met
  <1>14. Threshold' \in Nat
    <2> DEFINE D == Met(G)
    <2>1. D \in SUBSET Nat /\ IsFiniteSet(D) BY <1>1, <1>2, FS_Subset
    <2>2. U = BestOf(HitsOf(curs, D), want) OBVIOUS
    <2> HIDE DEF U, D
    <2>3. Cardinality(U) = want => WorstOf(U).score \in Nat BY <1>1, <2>1, <2>2, TopMembers
    <2> QED BY <2>3, <1>10, <1>11
  <1>15. Full => Full' /\ Threshold <= Threshold'
    <2> HIDE DEF P, Q, T, U
    <2>0. Ranking(P \cup Q) BY <1>4, <1>5
    <2>1. Cardinality(T) = want => Cardinality(U) = want /\ WorstOf(T).score <= WorstOf(U).score
      <3> SUFFICES ASSUME Cardinality(T) = want
                   PROVE  Cardinality(U) = want /\ WorstOf(T).score <= WorstOf(U).score
        OBVIOUS
      <3> QED BY <1>1, <1>6, <2>0, TopRises
    <2> QED BY <2>1, <1>10, <1>11
  <1> HIDE DEF P, Q, T, U
  <1> SUFFICES ASSUME NEW c \in DOMAIN curs, ~Full' \/ MaxSum(Below(c))' > Threshold', Full
               PROVE  MaxSum(Below(c)) > Threshold
    BY <1>8, <1>9
  <1>16. MaxSum(Below(c)) > Threshold' BY <1>7, <1>15
  <1> QED BY <1>12, <1>13, <1>14, <1>15, <1>16

LEMMA MaxScoreEnds ==
    ASSUME Setup, NEW F, Walked(Essential, at, top, F), Ids(Essential) = {}
    PROVE  top = BestOf(WalkHits, want)
  <1>1. /\ TopBelow(F) /\ F \in 0 .. Nowhere /\ Nowhere \in Nat /\ Rel \subseteq 0 .. Nowhere - 1
        /\ WalkHits = HitsOf(curs, Rel)
    BY RelFacts, RankAssumption DEF Walked, TopBelow, Tracked
  <1>2. \A d \in Rel : F <= d /\ d < Nowhere => Full /\ Total(curs, d) <= Threshold
    BY BelowCandidate
  <1>3. F \in Nat /\ F <= Nowhere BY <1>1
  <1>4. TopBelow(Nowhere) BY <1>1, <1>2, <1>3, SkipRange
  <1>5. Met(Nowhere) = Rel
    <2>1. \A d \in 0 .. Nowhere - 1 : d < Nowhere BY <1>1
    <2> QED BY <1>1, <2>1 DEF Met
  <1> QED BY <1>1, <1>4, <1>5 DEF TopBelow

-----------------------------------------------------------------------------
(* fts_search_driven, fts_search_dense1. *)

\* A document that none of the driving cursors holds does not matter.
LEMMA BelowDriver ==
    ASSUME Setup, walk.how = "driven", NEW F, Walked(Drivers, at, top, F), NEW d \in Rel, F <= d,
           Ids(Drivers) = {} \/ d < Min(Ids(Drivers))
    PROVE  FALSE
  <1> DEFINE m == Min(Ids(Drivers))
  <1>1. /\ GoodCursors(curs) /\ Tracked(curs, at, Drivers, F)
        /\ F \in 0 .. Nowhere /\ Nowhere \in Nat /\ d \in 0 .. Nowhere - 1 /\ d \in Nat
        /\ Holders(curs, d) \cap Drivers # {}
    BY RelFacts, RankAssumption DEF Walked, Tracked
  <1>2. Drivers \in SUBSET (DOMAIN curs) BY DEF Drivers
  <1>3. PICK c \in Drivers : c \in DOMAIN curs /\ LiveIn(curs[c], d) BY <1>1 DEF Holders
  <1>4. Docid(curs[c], at[c]) <= d /\ Docid(curs[c], at[c]) < Nowhere BY <1>1, <1>3, Ahead
  <1>5. Docid(curs[c], at[c]) \in 0 .. Nowhere BY <1>1, <1>3, StandsType
  <1>6. Id(at, c) # Nowhere BY <1>1, <1>4, <1>5 DEF Id
  <1>7. Id(at, c) \in Ids(Drivers) BY <1>1, <1>2, <1>6, IdsAre
  <1>8. Id(at, c) >= m /\ m \in 0 .. Nowhere - 1 BY <1>1, <1>2, <1>7, IdsAre
  <1>9. Id(at, c) = Docid(curs[c], at[c]) BY DEF Id
  <1> HIDE DEF m
  <1>10. d < m BY <1>7 DEF m
  <1> HIDE DEF Id
  <1> QED BY <1>1, <1>4, <1>5, <1>8, <1>9, <1>10

LEMMA DrivenScores ==
    ASSUME Setup, walk.how = "driven", walk.gate \in Gates, ~unknown, ~unknown',
           NEW F, Walked(Drivers, at, top, F), DrivenScore
    PROVE  \E G : Walked(Drivers, at', top', G)
  <1> DEFINE d == Min(Ids(Drivers))
             C == DOMAIN curs \ Drivers
             sought == SeekAll(at, C, d)
             H == On(sought, d)
             K == Drivers
             L == DOMAIN curs
  <1>1. /\ Ids(Drivers) # {} /\ Offer(sought, d)
        /\ at' = Advanced(sought, H \cap Drivers)
    BY DEF DrivenScore
  <1>2. /\ GoodCursors(curs) /\ Tracked(curs, at, K, F) /\ TopBelow(F)
        /\ F \in 0 .. Nowhere /\ Nowhere \in Nat
    BY RelFacts, RankAssumption DEF Walked, TopBelow, Tracked
  <1>3. /\ K \in SUBSET L /\ C \in SUBSET L /\ L \in SUBSET L
        /\ \A c \in L : c \in C \/ c \in K
        /\ \A c \in K : c \in L \ C
    BY DEF Drivers
  <1>4. /\ d \in 0 .. Nowhere - 1 /\ \E c \in K : Id(at, c) = d
        /\ \A c \in K : Id(at, c) >= d
    BY <1>1, <1>2, <1>3, IdsAre
  <1>5. \A d1 \in Rel : F <= d1 /\ d1 < d => Full /\ Total(curs, d1) <= Threshold
    BY BelowDriver
  <1> HIDE DEF d, C, K, L
  <1>6. d \in Nat /\ d \in 0 .. Nowhere /\ F \in Nat BY <1>2, <1>4
  <1>7. F <= d
    <2>1. PICK c \in K : Docid(curs[c], at[c]) = d BY <1>4 DEF Id
    <2> QED BY <2>1, <1>2, <1>6 DEF Tracked
  <1>8. TopBelow(d) BY <1>2, <1>5, <1>6, <1>7, SkipRange
  <1>9. \A c \in L : c \in C \/ Docid(curs[c], at[c]) >= d BY <1>3, <1>4 DEF Id
  <1> HIDE DEF sought, H
  <1>10. /\ Tracked(curs, sought, L, d) /\ \A c \in K : sought[c] = at[c]
    <2>1. /\ Tracked(curs, SeekAll(at, C, d), L, d)
          /\ \A c \in L \ C : SeekAll(at, C, d)[c] = at[c]
      BY <1>2, <1>3, <1>6, <1>7, <1>9, SeekMoves DEF L
    <2> QED BY <2>1, <1>3 DEF sought
  <1>11. \A c \in DOMAIN curs : Docid(curs[c], sought[c]) >= d BY <1>10 DEF Tracked, L
  <1>12. d <= d BY <1>6
  <1>13. H = Holders(curs, d) /\ \A c \in Holders(curs, d) : sought[c] = PlaceOf(curs[c], d)
    BY <1>2, <1>4, <1>10, <1>11, <1>12, Here DEF H, On, Id
  <1>14. H # {} /\ Holders(curs, d) \cap Drivers # {}
    <2>1. PICK c \in K : Id(at, c) = d BY <1>4
    <2>2. c \in DOMAIN curs /\ sought[c] = at[c] BY <1>3, <1>10, <2>1 DEF L
    <2>3. c \in H BY <2>1, <2>2 DEF H, On, Id
    <2> QED BY <2>3, <1>13 DEF K
  <1>15. top' = BestOf(HitsOf(curs, Met(d + 1)), want)
    <2>1. walk.how \in {"bmw", "maxscore", "driven"} OBVIOUS
    <2> QED BY <1>1, <1>6, <1>8, <1>13, <1>14, <2>1, OfferIs DEF H
  <1>16. Tracked(curs, Advanced(sought, H \cap K), K, d + 1)
    <2>1. \A c \in K : c \in H \cap K \/ Docid(curs[c], sought[c]) # d
      BY <1>3 DEF H, On, Id, L
    <2>2. H \cap K \subseteq On(sought, d) /\ K \in SUBSET L BY <1>3 DEF H
    <2> QED BY <1>2, <1>4, <1>10, <2>1, <2>2, AdvanceMoves
  <1> QED BY <1>1, <1>15, <1>16 DEF Walked, K

LEMMA DrivenEnds ==
    ASSUME Setup, walk.how = "driven", NEW F, Walked(Drivers, at, top, F), Ids(Drivers) = {}
    PROVE  top = BestOf(WalkHits, want)
  <1>1. /\ TopBelow(F) /\ F \in 0 .. Nowhere /\ Nowhere \in Nat /\ Rel \subseteq 0 .. Nowhere - 1
        /\ WalkHits = HitsOf(curs, Rel)
    BY RelFacts, RankAssumption DEF Walked, TopBelow, Tracked
  <1>2. \A d \in Rel : F <= d /\ d < Nowhere => Full /\ Total(curs, d) <= Threshold
    BY BelowDriver
  <1>3. F \in Nat /\ F <= Nowhere BY <1>1
  <1>4. TopBelow(Nowhere) BY <1>1, <1>2, <1>3, SkipRange
  <1>5. Met(Nowhere) = Rel
    <2>1. \A d \in 0 .. Nowhere - 1 : d < Nowhere BY <1>1
    <2> QED BY <1>1, <2>1 DEF Met
  <1> QED BY <1>1, <1>4, <1>5 DEF TopBelow

-----------------------------------------------------------------------------
RanksAll == walk.gate = "none" /\ ~walk.filtered /\ walk.how \in {"dense", "best"}

\* Without a gate and a filter every document of a cursor matters.
LEMMA RelAll ==
    ASSUME Setup, RanksAll, NEW c \in DOMAIN curs, NEW d, LiveIn(curs[c], d)
    PROVE  d \in Rel
  <1> DEFINE terms == QueryTerms(query)
             s == SegOf(c)
             W == WordsIn(index.segs[s].docs[d])
  <1>1. RankedCorpus(index) /\ curs = Cursors(index, terms) BY DEF Setup
  <1>2. s \in DOMAIN index.segs /\ d \in SegTids(index, s)
    <2> HIDE DEF terms
    <2>1. d \in SegTids(index, SegOf(c)) BY <1>1, HoldersAre
    <2>2. c \in (DOMAIN terms) \X (DOMAIN index.segs) BY <1>1, CursorOf
    <2> QED BY <2>1, <2>2 DEF SegOf
  <1> HIDE DEF s
  <1>3. Holders(curs, d) = {<<t, s>> : t \in W} BY <1>2, HoldersOfDoc
  <1>4. c \in Holders(curs, d) BY DEF Holders
  <1> HIDE DEF W
  <1>5. W # {} BY <1>3, <1>4
  <1>6. Relevant(s, d) BY <1>5 DEF Relevant, RanksAll, W
  <1> QED BY <1>2, <1>6 DEF Rel

\* One word, or one cursor: no two cursors hold a document.
LEMMA HoldsAlone ==
    ASSUME Setup, OneWord(curs), NEW d, NEW c \in Holders(curs, d), NEW o \in Holders(curs, d)
    PROVE  c = o
  <1> DEFINE terms == QueryTerms(query)
  <1>1. RankedCorpus(index) /\ curs = Cursors(index, terms) BY DEF Setup
  <1>2. c \in DOMAIN curs /\ o \in DOMAIN curs /\ LiveIn(curs[c], d) /\ LiveIn(curs[o], d)
    BY DEF Holders
  <1>3. CASE Single(curs)
    <2>1. IsFiniteSet(DOMAIN curs) BY RelFacts DEF GoodCursors
    <2>2. Cardinality(DOMAIN curs) = 1 BY <1>3 DEF Single
    <2>3. \E x : DOMAIN curs = {x} BY <2>1, <2>2, FS_Singleton
    <2> QED BY <1>2, <2>3
  <1>4. CASE \A k \in DOMAIN curs : WordOf(k) = 1
    <2> HIDE DEF terms
    <2>1. d \in SegTids(index, SegOf(c)) /\ d \in SegTids(index, SegOf(o))
      BY <1>1, <1>2, HoldersAre
    <2>2. /\ c \in (DOMAIN terms) \X (DOMAIN index.segs) /\ c = <<WordOf(c), SegOf(c)>>
          /\ o \in (DOMAIN terms) \X (DOMAIN index.segs) /\ o = <<WordOf(o), SegOf(o)>>
      BY <1>1, <1>2, CursorOf
    <2>3. SegOf(c) \in DOMAIN index.segs /\ SegOf(o) \in DOMAIN index.segs
      BY <2>2 DEF SegOf
    <2>4. SegOf(c) = SegOf(o) BY <1>1, <2>1, <2>3, OneHome
    <2>5. WordOf(c) = WordOf(o) BY <1>2, <1>4
    <2> QED BY <2>2, <2>4, <2>5
  <1> QED BY <1>3, <1>4 DEF OneWord

\* The live documents of postings lo to hi.
Docs(c, lo, hi) == {curs[c].list[j].tid : j \in {i \in lo .. hi : Alive(curs[c], i)}}

LEMMA BlockHitsAre ==
    ASSUME Setup, RanksAll, OneWord(curs), NEW c \in DOMAIN curs, NEW b \in 1 .. Len(curs[c].hdr)
    PROVE  LET D == Docs(c, BlockStart(b), BlockEnd(curs[c].list, b))
           IN  /\ BlockHits(c, b) = HitsOf(curs, D)
               /\ D \subseteq Rel
               /\ \A d \in D : Total(curs, d) <= curs[c].bound[b]
  <1> DEFINE cur == curs[c]
             lo == BlockStart(b)
             hi == BlockEnd(cur.list, b)
             J == {i \in lo .. hi : Alive(cur, i)}
             D == Docs(c, lo, hi)
  <1>1. GoodCursors(curs) /\ GoodCursor(cur) BY RelFacts DEF GoodCursors
  <1>2. GoodList(cur.list) /\ Len(cur.hdr) = NumBlocks(Len(cur.list)) BY <1>1 DEF GoodCursor
  <1>3. lo .. hi \subseteq 1 .. Len(cur.list) BY <1>2, BlockSpan
  <1>4. \A j \in lo .. hi : Score(cur, j) <= cur.bound[b] BY <1>1 DEF GoodCursor
  <1> HIDE DEF lo, hi
  <1>5. ASSUME NEW j \in J
        PROVE  /\ cur.list[j].tid \in Rel /\ Total(curs, cur.list[j].tid) = Score(cur, j)
               /\ Score(cur, j) <= cur.bound[b]
    <2> DEFINE d == cur.list[j].tid
    <2>1. j \in lo .. hi /\ j \in 1 .. Len(cur.list) /\ Alive(cur, j) BY <1>3
    <2>2. LiveIn(cur, d) BY <2>1 DEF LiveIn
    <2>3. d \in Rel BY <2>2, RelAll
    <2>4. c \in Holders(curs, d) BY <2>2 DEF Holders
    <2>5. Holders(curs, d) = {c} BY <2>4, HoldsAlone
    <2>6. PlaceOf(cur, d) = j BY <1>1, <2>1, PlaceIs
    <2> DEFINE w == Weights(curs, d)
    <2>7. w[c] = Score(cur, j) BY <2>6 DEF Weights
    <2>8. Counts(w, {} \cup {c}) BY <1>1, <2>5, HoldersCount
    <2>9. Total(curs, d) = SumFunctionOnSet(w, {} \cup {c}) BY <2>5 DEF Total
    <2> HIDE DEF w
    <2>10. SumFunctionOnSet(w, {} \cup {c}) = SumFunctionOnSet(w, {}) + w[c]
      <3>1. c \notin {} OBVIOUS
      <3> QED BY <2>8, <3>1, SumAdd
    <2>11. SumFunctionOnSet(w, {}) = 0 BY SumEmpty
    <2>12. w[c] \in Nat
      <3>1. c \in {} \cup {c} OBVIOUS
      <3> QED BY <2>8, <3>1 DEF Counts
    <2>13. Total(curs, d) = w[c] BY <2>9, <2>10, <2>11, <2>12
    <2> QED BY <2>1, <2>3, <2>7, <2>13, <1>4
  <1>6. D = {cur.list[j].tid : j \in J} BY DEF Docs
  <1>7. BlockHits(c, b) = {Hit(cur.list[j].tid, Score(cur, j)) : j \in J}
    BY DEF BlockHits, Alive, lo, hi
  <1> HIDE DEF J, cur
  <1>8. {Hit(cur.list[j].tid, Score(cur, j)) : j \in J}
        = {Hit(cur.list[j].tid, Total(curs, cur.list[j].tid)) : j \in J}
    BY <1>5
  <1>9. HitsOf(curs, D) = {Hit(cur.list[j].tid, Total(curs, cur.list[j].tid)) : j \in J}
    BY <1>6 DEF HitsOf
  <1>10. D \subseteq Rel /\ \A d \in D : Total(curs, d) <= cur.bound[b] BY <1>5, <1>6
  <1> QED BY <1>7, <1>8, <1>9, <1>10 DEF lo, hi, cur

LEMMA TopJoins ==
    ASSUME Setup, NEW D \in SUBSET Rel, NEW E \in SUBSET Rel, NEW T, NEW U,
           T = BestOf(HitsOf(curs, D), want), U = BestOf(T \cup HitsOf(curs, E), want)
    PROVE  U = BestOf(HitsOf(curs, D \cup E), want)
  <1>1. GoodCursors(curs) /\ Rel \subseteq Nat /\ IsFiniteSet(Rel) /\ want \in Nat \ {0}
    BY RelFacts DEF Setup
  <1> DEFINE P == HitsOf(curs, D)
             Q == HitsOf(curs, E)
  <1>2. P \cup Q = HitsOf(curs, D \cup E) BY HitsUnion
  <1>3. D \cup E \in SUBSET Nat /\ IsFiniteSet(D \cup E)
    <2>1. D \cup E \subseteq Rel OBVIOUS
    <2> QED BY <1>1, <2>1, FS_Subset
  <1>4. Ranking(HitsOf(curs, D \cup E)) BY <1>1, <1>3, HitsRank
  <1>5. T = BestOf(P, want) /\ U = BestOf(T \cup Q, want) OBVIOUS
  <1> HIDE DEF P, Q
  <1>6. Ranking(P \cup Q) BY <1>2, <1>4
  <1>7. FirstOf(T, P, want) BY <1>1, <1>5, <1>6, RankingSubset, BestOfIsFirst
  <1>8. Ranking(T \cup Q)
    <2>1. T \cup Q \subseteq P \cup Q BY <1>7 DEF FirstOf
    <2> QED BY <1>6, <2>1, RankingSubset
  <1>9. FirstOf(U, T \cup Q, want) BY <1>1, <1>5, <1>8, BestOfIsFirst
  <1>10. FirstOf(U, P \cup Q, want) BY <1>1, <1>6, <1>7, <1>9, FirstUnion
  <1>11. U = BestOf(P \cup Q, want) BY <1>1, <1>6, <1>10, FirstIsBestOf
  <1> QED BY <1>2, <1>11

\* fts_search_dense1: the live postings before the cursor have been offered.
DenseWalked(best, pos) ==
    \E c : /\ DOMAIN curs = {c} /\ DOMAIN pos = {c} /\ pos[c] \in 1 .. Len(curs[c].list) + 1
           /\ best = BestOf(HitsOf(curs, Docs(c, 1, pos[c] - 1)), want)

LEMMA DenseBlocks ==
    ASSUME Setup, RanksAll, DenseWalked(top, at), DenseBlock
    PROVE  DenseWalked(top', at')
  <1>1. PICK c : /\ DOMAIN curs = {c} /\ DOMAIN at = {c} /\ at[c] \in 1 .. Len(curs[c].list) + 1
                 /\ top = BestOf(HitsOf(curs, Docs(c, 1, at[c] - 1)), want)
    BY DEF DenseWalked
  <1> DEFINE cur == curs[c]
             n == Len(cur.list)
             p == at[c]
             b == CurBlock(c)
             lo == BlockStart(b)
             hi == BlockEnd(cur.list, b)
  <1>2. /\ p <= n /\ top' = BestOf(top \cup BlockHits(c, b), want)
        /\ at' = [at EXCEPT ![c] = hi + 1]
    BY <1>1 DEF DenseBlock
  <1>3. GoodCursors(curs) /\ GoodCursor(cur) BY <1>1, RelFacts DEF GoodCursors
  <1>4. GoodList(cur.list) /\ Len(cur.hdr) = NumBlocks(n) /\ n \in Nat
    BY <1>3 DEF GoodCursor, GoodList
  <1>5. p \in 1 .. n BY <1>1, <1>2, <1>4
  <1>6. b \in 1 .. Len(cur.hdr) /\ p \in lo .. hi BY <1>4, <1>5, BlockHas DEF CurBlock
  <1>7. lo \in 1 .. n /\ hi \in lo .. n BY <1>4, <1>6, BlockSpan
  <1>8. OneWord(curs)
    <2>1. Cardinality(DOMAIN curs) = 1 BY <1>1, FS_Singleton
    <2> QED BY <1>1, <2>1 DEF OneWord, Single
  <1> HIDE DEF lo, hi, b
  <1>9. /\ BlockHits(c, b) = HitsOf(curs, Docs(c, lo, hi)) /\ Docs(c, lo, hi) \subseteq Rel
    BY <1>1, <1>6, <1>8, BlockHitsAre DEF lo, hi
  <1>10. Docs(c, 1, p - 1) \subseteq Rel
    <2> SUFFICES ASSUME NEW j \in 1 .. p - 1, Alive(cur, j) PROVE cur.list[j].tid \in Rel
      BY DEF Docs
    <2>1. j \in 1 .. n BY <1>4, <1>5
    <2>2. LiveIn(cur, cur.list[j].tid) BY <2>1 DEF LiveIn
    <2> QED BY <1>1, <2>2, RelAll
  <1>11. Docs(c, 1, p - 1) \cup Docs(c, lo, hi) = Docs(c, 1, hi)
    <2>1. \A j : j \in 1 .. hi <=> j \in 1 .. p - 1 \/ j \in lo .. hi
      BY <1>4, <1>5, <1>6, <1>7
    <2> QED BY <2>1 DEF Docs
  <1> DEFINE D == Docs(c, 1, p - 1)
             E == Docs(c, lo, hi)
  <1>12. D \in SUBSET Rel /\ E \in SUBSET Rel BY <1>9, <1>10
  <1>13. top = BestOf(HitsOf(curs, D), want) /\ top' = BestOf(top \cup HitsOf(curs, E), want)
    BY <1>1, <1>2, <1>9
  <1> HIDE DEF D, E
  <1>14. top' = BestOf(HitsOf(curs, D \cup E), want) BY <1>12, <1>13, TopJoins
  <1>15. top' = BestOf(HitsOf(curs, Docs(c, 1, hi)), want) BY <1>11, <1>14 DEF D, E
  <1>16. DOMAIN at' = {c} /\ at'[c] = hi + 1 BY <1>1, <1>2
  <1>17. hi \in Nat /\ (hi + 1) - 1 = hi /\ hi + 1 \in 1 .. n + 1 BY <1>4, <1>7
  <1> QED BY <1>1, <1>15, <1>16, <1>17 DEF DenseWalked

LEMMA DenseEnds ==
    ASSUME Setup, RanksAll, DenseWalked(top, at), \A c \in DOMAIN curs : at[c] > Len(curs[c].list)
    PROVE  top = BestOf(WalkHits, want)
  <1>1. PICK c : /\ DOMAIN curs = {c} /\ at[c] \in 1 .. Len(curs[c].list) + 1
                 /\ top = BestOf(HitsOf(curs, Docs(c, 1, at[c] - 1)), want)
    BY DEF DenseWalked
  <1> DEFINE n == Len(curs[c].list)
  <1>2. n \in Nat BY <1>1, RelFacts DEF GoodCursors, GoodCursor, GoodList
  <1>3. at[c] - 1 = n BY <1>1, <1>2
  <1>4. Docs(c, 1, n) = Rel
    <2>1. \A d : d \in Docs(c, 1, n) <=> LiveIn(curs[c], d) BY DEF Docs, LiveIn
    <2>2. \A d \in Rel : LiveIn(curs[c], d)
      <3> TAKE d \in Rel
      <3>1. Holders(curs, d) # {} BY RelFacts
      <3> QED BY <3>1, <1>1 DEF Holders
    <2>3. \A d : LiveIn(curs[c], d) => d \in Rel BY <1>1, RelAll
    <2> QED BY <2>1, <2>2, <2>3
  <1>5. WalkHits = HitsOf(curs, Rel) BY RelFacts
  <1> QED BY <1>1, <1>3, <1>4, <1>5

-----------------------------------------------------------------------------
(* fts_search_bestfirst_n. *)

BestBlocks == BlocksOf(curs, "best")
DocsOf(e) == Docs(e.cur, BlockStart(e.blk), BlockEnd(curs[e.cur].list, e.blk))
Visited(left) == UNION {DocsOf(e) : e \in BestBlocks \ left}

\* The blocks no longer to do have been offered.
BestWalked(best, left) ==
    left \subseteq BestBlocks /\ best = BestOf(HitsOf(curs, Visited(left)), want)

LEMMA BestBlockIs ==
    ASSUME Setup, RanksAll, OneWord(curs), NEW e \in BestBlocks
    PROVE  /\ e.cur \in DOMAIN curs /\ e.blk \in 1 .. Len(curs[e.cur].hdr)
           /\ e.bound = curs[e.cur].bound[e.blk] /\ e.bound \in Nat
           /\ BlockHits(e.cur, e.blk) = HitsOf(curs, DocsOf(e))
           /\ DocsOf(e) \subseteq Rel
           /\ \A d \in DocsOf(e) : Total(curs, d) <= e.bound
  <1>0. PICK c \in DOMAIN curs : \E b \in DOMAIN curs[c].hdr : e = Block(c, b, curs[c].bound[b])
    BY DEF BestBlocks, BlocksOf
  <1>1. PICK b \in DOMAIN curs[c].hdr : e = Block(c, b, curs[c].bound[b]) BY <1>0
  <1>2. e.cur = c /\ e.blk = b /\ e.bound = curs[c].bound[b] BY <1>1 DEF Block
  <1>3. GoodCursor(curs[c]) BY RelFacts DEF GoodCursors
  <1>4. b \in 1 .. Len(curs[c].hdr) /\ curs[c].bound[b] \in Nat BY <1>3 DEF GoodCursor
  <1> QED BY <1>2, <1>4, BlockHitsAre DEF DocsOf

LEMMA BestBlocksFinite ==
    ASSUME Setup
    PROVE  IsFiniteSet(BestBlocks)
  <1> DEFINE X(c) == {Block(c, b, curs[c].bound[b]) : b \in DOMAIN curs[c].hdr}
             f == [c \in DOMAIN curs |-> X(c)]
             F == {f[c] : c \in DOMAIN curs}
  <1>1. GoodCursors(curs) BY RelFacts
  <1>2. ASSUME NEW c \in DOMAIN curs PROVE IsFiniteSet(X(c))
    <2> DEFINE S == DOMAIN curs[c].hdr
               g == [b \in S |-> Block(c, b, curs[c].bound[b])]
    <2>1. S = 1 .. Len(curs[c].hdr) /\ Len(curs[c].hdr) = NumBlocks(Len(curs[c].list))
          /\ Len(curs[c].list) \in Nat
      BY <1>1 DEF GoodCursors, GoodCursor, GoodList
    <2>2. NumBlocks(Len(curs[c].list)) \in Nat
      <3> DEFINE n == Len(curs[c].list)
      <3>1. BlockSize \in Nat \ {0} /\ n \in Nat BY <2>1, RankAssumption
      <3> HIDE DEF n
      <3>2. n + BlockSize - 1 \in Nat BY <3>1
      <3> QED BY <3>1, <3>2, Quotient DEF NumBlocks, n
    <2>3. IsFiniteSet(S) BY <2>1, <2>2, FS_Interval
    <2>4. g \in [S -> {g[b] : b \in S}] /\ X(c) = {g[b] : b \in S} OBVIOUS
    <2> HIDE DEF g, S, X
    <2> QED BY <2>3, <2>4, ImageFinite
  <1>3. IsFiniteSet(DOMAIN curs) BY <1>1 DEF GoodCursors
  <1>4. \A x \in F : IsFiniteSet(x) BY <1>2
  <1>5. BestBlocks = UNION F BY DEF BestBlocks, BlocksOf
  <1>6. f \in [DOMAIN curs -> F]
    <2> HIDE DEF X
    <2> QED OBVIOUS
  <1> HIDE DEF f
  <1>7. IsFiniteSet(F) BY <1>3, <1>6, ImageFinite
  <1> HIDE DEF F
  <1> QED BY <1>4, <1>5, <1>7, FS_UNION

LEMMA VisitedRelevant ==
    ASSUME Setup, RanksAll, OneWord(curs), NEW left
    PROVE  Visited(left) \subseteq Rel
  BY BestBlockIs DEF Visited

LEMMA BestVisits ==
    ASSUME Setup, RanksAll, OneWord(curs), BestWalked(top, todo), BestFirstBlock
    PROVE  BestWalked(top', todo')
  <1>1. PICK e \in Visitable : /\ todo' = todo \ {e}
                               /\ top' = BestOf(top \cup BlockHits(e.cur, e.blk), want)
    BY DEF BestFirstBlock
  <1>2. e \in todo BY DEF Visitable
  <1>3. todo \subseteq BestBlocks /\ top = BestOf(HitsOf(curs, Visited(todo)), want)
    BY DEF BestWalked
  <1>4. e \in BestBlocks BY <1>2, <1>3
  <1>5. BlockHits(e.cur, e.blk) = HitsOf(curs, DocsOf(e)) /\ DocsOf(e) \in SUBSET Rel
    BY <1>4, BestBlockIs
  <1>6. Visited(todo) \in SUBSET Rel BY VisitedRelevant
  <1>7. Visited(todo) \cup DocsOf(e) = Visited(todo')
    <2>1. BestBlocks \ todo' = (BestBlocks \ todo) \cup {e} BY <1>1, <1>2, <1>4
    <2> DEFINE V == BestBlocks \ todo
    <2>2. UNION {DocsOf(x) : x \in V \cup {e}} = (UNION {DocsOf(x) : x \in V}) \cup DocsOf(e)
      <3> HIDE DEF V
      <3> QED OBVIOUS
    <2>3. Visited(todo') = UNION {DocsOf(x) : x \in V \cup {e}} BY <2>1 DEF Visited
    <2> QED BY <2>2, <2>3 DEF Visited
  <1> DEFINE D == Visited(todo)
             E == DocsOf(e)
  <1>8. top = BestOf(HitsOf(curs, D), want) /\ top' = BestOf(top \cup HitsOf(curs, E), want)
    BY <1>1, <1>3, <1>5
  <1>9. D \in SUBSET Rel /\ E \in SUBSET Rel BY <1>5, <1>6
  <1> HIDE DEF D, E
  <1>10. top' = BestOf(HitsOf(curs, D \cup E), want) BY <1>8, <1>9, TopJoins
  <1>11. todo' \subseteq BestBlocks BY <1>1, <1>3
  <1> QED BY <1>7, <1>10, <1>11 DEF BestWalked, D, E

\* A block of the highest bound, if any is left.
LEMMA HighestBound ==
    ASSUME NEW S, IsFiniteSet(S), S # {}, \A e \in S : e.bound \in Int
    PROVE  \E e \in S : \A f \in S : f.bound <= e.bound
  <1> DEFINE R == {p \in S \X S : p[1].bound <= p[2].bound}
  <1>1. \A x, y \in S : <<x, y>> \in R <=> x.bound <= y.bound OBVIOUS
  <1> HIDE DEF R
  <1>2. ASSUME NEW x \in S, NEW y \in S PROVE <<x, y>> \in R \/ <<y, x>> \in R
    <2>1. x.bound \in Int /\ y.bound \in Int OBVIOUS
    <2>2. x.bound <= y.bound \/ y.bound <= x.bound BY <2>1
    <2> QED BY <1>1, <2>2
  <1>3. ASSUME NEW x \in S, NEW y \in S, NEW z \in S, <<x, y>> \in R, <<y, z>> \in R
        PROVE  <<x, z>> \in R
    <2>1. x.bound \in Int /\ y.bound \in Int /\ z.bound \in Int OBVIOUS
    <2>2. x.bound <= y.bound /\ y.bound <= z.bound BY <1>1, <1>3
    <2>3. x.bound <= z.bound BY <2>1, <2>2
    <2> QED BY <1>1, <2>3
  <1>4. \E x \in S : \A y \in S : <<y, x>> \in R BY <1>2, <1>3, Greatest
  <1> QED BY <1>1, <1>4

LEMMA BestEnds ==
    ASSUME Setup, RanksAll, OneWord(curs), BestWalked(top, todo), Visitable = {}
    PROVE  top = BestOf(WalkHits, want)
  <1>1. todo \subseteq BestBlocks /\ top = BestOf(HitsOf(curs, Visited(todo)), want)
    BY DEF BestWalked
  <1>2. GoodCursors(curs) /\ Rel \subseteq Nat /\ IsFiniteSet(Rel) /\ WalkHits = HitsOf(curs, Rel)
        /\ want \in Nat \ {0}
    BY RelFacts DEF Setup
  <1>3. Visited(todo) \in SUBSET Rel BY VisitedRelevant
  <1>4. ASSUME NEW d \in Rel
        PROVE  \E e \in BestBlocks : d \in DocsOf(e)
    <2>1. PICK c \in DOMAIN curs : LiveIn(curs[c], d) BY RelFacts DEF Holders
    <2>2. PICK j \in 1 .. Len(curs[c].list) : curs[c].list[j].tid = d /\ Alive(curs[c], j)
      BY <2>1 DEF LiveIn
    <2>3. GoodList(curs[c].list) /\ Len(curs[c].hdr) = NumBlocks(Len(curs[c].list))
          /\ DOMAIN curs[c].hdr = 1 .. Len(curs[c].hdr)
      BY <1>2 DEF GoodCursors, GoodCursor
    <2> DEFINE b == BlockOf(j)
               e == Block(c, b, curs[c].bound[b])
    <2>4. b \in DOMAIN curs[c].hdr /\ j \in BlockStart(b) .. BlockEnd(curs[c].list, b)
      BY <2>3, BlockHas
    <2>5. e \in BestBlocks BY <2>4 DEF BestBlocks, BlocksOf
    <2>6. e.cur = c /\ e.blk = b BY DEF Block
    <2>7. d \in Docs(c, BlockStart(b), BlockEnd(curs[c].list, b)) BY <2>2, <2>4 DEF Docs
    <2> QED BY <2>5, <2>6, <2>7 DEF DocsOf
  <1>5. \A e \in todo : e \in BestBlocks /\ e.bound \in Nat BY <1>1, BestBlockIs
  <1>6. ASSUME NEW d \in Rel, d \notin Visited(todo)
        PROVE  /\ Cardinality(top) = want
               /\ \A t \in top : Worse(Hit(d, Total(curs, d)), t)
    <2>1. PICK e \in BestBlocks : d \in DocsOf(e) BY <1>4
    <2>2. e \in todo BY <1>6, <2>1 DEF Visited
    <2>3. IsFiniteSet(todo) BY <1>1, BestBlocksFinite, FS_Subset
    <2>4. \A x \in todo : x.bound \in Int BY <1>5
    <2>5. PICK m \in todo : \A f \in todo : f.bound <= m.bound
      BY <2>2, <2>3, <2>4, HighestBound
    <2>6. m.bound \in Nat /\ e.bound \in Nat /\ e.bound <= m.bound BY <1>5, <2>2, <2>5
    <2>7. m.bound >= 0 BY <2>6
    <2>8. Full /\ m.bound < Threshold BY <2>5, <2>7 DEF Visitable
    <2>9. Total(curs, d) <= e.bound /\ Total(curs, d) \in Nat
      BY <1>2, <2>1, BestBlockIs, HoldersCount
    <2>10. Threshold \in Nat /\ \A t \in top : Threshold <= t.score /\ t.score \in Nat
      BY <1>1, <1>3, <2>8, ThresholdIs
    <2>11. ASSUME NEW t \in top PROVE Worse(Hit(d, Total(curs, d)), t)
      <3>1. Total(curs, d) < t.score BY <2>6, <2>8, <2>9, <2>10
      <3> QED BY <3>1, HitFields DEF Worse
    <2> QED BY <2>8, <2>11 DEF Full
  <1> DEFINE D == Visited(todo)
  <1>7. top = BestOf(HitsOf(curs, D), want) BY <1>1
  <1>8. Shadowed(curs, Rel \ D, want, top) BY <1>6 DEF Shadowed
  <1>9. D \subseteq Rel BY <1>3
  <1> HIDE DEF D
  <1>10. top = BestOf(HitsOf(curs, Rel), want) BY <1>7, <1>8, <1>9, TopKeeps
  <1> QED BY <1>2, <1>10

-----------------------------------------------------------------------------
(* fts_search_and_bestfirst: blocks and bounds. *)

AndWalk == walk.how = "and" /\ walk.gate \in {"bool", "phrase"} /\ ~walk.filtered

\* A matching document is held by all the cursors of its segment.
LEMMA WholeDoc ==
    ASSUME Setup, AndWalk, NEW d \in Rel
    PROVE  \E s \in DOMAIN index.segs :
              /\ d \in SegTids(index, s) /\ Relevant(s, d)
              /\ Group(curs, s) = Holders(curs, d) /\ Group(curs, s) # {}
              /\ {WordOf(c) : c \in Group(curs, s)} = AllWords
  <1> DEFINE terms == QueryTerms(query)
  <1>1. PICK s \in DOMAIN index.segs : d \in SegTids(index, s) /\ Relevant(s, d) BY DEF Rel
  <1>2. WordsIn(index.segs[s].docs[d]) = AllWords /\ AllWords # {}
    BY <1>1 DEF Relevant, AndWalk
  <1>3. Holders(curs, d) = {<<t, s>> : t \in AllWords} BY <1>1, <1>2, HoldersOfDoc
  <1>4. Holders(curs, d) \subseteq DOMAIN curs BY DEF Holders
  <1>5. ASSUME NEW c \in Group(curs, s) PROVE c \in Holders(curs, d)
    <2>1. c \in DOMAIN curs /\ SegOf(c) = s BY DEF Group
    <2>2. c \in (DOMAIN terms) \X (DOMAIN index.segs) /\ c = <<WordOf(c), SegOf(c)>>
      BY <2>1, CursorOf DEF Setup
    <2>3. WordOf(c) \in AllWords BY <2>2 DEF WordOf, AllWords
    <2> QED BY <1>3, <2>1, <2>2, <2>3
  <1>6. ASSUME NEW t \in AllWords
        PROVE  /\ <<t, s>> \in Group(curs, s) /\ WordOf(<<t, s>>) = t
    BY <1>3, <1>4 DEF Group, SegOf, WordOf
  <1>7. Group(curs, s) = Holders(curs, d) BY <1>3, <1>5, <1>6
  <1>8. {WordOf(c) : c \in Group(curs, s)} = AllWords
    <2>1. \A c \in Group(curs, s) : WordOf(c) \in AllWords BY <1>3, <1>6, <1>7
    <2> QED BY <2>1, <1>6
  <1> QED BY <1>1, <1>2, <1>6, <1>7, <1>8

LEMMA PrecedesIs ==
    ASSUME NEW c, NEW o
    PROVE  Precedes(c, o) <=> WordOf(c) < WordOf(o) \/ (WordOf(c) = WordOf(o) /\ SegOf(c) <= SegOf(o))
  BY DEF Precedes

\* Segments of cursors; the rarest word of a segment.
LEMMA RarestIs ==
    ASSUME Setup, NEW s, Group(curs, s) # {}
    PROVE  /\ Rarest(curs, s) \in Group(curs, s) /\ Rarest(curs, s) \in DOMAIN curs
           /\ SegOf(Rarest(curs, s)) = s /\ s \in DOMAIN index.segs
  <1> DEFINE S == Group(curs, s)
             terms == QueryTerms(query)
             R == {p \in S \X S :
                     \/ Len(curs[p[2]].list) < Len(curs[p[1]].list)
                     \/ Len(curs[p[2]].list) = Len(curs[p[1]].list) /\ Precedes(p[2], p[1])}
  <1>1. GoodCursors(curs) /\ S \subseteq DOMAIN curs BY RelFacts DEF Group
  <1>2. IsFiniteSet(S)
    <2> HIDE DEF S
    <2> QED BY <1>1, FS_Subset DEF GoodCursors
  <1>3. ASSUME NEW c \in S
        PROVE  /\ Len(curs[c].list) \in Nat /\ WordOf(c) \in Nat /\ SegOf(c) \in Nat
               /\ SegOf(c) \in DOMAIN index.segs
    <2>1. Len(curs[c].list) \in Nat BY <1>1 DEF GoodCursors, GoodCursor, GoodList
    <2>2. c \in (DOMAIN terms) \X (DOMAIN index.segs) BY <1>1, CursorOf DEF Setup
    <2>3. WordOf(c) \in DOMAIN terms /\ SegOf(c) \in DOMAIN index.segs
      BY <2>2 DEF WordOf, SegOf
    <2>4. SegOf(c) \in Nat BY <2>3 DEF Setup, RankedCorpus
    <2>5. Listed(terms) BY DEF Setup
    <2>6. WordOf(c) \in Nat
      <3> HIDE DEF terms
      <3> QED BY <2>3, <2>5 DEF Listed
    <2> QED BY <2>1, <2>3, <2>4, <2>6
  <1>4. \A x, y \in S : <<x, y>> \in R <=>
           \/ Len(curs[y].list) < Len(curs[x].list)
           \/ Len(curs[y].list) = Len(curs[x].list) /\ Precedes(y, x)
    OBVIOUS
  <1>5. S # {} OBVIOUS
  <1> HIDE DEF R, S
  <1>6. ASSUME NEW x \in S, NEW y \in S PROVE <<x, y>> \in R \/ <<y, x>> \in R
    BY <1>3, <1>4 DEF Precedes
  <1>7. ASSUME NEW x \in S, NEW y \in S, NEW z \in S, <<x, y>> \in R, <<y, z>> \in R
        PROVE  <<x, z>> \in R
    <2> DEFINE lx == Len(curs[x].list)
               ly == Len(curs[y].list)
               lz == Len(curs[z].list)
               wx == WordOf(x)
               wy == WordOf(y)
               wz == WordOf(z)
               sx == SegOf(x)
               sy == SegOf(y)
               sz == SegOf(z)
    <2>1. /\ lx \in Nat /\ ly \in Nat /\ lz \in Nat /\ wx \in Nat /\ wy \in Nat
          /\ wz \in Nat /\ sx \in Nat /\ sy \in Nat /\ sz \in Nat
      BY <1>3
    <2>2. ly < lx \/ (ly = lx /\ (wy < wx \/ (wy = wx /\ sy <= sx)))
      BY <1>4, <1>7, PrecedesIs
    <2>3. lz < ly \/ (lz = ly /\ (wz < wy \/ (wz = wy /\ sz <= sy)))
      BY <1>4, <1>7, PrecedesIs
    <2>4. <<x, z>> \in R <=> lz < lx \/ (lz = lx /\ (wz < wx \/ (wz = wx /\ sz <= sx)))
      BY <1>4, PrecedesIs
    <2> HIDE DEF lx, ly, lz, wx, wy, wz, sx, sy, sz
    <2> QED BY <2>1, <2>2, <2>3, <2>4
  <1>8. \E x \in S : \A y \in S : <<y, x>> \in R BY <1>2, <1>5, <1>6, <1>7, Greatest
  <1>9. \E x \in S : \A o \in S :
           \/ Len(curs[x].list) < Len(curs[o].list)
           \/ Len(curs[x].list) = Len(curs[o].list) /\ Precedes(x, o)
    BY <1>4, <1>8
  <1>10. Rarest(curs, s) \in S BY <1>9 DEF Rarest, S
  <1>11. SegOf(Rarest(curs, s)) = s BY <1>10 DEF S, Group
  <1> QED BY <1>1, <1>3, <1>10, <1>11 DEF S

\* The bound of a driver block, by the best blocks of the other words.
Inner(drv, b, o) ==
    IF o = drv THEN {b}
    ELSE Overlapping(curs[o], curs[drv].hdr[b].first,
                     IF b < Len(curs[drv].hdr) THEN curs[drv].hdr[b + 1].first ELSE Nowhere)
BestBound(drv, b) ==
    [o \in Group(curs, SegOf(drv)) |-> Max({curs[o].bound[j] : j \in Inner(drv, b, o)})]

LEMMA DriverBoundDef ==
    ASSUME NEW drv, NEW b
    PROVE  DriverBound(curs, drv, b) =
              IF \E o \in Group(curs, SegOf(drv)) : Inner(drv, b, o) = {} THEN -1
              ELSE SumFunction(BestBound(drv, b))
  BY DEF DriverBound, Inner, BestBound

LEMMA InnerBound ==
    ASSUME GoodCursors(curs), NEW drv \in DOMAIN curs, NEW b \in 1 .. Len(curs[drv].hdr),
           NEW o \in Group(curs, SegOf(drv)), Inner(drv, b, o) # {}
    PROVE  /\ BestBound(drv, b)[o] \in Nat
           /\ \A j \in Inner(drv, b, o) : curs[o].bound[j] <= BestBound(drv, b)[o]
  <1> DEFINE I == Inner(drv, b, o)
             S == {curs[o].bound[j] : j \in I}
             f == [j \in I |-> curs[o].bound[j]]
             m == Len(curs[o].hdr)
  <1>1. o \in DOMAIN curs BY DEF Group
  <1>2. /\ GoodCursor(curs[o]) /\ DOMAIN curs[o].hdr = 1 .. m
        /\ m = NumBlocks(Len(curs[o].list)) /\ Len(curs[o].list) \in Nat
    BY <1>1 DEF GoodCursors, GoodCursor, GoodList
  <1>3. I \subseteq 1 .. m BY <1>2 DEF Inner, Overlapping
  <1>4. m \in Nat
    <2> DEFINE n == Len(curs[o].list)
    <2>1. BlockSize \in Nat \ {0} /\ n \in Nat BY <1>2, RankAssumption
    <2> HIDE DEF n
    <2>2. n + BlockSize - 1 \in Nat BY <2>1
    <2>3. m = NumBlocks(n) BY <1>2 DEF n
    <2> QED BY <2>1, <2>2, <2>3, Quotient DEF NumBlocks
  <1> HIDE DEF I
  <1>5. IsFiniteSet(I)
    <2> HIDE DEF m
    <2>1. 1 \in Int /\ m \in Int BY <1>4
    <2>2. IsFiniteSet(1 .. m) BY <2>1, FS_Interval
    <2> QED BY <1>3, <2>2, FS_Subset
  <1>6. f \in [I -> {f[j] : j \in I}] /\ S = {f[j] : j \in I} OBVIOUS
  <1>7. IsFiniteSet({f[j] : j \in I})
    <2> HIDE DEF f
    <2> QED BY <1>5, <1>6, ImageFinite
  <1>8. \A j \in I : curs[o].bound[j] \in Nat BY <1>2, <1>3 DEF GoodCursor
  <1>9. S \subseteq Nat /\ S \subseteq Int /\ S # {} /\ IsFiniteSet(S)
    <2>1. S \subseteq Nat BY <1>8
    <2>2. S # {} BY DEF I
    <2>3. IsFiniteSet(S) BY <1>6, <1>7
    <2> HIDE DEF S
    <2> QED BY <2>1, <2>2, <2>3
  <1>10. BestBound(drv, b)[o] = Max(S) BY DEF BestBound, I
  <1>11. \A j \in I : curs[o].bound[j] \in S OBVIOUS
  <1> HIDE DEF S
  <1>12. Max(S) \in S /\ \A y \in S : Max(S) >= y BY <1>9, LargestOf
  <1>13. Max(S) \in Nat BY <1>9, <1>12
  <1>14. ASSUME NEW j \in I PROVE curs[o].bound[j] <= Max(S)
    <2>1. Max(S) >= curs[o].bound[j] /\ curs[o].bound[j] \in Nat BY <1>8, <1>11, <1>12
    <2> QED BY <2>1, <1>13
  <1> QED BY <1>10, <1>13, <1>14 DEF I

LEMMA DriverBoundType ==
    ASSUME GoodCursors(curs), NEW drv \in DOMAIN curs, NEW b \in 1 .. Len(curs[drv].hdr)
    PROVE  /\ DriverBound(curs, drv, b) \in Int
           /\ (\A o \in Group(curs, SegOf(drv)) : Inner(drv, b, o) # {}) =>
                 /\ DriverBound(curs, drv, b) = SumFunctionOnSet(BestBound(drv, b), Group(curs, SegOf(drv)))
                 /\ DriverBound(curs, drv, b) \in Nat
                 /\ IsFiniteSet(Group(curs, SegOf(drv)))
  <1> DEFINE H == Group(curs, SegOf(drv))
             F == BestBound(drv, b)
  <1>1. CASE \E o \in H : Inner(drv, b, o) = {}
    <2>1. DriverBound(curs, drv, b) = -1 BY <1>1, DriverBoundDef
    <2>2. -1 \in Int OBVIOUS
    <2> QED BY <1>1, <2>1, <2>2
  <1>2. CASE \A o \in H : Inner(drv, b, o) # {}
    <2>1. DriverBound(curs, drv, b) = SumFunction(F) BY <1>2, DriverBoundDef
    <2>2. \A o \in H : F[o] \in Nat BY <1>2, InnerBound
    <2>3. H \subseteq DOMAIN curs BY DEF Group
    <2>4. DOMAIN F = H BY DEF BestBound
    <2> HIDE DEF F, H
    <2>5. IsFiniteSet(H) BY <2>3, FS_Subset DEF GoodCursors
    <2>6. Counts(F, H) BY <2>2, <2>5 DEF Counts
    <2>7. SumFunction(F) = SumFunctionOnSet(F, H) BY <2>4, SumIs
    <2>8. SumFunctionOnSet(F, H) \in Nat BY <2>6, SumType
    <2>9. DriverBound(curs, drv, b) \in Int BY <2>1, <2>7, <2>8
    <2> QED BY <2>1, <2>5, <2>7, <2>8, <2>9 DEF F, H
  <1> QED BY <1>1, <1>2

\* A document of the driver's block lies in blocks its range overlaps.
LEMMA DriverBoundIs ==
    ASSUME GoodCursors(curs), NEW drv \in DOMAIN curs, NEW b \in 1 .. Len(curs[drv].hdr),
           NEW d \in Docs(drv, BlockStart(b), BlockEnd(curs[drv].list, b)),
           Holders(curs, d) = Group(curs, SegOf(drv))
    PROVE  /\ DriverBound(curs, drv, b) \in Nat
           /\ Total(curs, d) <= DriverBound(curs, drv, b)
  <1> DEFINE H == Group(curs, SegOf(drv))
             dc == curs[drv]
             low == dc.hdr[b].first
             high == IF b < Len(dc.hdr) THEN dc.hdr[b + 1].first ELSE Nowhere
  <1>0. Nowhere \in Nat BY RankAssumption
  <1>1. GoodCursor(dc) BY DEF GoodCursors
  <1>2. /\ GoodList(dc.list) /\ Len(dc.hdr) = NumBlocks(Len(dc.list)) /\ Len(dc.list) \in Nat
        /\ dc.hdr[b].first = dc.list[BlockStart(b)].tid
    BY <1>1 DEF GoodCursor, GoodList
  <1>3. PICK q \in BlockStart(b) .. BlockEnd(dc.list, b) : d = dc.list[q].tid BY DEF Docs
  <1>4. /\ BlockStart(b) \in 1 .. Len(dc.list) /\ BlockEnd(dc.list, b) \in BlockStart(b) .. Len(dc.list)
        /\ b < Len(dc.hdr) => BlockStart(b + 1) = BlockEnd(dc.list, b) + 1
    BY <1>2, BlockSpan
  <1>5. q \in 1 .. Len(dc.list) /\ BlockStart(b) <= q BY <1>2, <1>3, <1>4
  <1>6. d \in 0 .. Nowhere - 1 /\ low \in 0 .. Nowhere - 1 BY <1>2, <1>3, <1>4, <1>5 DEF GoodList
  <1>7. low <= d
    <2>1. BlockStart(b) = q \/ dc.list[BlockStart(b)].tid < dc.list[q].tid
      BY <1>2, <1>4, <1>5 DEF GoodList
    <2> QED BY <2>1, <1>0, <1>2, <1>3, <1>6
  <1>8. d < high /\ high \in 0 .. Nowhere
    <2>1. CASE b < Len(dc.hdr)
      <3>0. NumBlocks(Len(dc.list)) \in Nat
        <4> DEFINE n == Len(dc.list)
        <4>1. BlockSize \in Nat \ {0} /\ n \in Nat BY <1>2, RankAssumption
        <4> HIDE DEF n
        <4>2. n + BlockSize - 1 \in Nat BY <4>1
        <4> QED BY <4>1, <4>2, Quotient DEF NumBlocks, n
      <3>1. b + 1 \in 1 .. Len(dc.hdr) BY <1>2, <2>1, <3>0
      <3>2. high = dc.list[BlockStart(b + 1)].tid BY <1>1, <2>1, <3>1 DEF GoodCursor
      <3>3. BlockStart(b + 1) \in 1 .. Len(dc.list) BY <1>2, <3>1, BlockSpan
      <3>4. q < BlockStart(b + 1) BY <1>2, <1>3, <1>4, <2>1
      <3>5. dc.list[q].tid < dc.list[BlockStart(b + 1)].tid BY <1>2, <1>5, <3>3, <3>4 DEF GoodList
      <3>6. high \in 0 .. Nowhere - 1 BY <1>2, <3>2, <3>3 DEF GoodList
      <3> HIDE DEF high
      <3> QED BY <1>0, <1>3, <3>2, <3>5, <3>6
    <2>2. CASE ~(b < Len(dc.hdr)) BY <2>2, <1>0, <1>6
    <2> QED BY <2>1, <2>2
  <1> HIDE DEF low, high
  <1>9. ASSUME NEW o \in H
        PROVE  /\ BlockOf(PlaceOf(curs[o], d)) \in Inner(drv, b, o)
               /\ Weights(curs, d)[o] <= curs[o].bound[BlockOf(PlaceOf(curs[o], d))]
               /\ Weights(curs, d)[o] \in Nat
               /\ curs[o].bound[BlockOf(PlaceOf(curs[o], d))] \in Nat
    <2> DEFINE oc == curs[o]
               p == PlaceOf(oc, d)
               x == BlockOf(p)
               n == Len(oc.list)
    <2>1. o \in DOMAIN curs /\ LiveIn(oc, d) BY DEF Holders
    <2>2. GoodCursor(oc) BY <2>1 DEF GoodCursors
    <2>3. p \in 1 .. n /\ oc.list[p].tid = d BY <2>1, <2>2, LivePlace
    <2>4. GoodList(oc.list) /\ Len(oc.hdr) = NumBlocks(n) /\ n \in Nat /\ DOMAIN oc.hdr = 1 .. Len(oc.hdr)
      BY <2>2 DEF GoodCursor, GoodList
    <2>5. x \in 1 .. Len(oc.hdr) /\ p \in BlockStart(x) .. BlockEnd(oc.list, x)
      BY <2>3, <2>4, BlockHas
    <2>6. /\ BlockStart(x) \in 1 .. n /\ BlockEnd(oc.list, x) \in BlockStart(x) .. n
          /\ x < Len(oc.hdr) => BlockStart(x + 1) = BlockEnd(oc.list, x) + 1
      BY <2>4, <2>5, BlockSpan
    <2>7. /\ oc.hdr[x].first = oc.list[BlockStart(x)].tid /\ oc.bound[x] \in Nat
          /\ Score(oc, p) <= oc.bound[x] /\ Score(oc, p) \in Nat
      BY <2>2, <2>3, <2>5 DEF GoodCursor
    <2>8. Weights(curs, d)[o] = Score(oc, p) BY <2>1 DEF Weights
    <2>9. x \in Inner(drv, b, o)
      <3>1. CASE o = drv
        <4>1. p = q BY <1>1, <1>3, <1>5, <3>1, PlaceIs
        <4>2. x = b
          <5>1. GoodList(dc.list) /\ q \in 1 .. Len(dc.list) BY <1>2, <1>5
          <5>2. b \in Nat \ {0} /\ x \in Nat \ {0} BY <1>2, <2>5
          <5>3. q \in BlockStart(b) .. BlockEnd(dc.list, b) BY <1>3
          <5>4. q \in BlockStart(x) .. BlockEnd(dc.list, x) BY <2>5, <3>1, <4>1
          <5>5. ASSUME NEW u \in 1 .. Len(dc.hdr), NEW v \in 1 .. Len(dc.hdr), u < v,
                       q \in BlockStart(u) .. BlockEnd(dc.list, u), q \in BlockStart(v) .. BlockEnd(dc.list, v)
                PROVE  FALSE
            <6>0. u \in Nat \ {0} /\ v \in Nat \ {0} /\ u + 1 \in Nat \ {0} /\ u + 1 <= v
              BY <5>5
            <6>1. BlockStart(u + 1) <= BlockStart(v) /\ BlockStart(u + 1) \in Nat
              BY <6>0, BlockOrder
            <6>2. u <= u BY <6>0
            <6>2a. BlockStart(u + 1) = u * BlockSize + 1 BY <6>0, <6>2, BlockOrder
            <6>3. v <= v BY <6>0
            <6>3a. BlockStart(v) \in Nat BY <6>0, <6>3, BlockOrder
            <6> DEFINE S == {u * BlockSize, Len(dc.list)}
            <6>4. u * BlockSize \in Nat
              <7>1. BlockSize \in Nat BY RankAssumption
              <7>2. u \in Nat BY <6>0
              <7> QED BY <7>1, <7>2, <6>2, MulMono
            <6>5. S \subseteq Nat /\ S # {} /\ u * BlockSize \in S BY <1>2, <6>4
            <6>6. Min(S) <= u * BlockSize /\ Min(S) \in Nat BY <6>5, LeastOf
            <6>7. BlockEnd(dc.list, u) = Min(S) BY DEF BlockEnd
            <6> HIDE DEF S
            <6> QED BY <5>5, <6>1, <6>2a, <6>3a, <6>4, <6>6, <6>7, <1>2, <1>5
          <5>6. b \in 1 .. Len(dc.hdr) /\ x \in 1 .. Len(dc.hdr) BY <2>5, <3>1
          <5>7. ~(b < x) BY <5>3, <5>4, <5>5, <5>6
          <5>8. ~(x < b) BY <5>3, <5>4, <5>5, <5>6
          <5> HIDE DEF x
          <5> QED BY <5>2, <5>7, <5>8
        <4> QED BY <3>1, <4>2 DEF Inner
      <3>2. CASE o # drv
        <4>1. oc.hdr[x].first < high
          <5> DEFINE b1 == BlockStart(x)
                     lst == oc.list
                     f == oc.hdr[x].first
          <5>0. b1 \in 1 .. n /\ p \in 1 .. n /\ b1 <= p /\ n \in Nat BY <2>3, <2>4, <2>5, <2>6
          <5>a. GoodList(lst) /\ n = Len(lst) /\ f = lst[b1].tid /\ lst[p].tid = d BY <2>3, <2>4, <2>7
          <5> HIDE DEF x, p, b1, lst, n, f
          <5>b. b1 = p \/ b1 < p BY <5>0
          <5>1. b1 = p \/ lst[b1].tid < lst[p].tid
            BY <5>0, <5>a, <5>b DEF GoodList
          <5>2. lst[b1].tid \in 0 .. Nowhere - 1 BY <5>0, <5>a DEF GoodList
          <5>3. f <= d /\ f \in Nat BY <5>1, <5>2, <5>a, <1>0, <1>6
          <5>4. f < high BY <5>3, <1>0, <1>6, <1>8
          <5> QED BY <5>4 DEF f, x
        <4>2. x < Len(oc.hdr) => oc.hdr[x + 1].first > low
          <5> SUFFICES ASSUME x < Len(oc.hdr) PROVE oc.hdr[x + 1].first > low OBVIOUS
          <5>0. NumBlocks(n) \in Nat
            <6> HIDE DEF n
            <6>1. BlockSize \in Nat \ {0} BY RankAssumption
            <6>2. n + BlockSize - 1 \in Nat BY <2>4, <6>1
            <6> QED BY <6>1, <6>2, Quotient DEF NumBlocks
          <5>1. x + 1 \in 1 .. Len(oc.hdr) BY <2>4, <2>5, <5>0
          <5>2. oc.hdr[x + 1].first = oc.list[BlockStart(x + 1)].tid BY <2>2, <5>1 DEF GoodCursor
          <5>3. BlockStart(x + 1) \in 1 .. n BY <2>4, <5>1, BlockSpan
          <5>4. p < BlockStart(x + 1) BY <2>3, <2>4, <2>5, <2>6
          <5>5. oc.list[p].tid < oc.list[BlockStart(x + 1)].tid
            BY <2>3, <2>4, <5>3, <5>4 DEF GoodList
          <5>6. oc.list[BlockStart(x + 1)].tid \in 0 .. Nowhere - 1 BY <2>4, <5>3 DEF GoodList
          <5> HIDE DEF x, p
          <5> QED BY <5>2, <5>5, <5>6, <2>3, <1>0, <1>6, <1>7
        <4>3. x \in Overlapping(oc, low, high) BY <2>4, <2>5, <4>1, <4>2 DEF Overlapping
        <4> QED BY <3>2, <4>3 DEF Inner, low, high
      <3> QED BY <3>1, <3>2
    <2> QED BY <2>7, <2>8, <2>9
  <1>10. \A o \in H : Inner(drv, b, o) # {} BY <1>9
  <1>11. /\ DriverBound(curs, drv, b) = SumFunctionOnSet(BestBound(drv, b), H)
         /\ DriverBound(curs, drv, b) \in Nat /\ IsFiniteSet(H)
    BY <1>10, DriverBoundType
  <1> DEFINE F == BestBound(drv, b)
  <1>12. ASSUME NEW o \in H PROVE F[o] \in Nat /\ Weights(curs, d)[o] <= F[o]
    <2> DEFINE x == BlockOf(PlaceOf(curs[o], d))
               w == Weights(curs, d)[o]
    <2>1. F[o] \in Nat /\ curs[o].bound[x] <= F[o] BY <1>9, <1>10, InnerBound
    <2>2. w <= curs[o].bound[x] /\ w \in Nat /\ curs[o].bound[x] \in Nat BY <1>9
    <2> HIDE DEF x, w, F
    <2> QED BY <2>1, <2>2 DEF w
  <1>13. Holders(curs, d) = H OBVIOUS
  <1> HIDE DEF F, H
  <1>14. Total(curs, d) <= SumFunctionOnSet(F, H)
    <2>1. Holders(curs, d) \subseteq H BY <1>13
    <2>2. \A c \in H : F[c] \in Nat BY <1>12
    <2>3. \A c \in Holders(curs, d) : Weights(curs, d)[c] <= F[c] BY <1>12, <1>13
    <2> QED BY <1>11, <2>1, <2>2, <2>3, TotalBounded
  <1> QED BY <1>11, <1>14 DEF F, H

AndBlocks == BlocksOf(curs, "and")

LEMMA AndBlockIs ==
    ASSUME Setup, NEW e \in AndBlocks
    PROVE  /\ e.cur \in DOMAIN curs /\ e.blk \in 1 .. Len(curs[e.cur].hdr)
           /\ {WordOf(c) : c \in Group(curs, SegOf(e.cur))} = AllWords
           /\ e.cur \in Group(curs, SegOf(e.cur)) /\ Rarest(curs, SegOf(e.cur)) = e.cur
           /\ e.bound = DriverBound(curs, e.cur, e.blk) /\ e.bound \in Int
           /\ e = Block(e.cur, e.blk, e.bound) /\ e # NoBlock
  <1>1. PICK s \in {SegOf(c) : c \in DOMAIN curs} :
           /\ {WordOf(c) : c \in Group(curs, s)} = AllWords
           /\ \E b \in DOMAIN curs[Rarest(curs, s)].hdr :
                 e = Block(Rarest(curs, s), b, DriverBound(curs, Rarest(curs, s), b))
    BY DEF AndBlocks, BlocksOf
  <1> DEFINE r == Rarest(curs, s)
  <1>2. PICK b \in DOMAIN curs[r].hdr : e = Block(r, b, DriverBound(curs, r, b)) BY <1>1
  <1>3. e.cur = r /\ e.blk = b /\ e.bound = DriverBound(curs, r, b) BY <1>2 DEF Block
  <1>4. Group(curs, s) # {} BY DEF Group
  <1>5. r \in Group(curs, s) /\ r \in DOMAIN curs /\ SegOf(r) = s BY <1>4, RarestIs
  <1> HIDE DEF r
  <1>6. GoodCursors(curs) /\ GoodCursor(curs[r]) BY <1>5, RelFacts DEF GoodCursors
  <1>7. b \in 1 .. Len(curs[r].hdr) BY <1>6 DEF GoodCursor
  <1>8. DriverBound(curs, r, b) \in Int BY <1>5, <1>6, <1>7, DriverBoundType
  <1>9. e # NoBlock
    <2>1. NoBlock.blk = 0 BY DEF NoBlock, Block
    <2>2. e.blk # 0 BY <1>3, <1>7
    <2> QED BY <2>1, <2>2
  <1>10. Rarest(curs, SegOf(r)) = r BY <1>5 DEF r
  <1> QED BY <1>1, <1>2, <1>3, <1>5, <1>7, <1>8, <1>9, <1>10

LEMMA HeadersFinite ==
    ASSUME NEW cur, GoodCursor(cur)
    PROVE  IsFiniteSet(DOMAIN cur.hdr) /\ DOMAIN cur.hdr = 1 .. Len(cur.hdr) /\ Len(cur.hdr) \in Nat
  <1> DEFINE n == Len(cur.list)
             m == Len(cur.hdr)
  <1>1. DOMAIN cur.hdr = 1 .. m /\ m = NumBlocks(n) /\ n \in Nat BY DEF GoodCursor, GoodList
  <1>2. NumBlocks(n) \in Nat
    <2>1. BlockSize \in Nat \ {0} /\ n \in Nat BY <1>1, RankAssumption
    <2> HIDE DEF n
    <2>2. n + BlockSize - 1 \in Nat BY <2>1
    <2> QED BY <2>1, <2>2, Quotient DEF NumBlocks
  <1>3. m \in Nat BY <1>1, <1>2
  <1>4. IsFiniteSet(1 .. m)
    <2> HIDE DEF m
    <2>1. 1 \in Int /\ m \in Int BY <1>3
    <2> QED BY <2>1, FS_Interval
  <1> QED BY <1>1, <1>3, <1>4

LEMMA AndBlocksFinite ==
    ASSUME Setup
    PROVE  IsFiniteSet(AndBlocks)
  <1> DEFINE V == {s \in {SegOf(c) : c \in DOMAIN curs} :
                     {WordOf(c) : c \in Group(curs, s)} = AllWords}
             X(s) == {Block(Rarest(curs, s), b, DriverBound(curs, Rarest(curs, s), b)) :
                        b \in DOMAIN curs[Rarest(curs, s)].hdr}
             f == [s \in V |-> X(s)]
             F == {f[s] : s \in V}
  <1>1. GoodCursors(curs) BY RelFacts
  <1>2. ASSUME NEW s \in V PROVE IsFiniteSet(X(s))
    <2> DEFINE r == Rarest(curs, s)
               S == DOMAIN curs[r].hdr
               g == [b \in S |-> Block(r, b, DriverBound(curs, r, b))]
    <2>1. Group(curs, s) # {} BY DEF Group
    <2>2. r \in DOMAIN curs BY <2>1, RarestIs
    <2>3. IsFiniteSet(S) BY <1>1, <2>2, HeadersFinite DEF GoodCursors
    <2>4. g \in [S -> {g[b] : b \in S}] /\ X(s) = {g[b] : b \in S} OBVIOUS
    <2> HIDE DEF g, S, X
    <2> QED BY <2>3, <2>4, ImageFinite
  <1>3. IsFiniteSet(V)
    <2> DEFINE T == {SegOf(c) : c \in DOMAIN curs}
               h == [c \in DOMAIN curs |-> SegOf(c)]
    <2>1. IsFiniteSet(DOMAIN curs) BY <1>1 DEF GoodCursors
    <2>2. h \in [DOMAIN curs -> {h[c] : c \in DOMAIN curs}] /\ T = {h[c] : c \in DOMAIN curs}
      OBVIOUS
    <2>3. V \subseteq T OBVIOUS
    <2> HIDE DEF h, T, V
    <2>4. IsFiniteSet(T) BY <2>1, <2>2, ImageFinite
    <2> QED BY <2>3, <2>4, FS_Subset
  <1>4. \A x \in F : IsFiniteSet(x) BY <1>2
  <1>5. AndBlocks = UNION F
    <2>1. AndBlocks = UNION {X(s) : s \in V}
      <3>1. "best" # "and" OBVIOUS
      <3> QED BY <3>1 DEF AndBlocks, BlocksOf
    <2>2. {X(s) : s \in V} = F
      <3> HIDE DEF X, V
      <3> QED OBVIOUS
    <2> QED BY <2>1, <2>2
  <1>6. f \in [V -> F]
    <2> HIDE DEF X, V
    <2> QED OBVIOUS
  <1> HIDE DEF f, V
  <1>7. IsFiniteSet(F) BY <1>3, <1>6, ImageFinite
  <1> HIDE DEF F
  <1> QED BY <1>4, <1>5, <1>7, FS_UNION

\* A live document of the driver matters if all words of its segment hold it.
LEMMA AndDocIs ==
    ASSUME Setup, AndWalk, NEW drv \in DOMAIN curs,
           {WordOf(c) : c \in Group(curs, SegOf(drv))} = AllWords,
           NEW d, LiveIn(curs[drv], d)
    PROVE  /\ d \in Rel <=>
                 /\ \A c \in Group(curs, SegOf(drv)) : LiveIn(curs[c], d)
                 /\ walk.gate = "phrase" => \/ PhraseVerdict(SegOf(drv), d).admit
                                            \/ PhraseVerdict(SegOf(drv), d).unknown
           /\ (\A c \in Group(curs, SegOf(drv)) : LiveIn(curs[c], d)) =>
                 Group(curs, SegOf(drv)) = Holders(curs, d)
  <1> DEFINE terms == QueryTerms(query)
             s == SegOf(drv)
             H == Group(curs, s)
             W == WordsIn(index.segs[s].docs[d])
  <1>1. RankedCorpus(index) /\ curs = Cursors(index, terms) BY DEF Setup
  <1>2. s \in DOMAIN index.segs /\ d \in SegTids(index, s)
    <2> HIDE DEF terms
    <2>1. d \in SegTids(index, SegOf(drv)) BY <1>1, HoldersAre
    <2>2. drv \in (DOMAIN terms) \X (DOMAIN index.segs) BY <1>1, CursorOf
    <2> QED BY <2>1, <2>2 DEF SegOf
  <1>3. drv \in H /\ drv \in Holders(curs, d) BY DEF Group, Holders
  <1> HIDE DEF s
  <1>4. Holders(curs, d) = {<<t, s>> : t \in W} BY <1>2, HoldersOfDoc
  <1>5. W \subseteq AllWords BY DEF WordsIn
  <1> HIDE DEF W
  <1>6. Holders(curs, d) \subseteq H
    <2> SUFFICES ASSUME NEW c \in Holders(curs, d) PROVE c \in H OBVIOUS
    <2>1. c \in DOMAIN curs BY DEF Holders
    <2>2. SegOf(c) = s BY <1>4 DEF SegOf
    <2> QED BY <2>1, <2>2 DEF Group
  <1>7. (\A c \in H : LiveIn(curs[c], d)) => H = Holders(curs, d)
    <2> SUFFICES ASSUME \A c \in H : LiveIn(curs[c], d) PROVE H \subseteq Holders(curs, d)
      BY <1>6
    <2> QED BY DEF Group, Holders
  <1>8. (\A c \in H : LiveIn(curs[c], d)) <=> W = AllWords
    <2>1. ASSUME \A c \in H : LiveIn(curs[c], d) PROVE W = AllWords
      <3>1. H = Holders(curs, d) BY <1>7, <2>1
      <3>2. \A c \in Holders(curs, d) : WordOf(c) \in W BY <1>4 DEF WordOf
      <3>3. {WordOf(c) : c \in H} = AllWords BY DEF s
      <3> HIDE DEF H
      <3> QED BY <1>5, <3>1, <3>2, <3>3
    <2>2. ASSUME W = AllWords, NEW c \in H PROVE LiveIn(curs[c], d)
      <3>1. c \in DOMAIN curs /\ SegOf(c) = s BY DEF Group
      <3>2. c \in (DOMAIN terms) \X (DOMAIN index.segs) /\ c = <<WordOf(c), SegOf(c)>>
        BY <1>1, <3>1, CursorOf
      <3>3. WordOf(c) \in AllWords BY <3>2 DEF WordOf, AllWords
      <3>4. c \in Holders(curs, d) BY <1>4, <2>2, <3>1, <3>2, <3>3
      <3> QED BY <3>4 DEF Holders
    <2> QED BY <2>1, <2>2
  <1>9. W # {} BY <1>3, <1>4
  <1>10. d \in Rel <=> Relevant(s, d)
    <2>1. \A r \in DOMAIN index.segs : d \in SegTids(index, r) => r = s
      BY <1>1, <1>2, OneHome
    <2> QED BY <1>2, <2>1 DEF Rel
  <1>11. Relevant(s, d) <=> W = AllWords /\ (walk.gate = "phrase" =>
                              PhraseVerdict(s, d).admit \/ PhraseVerdict(s, d).unknown)
    BY <1>9 DEF Relevant, AndWalk, W
  <1> QED BY <1>7, <1>8, <1>10, <1>11 DEF s

-----------------------------------------------------------------------------
Closed(left, blk) == UNION {DocsOf(e) : e \in AndBlocks \ (left \cup {blk})}
Begun(pos, blk) ==
    IF blk = NoBlock THEN {} ELSE Docs(blk.cur, BlockStart(blk.blk), pos[blk.cur] - 1)

\* In a block: no cursor is behind a live posting of the document.
Entered(pos, left, blk) ==
    LET drv == blk.cur
    IN  /\ blk \in AndBlocks \ left
        /\ pos[drv] \in BlockStart(blk.blk) .. BlockEnd(curs[drv].list, blk.blk)
        /\ \A o \in Group(curs, SegOf(drv)) \ {drv} : \A j \in 1 .. pos[o] - 1 :
              Alive(curs[o], j) => curs[o].list[j].tid < curs[drv].list[pos[drv]].tid

Placed(pos) ==
    DOMAIN pos = DOMAIN curs /\ \A c \in DOMAIN curs : pos[c] \in 1 .. Len(curs[c].list) + 1

AndWalked(best, pos, left, blk) ==
    /\ left \subseteq AndBlocks /\ Placed(pos)
    /\ best = BestOf(HitsOf(curs, Rel \cap (Closed(left, blk) \cup Begun(pos, blk))), want)
    /\ blk # NoBlock => Entered(pos, left, blk)

LEMMA CoveringIs ==
    ASSUME NEW cur, GoodCursor(cur), NEW low \in Nat
    PROVE  /\ Covering(cur, low) \in 1 .. Len(cur.hdr)
           /\ BlockStart(Covering(cur, low)) \in 1 .. Len(cur.list)
           /\ \A j \in 1 .. BlockStart(Covering(cur, low)) - 1 : cur.list[j].tid < low
  <1> DEFINE S == {b \in DOMAIN cur.hdr : cur.hdr[b].first <= low} \cup {1}
             n == Len(cur.list)
             m == Len(cur.hdr)
             v == Covering(cur, low)
  <1>1. GoodList(cur.list) /\ m = NumBlocks(n) /\ n \in Nat \ {0} BY DEF GoodCursor, GoodList
  <1>2. DOMAIN cur.hdr = 1 .. m /\ m \in Nat /\ IsFiniteSet(DOMAIN cur.hdr) BY HeadersFinite
  <1>3. 1 \in 1 .. m
    <2>1. 1 \in 1 .. n BY <1>1
    <2>2. BlockOf(1) \in 1 .. m BY <1>1, <2>1, BlockHas
    <2> QED BY <1>2, <2>2
  <1>4. S \subseteq 1 .. m /\ S \subseteq Int /\ S # {} /\ IsFiniteSet(S)
    <2>1. S \subseteq 1 .. m /\ S # {} BY <1>2, <1>3
    <2>2. IsFiniteSet(S)
      <3>1. S \subseteq DOMAIN cur.hdr BY <1>2, <2>1
      <3> HIDE DEF S
      <3> QED BY <1>2, <3>1, FS_Subset
    <2> HIDE DEF S
    <2> QED BY <1>2, <2>1, <2>2
  <1>5. v = Max(S) BY DEF Covering
  <1>6. v = 1 \/ cur.hdr[v].first <= low
    <2>1. Max(S) \in S
      <3> HIDE DEF S
      <3> QED BY <1>4, LargestOf
    <2> QED BY <1>5, <2>1
  <1>7. v \in 1 .. m
    <2> HIDE DEF S, v
    <2> QED BY <1>4, <1>5, LargestOf
  <1> HIDE DEF v
  <1>8. BlockStart(v) \in 1 .. n BY <1>1, <1>7, BlockSpan
  <1>9. ASSUME NEW j \in 1 .. BlockStart(v) - 1 PROVE cur.list[j].tid < low
    <2>1. v # 1
      <3>1. ASSUME v = 1 PROVE FALSE
        <4>1. BlockStart(v) = 1
          <5>1. BlockSize \in Nat /\ (1 - 1) * BlockSize = 0 BY RankAssumption
          <5> QED BY <3>1, <5>1 DEF BlockStart
        <4> QED BY <4>1
      <3> QED BY <3>1
    <2>2. cur.hdr[v].first <= low /\ cur.hdr[v].first = cur.list[BlockStart(v)].tid
      BY <1>6, <1>7, <2>1 DEF GoodCursor
    <2>3. j \in 1 .. n /\ j < BlockStart(v) BY <1>1, <1>8
    <2> DEFINE x == cur.list[j].tid
               y == cur.list[BlockStart(v)].tid
    <2>4. x < y BY <1>1, <1>8, <2>3 DEF GoodList
    <2>5. x \in 0 .. Nowhere - 1 /\ y \in 0 .. Nowhere - 1 BY <1>1, <1>8, <2>3 DEF GoodList
    <2>6. y <= low BY <2>2
    <2> HIDE DEF x, y
    <2>7. x < low BY <2>4, <2>5, <2>6, RankAssumption
    <2> QED BY <2>7 DEF x
  <1> QED BY <1>7, <1>8, <1>9 DEF v

LEMMA AndOpens ==
    ASSUME Setup, AndWalk, AndWalked(top, at, todo, block), AndOpen
    PROVE  AndWalked(top', at', todo', block')
  <1>1. PICK e \in Visitable :
           /\ block' = e /\ todo' = todo \ {e}
           /\ at' = [c \in DOMAIN curs |->
                       IF c = e.cur THEN BlockStart(e.blk)
                       ELSE IF SegOf(c) = SegOf(e.cur)
                       THEN BlockStart(Covering(curs[c], curs[e.cur].hdr[e.blk].first))
                       ELSE at[c]]
    BY DEF AndOpen
  <1>2. block = NoBlock /\ top' = top BY DEF AndOpen
  <1>3. e \in todo /\ todo \subseteq AndBlocks /\ e \in AndBlocks BY DEF Visitable, AndWalked
  <1> DEFINE drv == e.cur
             lo == BlockStart(e.blk)
             hi == BlockEnd(curs[drv].list, e.blk)
             low == curs[drv].hdr[e.blk].first
  <1>4. drv \in DOMAIN curs /\ e.blk \in 1 .. Len(curs[drv].hdr) /\ e # NoBlock
    BY <1>3, AndBlockIs
  <1>5. GoodCursors(curs) BY RelFacts
  <1>6. GoodCursor(curs[drv]) /\ GoodList(curs[drv].list)
        /\ Len(curs[drv].hdr) = NumBlocks(Len(curs[drv].list)) /\ Len(curs[drv].list) \in Nat
    BY <1>4, <1>5 DEF GoodCursors, GoodCursor, GoodList
  <1>7. lo \in 1 .. Len(curs[drv].list) /\ hi \in lo .. Len(curs[drv].list) BY <1>4, <1>6, BlockSpan
  <1>8. low = curs[drv].list[lo].tid /\ low \in Nat
    <2>1. low = curs[drv].list[lo].tid BY <1>4, <1>6 DEF GoodCursor
    <2>2. curs[drv].list[lo].tid \in 0 .. Nowhere - 1 BY <1>6, <1>7 DEF GoodList
    <2> HIDE DEF low, lo
    <2> QED BY <2>1, <2>2, RankAssumption
  <1>9. at'[drv] = lo BY <1>1, <1>4
  <1>10. Placed(at')
    <2>1. DOMAIN at' = DOMAIN curs BY <1>1
    <2>2. ASSUME NEW c \in DOMAIN curs PROVE at'[c] \in 1 .. Len(curs[c].list) + 1
      <3>0. GoodCursor(curs[c]) /\ Len(curs[c].list) \in Nat
        BY <1>5 DEF GoodCursors, GoodCursor, GoodList
      <3>1. CASE c = drv BY <1>7, <1>9, <3>0, <3>1
      <3>2. CASE c # drv /\ SegOf(c) = SegOf(drv)
        <4>1. at'[c] = BlockStart(Covering(curs[c], low)) BY <1>1, <3>2
        <4>2. BlockStart(Covering(curs[c], low)) \in 1 .. Len(curs[c].list)
          BY <1>8, <3>0, CoveringIs
        <4> QED BY <3>0, <4>1, <4>2
      <3>3. CASE c # drv /\ SegOf(c) # SegOf(drv)
        <4>1. at'[c] = at[c] BY <1>1, <3>3
        <4> QED BY <4>1 DEF AndWalked, Placed
      <3> QED BY <3>1, <3>2, <3>3
    <2> QED BY <2>1, <2>2 DEF Placed
  <1>11. ASSUME NEW o \in Group(curs, SegOf(drv)) \ {drv}, NEW j \in 1 .. at'[o] - 1
         PROVE  curs[o].list[j].tid < low
    <2>1. o \in DOMAIN curs /\ SegOf(o) = SegOf(drv) /\ o # drv BY DEF Group
    <2>2. at'[o] = BlockStart(Covering(curs[o], low)) BY <1>1, <2>1
    <2>3. GoodCursor(curs[o]) BY <1>5, <2>1 DEF GoodCursors
    <2> HIDE DEF low
    <2> QED BY <1>8, <2>2, <2>3, CoveringIs
  <1>12. Entered(at', todo', e)
    <2>1. at'[drv] \in lo .. hi BY <1>7, <1>9
    <2>2. curs[drv].list[at'[drv]].tid = low BY <1>8, <1>9
    <2>3. e \in AndBlocks \ todo' BY <1>1, <1>3
    <2> QED BY <1>11, <2>1, <2>2, <2>3 DEF Entered
  <1>13. Closed(todo', e) = Closed(todo, NoBlock)
    <2>1. ASSUME NEW x \in AndBlocks PROVE x # NoBlock BY AndBlockIs
    <2>2. AndBlocks \ (todo' \cup {e}) = AndBlocks \ (todo \cup {NoBlock}) BY <1>1, <1>3, <2>1
    <2> QED BY <2>2 DEF Closed
  <1>14. Begun(at', e) = {}
    <2>1. lo .. lo - 1 = {} BY <1>7
    <2>2. Docs(drv, lo, lo - 1) = {}
      <3> HIDE DEF lo, drv
      <3> QED BY <2>1 DEF Docs
    <2> QED BY <1>4, <1>9, <2>2 DEF Begun
  <1>15. Begun(at, NoBlock) = {} BY DEF Begun
  <1>16. top' = BestOf(HitsOf(curs, Rel \cap (Closed(todo', e) \cup Begun(at', e))), want)
    BY <1>2, <1>13, <1>14, <1>15 DEF AndWalked
  <1>17. todo' \subseteq AndBlocks BY <1>1, <1>3
  <1> QED BY <1>1, <1>10, <1>12, <1>16, <1>17 DEF AndWalked

\* No other cursor of the segment is past a live posting of d, and those
\* that stand on it are those that hold it.
Behind(pos, drv, d) ==
    \A o \in Group(curs, SegOf(drv)) \ {drv} : \A j \in 1 .. pos[o] - 1 :
        Alive(curs[o], j) => curs[o].list[j].tid < d
Found(pos, drv, d) ==
    \A c \in Group(curs, SegOf(drv)) :
        /\ Id(pos, c) = d <=> LiveIn(curs[c], d)
        /\ Id(pos, c) = d => pos[c] = PlaceOf(curs[c], d)

Seeks(drv, p, d, new) ==
    /\ drv \in DOMAIN curs /\ p = at[drv] /\ p \in 1 .. Len(curs[drv].list)
    /\ Alive(curs[drv], p) /\ d = curs[drv].list[p].tid
    /\ new = SeekAll(at, Group(curs, SegOf(drv)) \ {drv}, d)

LEMMA SoughtIs ==
    ASSUME GoodCursors(curs), Placed(at), NEW drv, NEW p, NEW d, NEW new, Seeks(drv, p, d, new),
           Behind(at, drv, d)
    PROVE  /\ LiveIn(curs[drv], d) /\ new[drv] = p
           /\ Found(new, drv, d) /\ Placed(new) /\ Behind(new, drv, d)
  <1> USE DEF Seeks
  <1> DEFINE H == Group(curs, SegOf(drv))
  <1>0. Nowhere \in Nat BY RankAssumption
  <1>1. GoodCursor(curs[drv]) BY DEF GoodCursors
  <1>2. LiveIn(curs[drv], d) BY DEF LiveIn
  <1>3. d \in 0 .. Nowhere - 1 BY <1>1 DEF GoodCursor, GoodList
  <1>4. d \in 0 .. Nowhere /\ d # Nowhere BY <1>0, <1>3
  <1>5. new[drv] = p BY DEF SeekAll
  <1>6. Id(new, drv) = d /\ new[drv] = PlaceOf(curs[drv], d)
    <2>1. ~(p > Len(curs[drv].list)) BY <1>1 DEF GoodCursor, GoodList
    <2>2. Docid(curs[drv], p) = d BY <2>1 DEF Docid
    <2>3. PlaceOf(curs[drv], d) = p BY <1>1, PlaceIs
    <2> QED BY <1>5, <2>2, <2>3 DEF Id
  <1>7. ASSUME NEW c \in H \ {drv}
        PROVE  /\ Id(new, c) = d <=> LiveIn(curs[c], d)
               /\ Id(new, c) = d => new[c] = PlaceOf(curs[c], d)
               /\ new[c] \in 1 .. Len(curs[c].list) + 1
               /\ \A j \in 1 .. new[c] - 1 : Alive(curs[c], j) => curs[c].list[j].tid < d
    <2> DEFINE cur == curs[c]
               n == Len(cur.list)
               a == at[c]
               q == new[c]
    <2>1. c \in DOMAIN curs /\ GoodCursor(cur) BY DEF Group, GoodCursors
    <2>2. n \in Nat BY <2>1 DEF GoodCursor, GoodList
    <2>3. q = Seek(cur, a, d) BY <2>1 DEF SeekAll
    <2>4. a \in 1 .. n + 1 BY <2>1 DEF Placed
    <2>5. \A j \in 1 .. a - 1 : Alive(cur, j) => cur.list[j].tid < d BY DEF Behind
    <2> HIDE DEF cur, a, q
    <2>6. /\ q \in a .. n + 1 /\ Settled(cur, q) /\ Docid(cur, q) >= d
          /\ \A j \in a .. q - 1 : Alive(cur, j) => cur.list[j].tid < d
      BY <1>4, <2>1, <2>3, <2>4, SeekIs DEF n
    <2> HIDE DEF n
    <2>7. q \in 1 .. n + 1 BY <2>2, <2>4, <2>6
    <2>8. ASSUME NEW j \in 1 .. q - 1, Alive(cur, j) PROVE cur.list[j].tid < d
      <3>1. j \in 1 .. a - 1 \/ j \in a .. q - 1 BY <2>2, <2>4, <2>7
      <3> QED BY <2>5, <2>6, <2>8, <3>1
    <2>9. ASSUME Docid(cur, q) = d PROVE LiveIn(cur, d) /\ q = PlaceOf(cur, d)
      <3>1. q # n + 1 BY <1>4, <2>1, <2>7, <2>9, DocidType DEF n
      <3>2. q \in 1 .. n /\ q <= n BY <2>2, <2>7, <3>1
      <3>3. cur.list[q].tid = d BY <2>1, <2>7, <2>9, <3>2, DocidType DEF n
      <3>4. Alive(cur, q) BY <2>6, <3>2 DEF Settled, n
      <3>5. PlaceOf(cur, d) = q BY <2>1, <3>2, <3>3, PlaceIs DEF n
      <3> QED BY <3>2, <3>3, <3>4, <3>5 DEF LiveIn, n
    <2>10. ASSUME LiveIn(cur, d) PROVE Docid(cur, q) = d
      <3> DEFINE x == PlaceOf(cur, d)
      <3>1. x \in 1 .. n /\ cur.list[x].tid = d /\ Alive(cur, x) BY <2>1, <2>10, LivePlace DEF n
      <3> HIDE DEF x
      <3>2. ~(x \in 1 .. q - 1)
        <4> SUFFICES ASSUME x \in 1 .. q - 1 PROVE FALSE OBVIOUS
        <4>1. d < d BY <2>8, <3>1
        <4> QED BY <4>1, <1>3, <1>0
      <3>3. q <= x /\ x \in 1 .. n + 1 /\ x <= n BY <2>2, <2>7, <3>1, <3>2
      <3>4. Docid(cur, q) <= Docid(cur, x) BY <2>1, <2>7, <3>3, DocidOrder DEF n
      <3>5. Docid(cur, x) = d BY <2>1, <3>1, <3>3, DocidType DEF n
      <3>6. Docid(cur, q) \in 0 .. Nowhere BY <2>1, <2>7, DocidType DEF n
      <3> DEFINE y == Docid(cur, q)
      <3>7. y <= d /\ y >= d /\ y \in 0 .. Nowhere BY <2>6, <3>4, <3>5, <3>6
      <3> HIDE DEF y
      <3>8. y = d BY <1>0, <1>3, <3>7
      <3> QED BY <3>8 DEF y
    <2>11. Id(new, c) = Docid(cur, q) BY DEF Id, cur, q
    <2> QED BY <2>7, <2>8, <2>9, <2>10, <2>11 DEF cur, q, n
  <1>8. Placed(new)
    <2>1. DOMAIN new = DOMAIN curs BY DEF SeekAll
    <2>2. ASSUME NEW c \in DOMAIN curs, c \notin H \ {drv} PROVE new[c] = at[c]
      BY <2>2 DEF SeekAll
    <2>3. ASSUME NEW c \in DOMAIN curs PROVE new[c] \in 1 .. Len(curs[c].list) + 1
      BY <1>7, <2>2, Zenon DEF Placed
    <2> QED BY <2>1, <2>3 DEF Placed
  <1>9. Found(new, drv, d) /\ Behind(new, drv, d) BY <1>2, <1>6, <1>7 DEF Found, Behind
  <1> QED BY <1>2, <1>5, <1>8, <1>9

\* The k best after a document that may enter has been offered.
LEMMA AndOffers ==
    ASSUME Setup, NEW D \in SUBSET Rel, top = BestOf(HitsOf(curs, D), want),
           NEW d \in Nat, NEW hit, hit = Hit(d, Total(curs, d)), NEW admit \in BOOLEAN,
           d \notin Rel => ~admit, d \in Rel => admit \/ (Full /\ hit.score < Threshold),
           top' = IF (Full => hit.score >= Threshold) /\ admit
                  THEN BestOf(top \cup {hit}, want) ELSE top
    PROVE  top' = BestOf(HitsOf(curs, Rel \cap (D \cup {d})), want)
  <1>1. /\ GoodCursors(curs) /\ Rel \subseteq Nat /\ IsFiniteSet(Rel) /\ want \in Nat \ {0}
    BY RelFacts DEF Setup
  <1>2. hit.score = Total(curs, d) /\ hit.score \in Nat BY <1>1, HoldersCount, HitFields
  <1>3. Threshold \in Nat /\ \A t \in top : t.score \in Nat BY ThresholdIs
  <1>4. CASE d \notin Rel
    <2>1. Rel \cap (D \cup {d}) = D BY <1>4
    <2>2. top' = top BY <1>4
    <2> QED BY <2>1, <2>2
  <1>5. CASE d \in Rel /\ (Full /\ hit.score < Threshold)
    <2>1. ~(hit.score >= Threshold) BY <1>2, <1>3, <1>5
    <2>2. top' = top BY <1>5, <2>1
    <2>3. ASSUME NEW t \in top PROVE Worse(Hit(d, Total(curs, d)), t)
      <3>1. Threshold <= t.score /\ t.score \in Nat BY <1>5, ThresholdIs
      <3>2. Total(curs, d) < t.score BY <1>2, <1>3, <1>5, <3>1
      <3> QED BY <3>2, HitFields DEF Worse
    <2> DEFINE E == Rel \cap (D \cup {d})
    <2>4. D \subseteq E /\ E \subseteq Rel OBVIOUS
    <2>5. Shadowed(curs, E \ D, want, top) BY <1>5, <2>3 DEF Shadowed, Full
    <2> HIDE DEF E
    <2>6. top = BestOf(HitsOf(curs, E), want) BY <2>4, <2>5, TopKeeps
    <2> QED BY <2>2, <2>6 DEF E
  <1>6. CASE d \in Rel /\ ~(Full /\ hit.score < Threshold)
    <2>1. Full => hit.score >= Threshold BY <1>2, <1>3, <1>6
    <2>2. top' = BestOf(top \cup {hit}, want) BY <1>6, <2>1
    <2> DEFINE E == {d}
               U == top'
    <2>3. HitsOf(curs, E) = {hit} BY DEF HitsOf
    <2>4. E \in SUBSET Rel /\ U = BestOf(top \cup HitsOf(curs, E), want) BY <1>6, <2>2, <2>3
    <2>5. Rel \cap (D \cup {d}) = D \cup E BY <1>6
    <2> HIDE DEF E, U
    <2>6. U = BestOf(HitsOf(curs, D \cup E), want) BY <2>4, TopJoins
    <2> QED BY <2>5, <2>6 DEF U
  <1> QED BY <1>4, <1>5, <1>6

LEMMA AndClosedFacts ==
    ASSUME Setup, NEW left, left \subseteq AndBlocks, NEW e \in AndBlocks \ left
    PROVE  Closed(left, NoBlock) = Closed(left, e) \cup DocsOf(e)
  <1> DEFINE V == AndBlocks \ (left \cup {e})
  <1>1. \A x \in AndBlocks : x # NoBlock BY AndBlockIs
  <1>2. AndBlocks \ (left \cup {NoBlock}) = V \cup {e} BY <1>1
  <1>3. UNION {DocsOf(x) : x \in V \cup {e}} = (UNION {DocsOf(x) : x \in V}) \cup DocsOf(e)
    <2> HIDE DEF V
    <2> QED OBVIOUS
  <1> HIDE DEF V
  <1> QED BY <1>2, <1>3 DEF Closed, V

LEMMA AndDocuments ==
    ASSUME Setup, AndWalk, AndWalked(top, at, todo, block), AndDocument, ~unknown'
    PROVE  AndWalked(top', at', todo', block')
  <1> DEFINE drv == block.cur
             list == curs[drv].list
             p == at[drv]
             d == list[p].tid
             G == Group(curs, SegOf(drv))
             live == d \notin curs[drv].tombs
             sought == IF live THEN SeekAll(at, G \ {drv}, d) ELSE at
             hit == Hit(d, ScoreOf(sought, G))
             enters == /\ live
                       /\ \A c \in G : Id(sought, c) = d
                       /\ Full => hit.score >= Threshold
             verdict == IF walk.gate = "phrase" THEN PhraseVerdict(SegOf(drv), d)
                        ELSE [unknown |-> FALSE, admit |-> TRUE]
             lo == BlockStart(block.blk)
             hi == BlockEnd(list, block.blk)
  <1>1. /\ block # NoBlock /\ todo' = todo
        /\ top' = IF enters /\ verdict.admit THEN BestOf(top \cup {hit}, want) ELSE top
        /\ unknown' = (enters /\ verdict.unknown)
        /\ at' = [sought EXCEPT ![drv] = @ + 1]
        /\ block' = IF p < hi THEN block ELSE NoBlock
    BY ZenonT(30) DEF AndDocument
  <1>2. /\ todo \subseteq AndBlocks /\ Placed(at) /\ block \in AndBlocks \ todo /\ p \in lo .. hi
        /\ \A o \in G \ {drv} : \A j \in 1 .. at[o] - 1 : Alive(curs[o], j) => curs[o].list[j].tid < d
        /\ top = BestOf(HitsOf(curs, Rel \cap (Closed(todo, block) \cup Begun(at, block))), want)
    BY <1>1, Zenon DEF AndWalked, Entered
  <1>3. GoodCursors(curs) /\ Rel \subseteq Nat BY RelFacts
  <1>4. /\ drv \in DOMAIN curs /\ block.blk \in 1 .. Len(curs[drv].hdr)
        /\ {WordOf(c) : c \in G} = AllWords /\ drv \in G
    BY <1>2, AndBlockIs
  <1>5. GoodCursor(curs[drv]) /\ GoodList(list) /\ Len(curs[drv].hdr) = NumBlocks(Len(list))
        /\ Len(list) \in Nat
    BY <1>3, <1>4 DEF GoodCursors, GoodCursor, GoodList
  <1>6. lo \in 1 .. Len(list) /\ hi \in lo .. Len(list) BY <1>4, <1>5, BlockSpan
  <1>7. p \in 1 .. Len(list) /\ d \in 0 .. Nowhere - 1 /\ d \in Nat /\ p \in Nat /\ hi \in Nat
    <2>1. p \in 1 .. Len(list) BY <1>2, <1>5, <1>6
    <2>2. d \in 0 .. Nowhere - 1
      <3> HIDE DEF list, p
      <3> QED BY <1>5, <2>1 DEF GoodList
    <2> HIDE DEF d, p, hi, lo
    <2> QED BY <2>1, <2>2, <1>5, <1>6, RankAssumption
  <1>8. live <=> Alive(curs[drv], p) BY DEF Alive
  \* The cursors sought.
  <1>9. /\ sought[drv] = p /\ Placed(sought)
        /\ \A o \in G \ {drv} : \A j \in 1 .. sought[o] - 1 :
              Alive(curs[o], j) => curs[o].list[j].tid < d
        /\ live => /\ LiveIn(curs[drv], d)
                   /\ \A c \in G : /\ Id(sought, c) = d <=> LiveIn(curs[c], d)
                                   /\ Id(sought, c) = d => sought[c] = PlaceOf(curs[c], d)
    <2>1. CASE ~live
      <3>1. sought = at BY <2>1
      <3> HIDE DEF sought, live
      <3> QED BY <1>2, <2>1, <3>1
    <2>2. CASE live
      <3>1. sought = SeekAll(at, G \ {drv}, d) BY <2>2
      <3>2. Alive(curs[drv], p) BY <1>8, <2>2
      <3>3. p = at[drv] /\ d = curs[drv].list[p].tid OBVIOUS
      <3>4. p \in 1 .. Len(curs[drv].list) BY <1>7
      <3> DEFINE H == Group(curs, SegOf(drv))
      <3>5. Behind(at, drv, d) BY <1>2 DEF Behind
      <3>6. sought = SeekAll(at, H \ {drv}, d) /\ H = G BY <3>1
      <3>7. drv \in DOMAIN curs /\ GoodCursors(curs) /\ Placed(at) BY <1>2, <1>3, <1>4
      <3>8. Seeks(drv, p, d, sought) BY <3>2, <3>3, <3>4, <3>6, <3>7 DEF Seeks
      <3> HIDE DEF sought, p, d, drv, G, live
      <3>9. LiveIn(curs[drv], d) /\ sought[drv] = p
            /\ Found(sought, drv, d) /\ Placed(sought) /\ Behind(sought, drv, d)
        BY <3>5, <3>7, <3>8, SoughtIs, Zenon
      <3> QED BY <2>2, <3>9, Zenon DEF Found, Behind, G
    <2> QED BY <2>1, <2>2, Zenon
  <1> DEFINE D == Rel \cap (Closed(todo, block) \cup Begun(at, block))
             V == Closed(todo, block) \cup Docs(drv, lo, p)
  <1>10. Begun(at, block) = Docs(drv, lo, p - 1) BY <1>1 DEF Begun
  <1>11. Docs(drv, lo, p) = Docs(drv, lo, p - 1) \cup (IF live THEN {d} ELSE {})
    <2>1. \A j : j \in lo .. p <=> j \in lo .. p - 1 \/ j = p BY <1>2, <1>6, <1>7
    <2>2. Docs(drv, lo, p) = Docs(drv, lo, p - 1) \cup {list[j].tid : j \in {i \in {p} : Alive(curs[drv], i)}}
      <3> HIDE DEF lo, p
      <3> QED BY <2>1 DEF Docs
    <2>3. {list[j].tid : j \in {i \in {p} : Alive(curs[drv], i)}} = IF live THEN {d} ELSE {}
      BY <1>8
    <2> QED BY <2>2, <2>3
  <1>12. top' = BestOf(HitsOf(curs, Rel \cap V), want)
    <2>1. CASE ~live
      <3>1. Rel \cap V = D BY <1>10, <1>11, <2>1
      <3>2. top' = top BY <1>1, <2>1
      <3> HIDE DEF D, V
      <3> QED BY <1>2, <3>1, <3>2, Zenon DEF D
    <2>2. CASE live /\ ~(\A c \in G : LiveIn(curs[c], d))
      <3>0. LiveIn(curs[drv], d) BY <1>9, <2>2, Zenon
      <3>1. d \notin Rel
        <4> HIDE DEF d, drv
        <4> QED BY <1>4, <2>2, <3>0, AndDocIs DEF G
      <3>2. ~enters
        <4> HIDE DEF sought, d, drv, live
        <4> QED BY <1>9, <2>2, Zenon
      <3>3. top' = top BY <1>1, <3>2, Zenon
      <3>4. Rel \cap V = D BY <1>10, <1>11, <3>1
      <3> HIDE DEF D, V
      <3> QED BY <1>2, <3>3, <3>4, Zenon DEF D
    <2>3. CASE live /\ \A c \in G : LiveIn(curs[c], d)
      <3>0. LiveIn(curs[drv], d) BY <1>9, <2>3, Zenon
      <3>1. G = Holders(curs, d) /\
            (d \in Rel <=> (walk.gate = "phrase" => \/ PhraseVerdict(SegOf(drv), d).admit
                                                    \/ PhraseVerdict(SegOf(drv), d).unknown))
        <4> HIDE DEF d, drv
        <4> QED BY <1>4, <2>3, <3>0, AndDocIs DEF G
      <3>2. d \in Rel <=> verdict.admit \/ verdict.unknown
        <4> HIDE DEF d, drv
        <4> QED BY <3>1
      <3>3. \A c \in G : Id(sought, c) = d /\ sought[c] = PlaceOf(curs[c], d)
        <4> HIDE DEF sought, d, G, live
        <4> QED BY <1>9, <2>3
      <3>4. enters <=> (Full => hit.score >= Threshold)
        <4> HIDE DEF sought, d, G, live, hit
        <4> QED BY <2>3, <3>3
      <3>5. ScoreOf(sought, G) = Total(curs, d)
        <4>1. \A c \in Holders(curs, d) : sought[c] = PlaceOf(curs[c], d)
          <5> HIDE DEF sought, d, G
          <5> QED BY <3>1, <3>3
        <4> HIDE DEF sought, d
        <4>2. SumFunction([c \in Holders(curs, d) |-> Score(curs[c], sought[c])]) = Total(curs, d)
          BY <1>3, <4>1, TotalIs
        <4>3. ScoreOf(sought, Holders(curs, d)) = Total(curs, d) BY <4>2 DEF ScoreOf
        <4> HIDE DEF G
        <4> QED BY <3>1, <4>3
      <3>6. verdict.admit \in BOOLEAN /\ (verdict.admit => ~verdict.unknown)
        <4> HIDE DEF d, drv
        <4> QED BY DEF PhraseVerdict
      <3>7. D \in SUBSET Rel OBVIOUS
      <3>8. hit = Hit(d, Total(curs, d))
        <4> HIDE DEF d, sought, G
        <4> QED BY <3>5
      <3>9. Rel \cap V = Rel \cap (D \cup {d})
        <4> HIDE DEF d, p, drv, live
        <4> QED BY <1>10, <1>11, <2>3
      <3> DEFINE admit == verdict.admit
      <3>10. unknown' = (enters /\ verdict.unknown) BY <1>1, Zenon
      <3>11. d \notin Rel => ~admit BY <3>2
      <3>12. d \in Rel => admit \/ (Full /\ hit.score < Threshold)
        <4>1. hit.score = Total(curs, d) /\ hit.score \in Nat
          <5> HIDE DEF d, hit
          <5> QED BY <1>3, <3>8, HitFields, HoldersCount
        <4>2. Threshold \in Nat
          <5> HIDE DEF D
          <5> QED BY <1>2, <3>7, ThresholdIs DEF D
        <4> HIDE DEF hit, d, verdict, enters
        <4>3. ASSUME d \in Rel, ~verdict.admit PROVE Full /\ hit.score < Threshold
          <5>1. ~enters BY <3>2, <3>10, <4>3
          <5>2. Full /\ ~(hit.score >= Threshold) BY <3>4, <5>1
          <5> QED BY <4>1, <4>2, <5>2
        <4> QED BY <4>3
      <3>13. top' = IF (Full => hit.score >= Threshold) /\ admit THEN BestOf(top \cup {hit}, want)
                    ELSE top
        <4> HIDE DEF hit, d, verdict, enters
        <4> QED BY <1>1, <3>4
      <3>14. top = BestOf(HitsOf(curs, D), want) BY <1>2
      <3>15. admit \in BOOLEAN BY <3>6
      <3> HIDE DEF hit, d, D, V, admit
      <3>16. top' = BestOf(HitsOf(curs, Rel \cap (D \cup {d})), want)
        BY <1>7, <3>7, <3>8, <3>11, <3>12, <3>13, <3>14, <3>15, AndOffers
      <3> QED BY <3>9, <3>16, Zenon
    <2> QED BY <2>1, <2>2, <2>3, Zenon
  \* The cursors afterwards.
  <1>13. at'[drv] = p + 1 /\ DOMAIN at' = DOMAIN curs /\ \A c \in DOMAIN curs \ {drv} : at'[c] = sought[c]
    <2> HIDE DEF sought, drv, p
    <2> QED BY <1>1, <1>4, <1>9 DEF Placed
  <1> HIDE DEF sought, enters, hit, verdict, D
  <1>14. Placed(at')
    <2>1. \A c \in DOMAIN curs \ {drv} : at'[c] \in 1 .. Len(curs[c].list) + 1
      BY <1>9, <1>13 DEF Placed
    <2>2. at'[drv] \in 1 .. Len(list) + 1
      <3> HIDE DEF p
      <3> QED BY <1>5, <1>7, <1>13
    <2> QED BY <1>13, <2>1, <2>2 DEF Placed
  <1>15. CASE p < hi
    <2>1. block' = block BY <1>1, <1>15
    <2>2. at'[drv] \in lo .. hi /\ p + 1 \in 1 .. Len(list) BY <1>2, <1>5, <1>6, <1>7, <1>13, <1>15
    <2>3. d < list[p + 1].tid
      <3>1. p < p + 1 BY <1>7
      <3> QED BY <1>5, <1>7, <2>2, <3>1 DEF GoodList
    <2>4. ASSUME NEW o \in G \ {drv}, NEW j \in 1 .. at'[o] - 1, Alive(curs[o], j)
          PROVE  curs[o].list[j].tid < list[p + 1].tid
      <3>1. o \in DOMAIN curs \ {drv} BY DEF Group
      <3>2. at'[o] = sought[o] BY <1>13, <3>1
      <3>3. curs[o].list[j].tid < d BY <1>9, <2>4, <3>2
      <3>4. j \in 1 .. Len(curs[o].list)
        <4>1. Len(curs[o].list) \in Nat BY <1>3, <3>1 DEF GoodCursors, GoodCursor, GoodList
        <4>2. at'[o] \in 1 .. Len(curs[o].list) + 1 BY <1>14, <3>1 DEF Placed
        <4> QED BY <4>1, <4>2
      <3>5. curs[o].list[j].tid \in 0 .. Nowhere - 1
        BY <1>3, <3>1, <3>4 DEF GoodCursors, GoodCursor, GoodList
      <3>6. list[p + 1].tid \in 0 .. Nowhere - 1 BY <1>5, <2>2 DEF GoodList
      <3> DEFINE x == curs[o].list[j].tid
                 y == list[p + 1].tid
      <3>7. x < d /\ d < y BY <2>3, <3>3
      <3>8. x < y
        <4>1. x \in 0 .. Nowhere - 1 /\ y \in 0 .. Nowhere - 1 BY <3>5, <3>6
        <4> HIDE DEF x, y, d
        <4>2. x \in Int /\ y \in Int BY <4>1
        <4> QED BY <1>7, <3>7, <4>2
      <3> QED BY <3>8 DEF x, y
    <2>5. Entered(at', todo', block')
      <3>1. at'[drv] = p + 1 BY <1>13
      <3>2. \A o \in G \ {drv} : \A j \in 1 .. at'[o] - 1 :
               Alive(curs[o], j) => curs[o].list[j].tid < curs[drv].list[at'[drv]].tid
        BY <2>4, <3>1
      <3>3. block \in AndBlocks \ todo BY <1>2
      <3> QED BY <1>1, <2>1, <2>2, <3>2, <3>3 DEF Entered
    <2>6. Begun(at', block') = Docs(drv, lo, p)
      <3>1. at'[drv] - 1 = p
        <4> HIDE DEF p
        <4> QED BY <1>7, <1>13
      <3>2. Begun(at', block) = Docs(drv, lo, at'[drv] - 1) BY <1>1 DEF Begun
      <3> QED BY <2>1, <3>1, <3>2
    <2>7. Closed(todo', block') = Closed(todo, block) BY <1>1, <2>1
    <2>8. Closed(todo', block') \cup Begun(at', block') = V BY <2>6, <2>7
    <2>9. todo' \subseteq AndBlocks BY <1>1, <1>2
    <2> HIDE DEF V
    <2> QED BY <1>12, <1>14, <2>5, <2>8, <2>9 DEF AndWalked
  <1>16. CASE ~(p < hi)
    <2>1. block' = NoBlock BY <1>1, <1>16
    <2>2. p = hi
      <3> HIDE DEF p, hi, lo
      <3> QED BY <1>2, <1>6, <1>7, <1>16
    <2>3. Docs(drv, lo, p) = DocsOf(block) BY <2>2 DEF DocsOf
    <2>4. Closed(todo', block') = Closed(todo, block) \cup DocsOf(block)
      <3>1. Closed(todo, NoBlock) = Closed(todo, block) \cup DocsOf(block)
        BY <1>2, AndClosedFacts
      <3> QED BY <1>1, <2>1, <3>1
    <2>5. Begun(at', block') = {} BY <2>1 DEF Begun
    <2>6. Closed(todo', block') \cup Begun(at', block') = V BY <2>3, <2>4, <2>5
    <2>7. todo' \subseteq AndBlocks BY <1>1, <1>2
    <2> HIDE DEF V
    <2> QED BY <1>12, <1>14, <2>1, <2>6, <2>7 DEF AndWalked
  <1> QED BY <1>15, <1>16, Zenon

LEMMA AndEnds ==
    ASSUME Setup, AndWalk, AndWalked(top, at, todo, block), block = NoBlock, Visitable = {}
    PROVE  top = BestOf(WalkHits, want)
  <1>1. /\ todo \subseteq AndBlocks
        /\ top = BestOf(HitsOf(curs, Rel \cap Closed(todo, NoBlock)), want)
    BY DEF AndWalked, Begun
  <1>2. GoodCursors(curs) /\ Rel \subseteq Nat /\ IsFiniteSet(Rel) /\ WalkHits = HitsOf(curs, Rel)
        /\ want \in Nat \ {0}
    BY RelFacts DEF Setup
  <1>3. ASSUME NEW d \in Rel
        PROVE  \E e \in AndBlocks : /\ d \in DocsOf(e)
                                    /\ Holders(curs, d) = Group(curs, SegOf(e.cur))
    <2>1. PICK s \in DOMAIN index.segs :
             /\ Group(curs, s) = Holders(curs, d) /\ Group(curs, s) # {}
             /\ {WordOf(c) : c \in Group(curs, s)} = AllWords
      BY WholeDoc
    <2> DEFINE c == Rarest(curs, s)
    <2>2. c \in Group(curs, s) /\ c \in DOMAIN curs /\ SegOf(c) = s BY <2>1, RarestIs
    <2>3. LiveIn(curs[c], d) BY <2>1, <2>2 DEF Holders
    <2>4. PICK j \in 1 .. Len(curs[c].list) : curs[c].list[j].tid = d /\ Alive(curs[c], j)
      BY <2>3 DEF LiveIn
    <2>5. GoodList(curs[c].list) /\ Len(curs[c].hdr) = NumBlocks(Len(curs[c].list))
          /\ DOMAIN curs[c].hdr = 1 .. Len(curs[c].hdr)
      BY <1>2, <2>2 DEF GoodCursors, GoodCursor
    <2> DEFINE b == BlockOf(j)
               e == Block(c, b, DriverBound(curs, c, b))
    <2>6. b \in DOMAIN curs[c].hdr /\ j \in BlockStart(b) .. BlockEnd(curs[c].list, b)
      BY <2>4, <2>5, BlockHas
    <2>7. e \in AndBlocks
      <3>1. s \in {SegOf(k) : k \in DOMAIN curs} BY <2>2
      <3> HIDE DEF b
      <3> QED BY <2>1, <2>6, <3>1 DEF AndBlocks, BlocksOf
    <2>8. e.cur = c /\ e.blk = b BY DEF Block
    <2>9. d \in Docs(c, BlockStart(b), BlockEnd(curs[c].list, b)) BY <2>4, <2>6 DEF Docs
    <2>10. d \in DocsOf(e) BY <2>8, <2>9 DEF DocsOf
    <2> HIDE DEF e, c
    <2> QED BY <2>1, <2>2, <2>7, <2>8, <2>10
  <1>4. \A e \in todo : e.bound \in Int BY <1>1, AndBlockIs
  <1>5. ASSUME NEW d \in Rel, d \notin Closed(todo, NoBlock)
        PROVE  /\ Cardinality(top) = want
               /\ \A t \in top : Worse(Hit(d, Total(curs, d)), t)
    <2>1. PICK e \in AndBlocks : d \in DocsOf(e) /\ Holders(curs, d) = Group(curs, SegOf(e.cur))
      BY <1>3
    <2>2. e \in todo
      <3>1. e # NoBlock BY AndBlockIs
      <3> QED BY <1>5, <2>1, <3>1 DEF Closed
    <2>3. IsFiniteSet(todo) BY <1>1, AndBlocksFinite, FS_Subset
    <2>4. PICK m \in todo : \A f \in todo : f.bound <= m.bound
      BY <1>4, <2>2, <2>3, HighestBound
    <2>5. e.cur \in DOMAIN curs /\ e.blk \in 1 .. Len(curs[e.cur].hdr)
          /\ e.bound = DriverBound(curs, e.cur, e.blk)
      BY AndBlockIs
    <2>6. e.bound \in Nat /\ Total(curs, d) <= e.bound
      BY <1>2, <2>1, <2>5, DriverBoundIs DEF DocsOf
    <2>7. m.bound \in Int /\ e.bound <= m.bound BY <1>4, <2>2, <2>4
    <2>8. m.bound >= 0 BY <2>6, <2>7
    <2>9. Full /\ m.bound < Threshold BY <2>4, <2>8 DEF Visitable
    <2>10. Total(curs, d) \in Nat BY <1>2, HoldersCount
    <2>11. Threshold \in Nat /\ \A t \in top : Threshold <= t.score /\ t.score \in Nat
      <3> DEFINE D == Rel \cap Closed(todo, NoBlock)
      <3>1. D \in SUBSET Rel /\ top = BestOf(HitsOf(curs, D), want) BY <1>1
      <3> HIDE DEF D
      <3> QED BY <2>9, <3>1, ThresholdIs
    <2>12. ASSUME NEW t \in top PROVE Worse(Hit(d, Total(curs, d)), t)
      <3>1. Total(curs, d) < t.score BY <2>6, <2>7, <2>9, <2>10, <2>11
      <3> QED BY <3>1, HitFields DEF Worse
    <2> QED BY <2>9, <2>12 DEF Full
  <1> DEFINE D == Rel \cap Closed(todo, NoBlock)
  <1>6. top = BestOf(HitsOf(curs, D), want) BY <1>1
  <1>7. Shadowed(curs, Rel \ D, want, top) BY <1>5 DEF Shadowed
  <1>8. D \subseteq Rel OBVIOUS
  <1> HIDE DEF D
  <1>9. top = BestOf(HitsOf(curs, Rel), want) BY <1>6, <1>7, <1>8, TopKeeps
  <1> QED BY <1>2, <1>9

-----------------------------------------------------------------------------
(* What OpenCursors leaves in the plan of a walk. *)
HowIs ==
    /\ walk.gate \in Gates /\ walk.filtered \in BOOLEAN
    /\ walk.how \in {"bmw", "maxscore", "driven", "dense", "best", "and"}
    /\ walk.how = "and" => AndWalk
    /\ walk.how \in {"dense", "best"} => RanksAll
    /\ walk.how = "best" => OneWord(curs)
    /\ walk.how = "dense" => Single(curs)

(* How far each walk has come. *)
Progress ==
    /\ walk.how = "bmw" => \E F : Walked(DOMAIN curs, at, top, F)
    /\ walk.how = "maxscore" => \E F : Walked(Essential, at, top, F)
    /\ walk.how = "driven" => \E F : Walked(Drivers, at, top, F)
    /\ walk.how = "dense" => DenseWalked(top, at)
    /\ walk.how = "best" => BestWalked(top, todo)
    /\ walk.how = "and" => AndWalked(top, at, todo, block)

Opening ==
    /\ Setup /\ HowIs
    /\ at = [c \in DOMAIN curs |-> Settle(curs[c], 1)]
    /\ todo = BlocksOf(curs, walk.how)
    /\ top = {} /\ block = NoBlock

LEMMA BestOfNone ==
    ASSUME NEW cs, NEW k \in Nat \ {0}
    PROVE  BestOf(HitsOf(cs, {}), k) = {}
  <1>1. HitsOf(cs, {}) = {} BY DEF HitsOf
  <1>2. Ranking({}) BY FS_EmptySet DEF Ranking
  <1>3. FirstOf(BestOf({}, k), {}, k) BY <1>2, BestOfIsFirst
  <1>4. BestOf({}, k) \subseteq {} BY <1>3 DEF FirstOf
  <1> QED BY <1>1, <1>4

LEMMA OpenPlaces ==
    ASSUME GoodCursors(curs), NEW c \in DOMAIN curs
    PROVE  /\ Settle(curs[c], 1) \in 1 .. Len(curs[c].list) + 1
           /\ Settled(curs[c], Settle(curs[c], 1))
           /\ \A j \in 1 .. Settle(curs[c], 1) - 1 : ~Alive(curs[c], j)
           /\ Docid(curs[c], Settle(curs[c], 1)) >= 0
  <1>1. GoodCursor(curs[c]) /\ Len(curs[c].list) \in Nat BY DEF GoodCursors, GoodCursor, GoodList
  <1>2. 1 \in 1 .. Len(curs[c].list) + 1 BY <1>1
  <1> DEFINE p == Settle(curs[c], 1)
  <1>3. p \in 1 .. Len(curs[c].list) + 1 /\ Settled(curs[c], p)
        /\ \A j \in 1 .. p - 1 : ~Alive(curs[c], j)
    BY <1>1, <1>2, SettleIs
  <1> HIDE DEF p
  <1>4. Docid(curs[c], p) \in 0 .. Nowhere BY <1>1, <1>3, DocidType
  <1>5. Docid(curs[c], p) >= 0 BY <1>4
  <1> QED BY <1>3, <1>5 DEF p

\* A walk begins with nothing read.
LEMMA Opens == Opening => Progress
  <1> SUFFICES ASSUME Opening PROVE Progress OBVIOUS
  <1>1. Setup /\ HowIs /\ top = {} /\ block = NoBlock BY DEF Opening
  <1>2. GoodCursors(curs) /\ Rel \subseteq Nat /\ want \in Nat \ {0} BY <1>1, RelFacts DEF Setup
  <1>3. \A c \in DOMAIN curs : at[c] = Settle(curs[c], 1) BY DEF Opening
  <1>4. ASSUME NEW K \in SUBSET (DOMAIN curs) PROVE Walked(K, at, top, 0)
    <2>1. 0 \in 0 .. Nowhere BY RankAssumption
    <2>2. Tracked(curs, at, K, 0) BY <1>2, <1>3, <2>1, OpenPlaces DEF Tracked
    <2>3. Met(0) = {}
      <3>1. \A e \in Nat : ~(e < 0) OBVIOUS
      <3> QED BY <1>2, <3>1 DEF Met
    <2>4. top = BestOf(HitsOf(curs, Met(0)), want) BY <1>1, <1>2, <2>3, BestOfNone
    <2> QED BY <2>2, <2>4 DEF Walked
  <1>5. Walked(DOMAIN curs, at, top, 0) BY <1>4
  <1>6. Walked(Essential, at, top, 0) BY <1>4 DEF Essential
  <1>7. Walked(Drivers, at, top, 0) BY <1>4 DEF Drivers
  <1>8. ASSUME walk.how = "dense" PROVE DenseWalked(top, at)
    <2>1. Single(curs) BY <1>1, <1>8 DEF HowIs
    <2>2. IsFiniteSet(DOMAIN curs) BY <1>2 DEF GoodCursors
    <2>3. PICK c : DOMAIN curs = {c} BY <2>1, <2>2, FS_Singleton DEF Single
    <2>4. at[c] = Settle(curs[c], 1) BY <1>3, <2>3
    <2>5. at[c] \in 1 .. Len(curs[c].list) + 1 /\ \A j \in 1 .. at[c] - 1 : ~Alive(curs[c], j)
      BY <1>2, <2>3, <2>4, OpenPlaces
    <2>6. Docs(c, 1, at[c] - 1) = {} BY <2>5 DEF Docs
    <2>7. top = BestOf(HitsOf(curs, Docs(c, 1, at[c] - 1)), want) BY <1>1, <1>2, <2>6, BestOfNone
    <2>8. DOMAIN at = {c} BY <2>3 DEF Opening
    <2> QED BY <2>3, <2>5, <2>7, <2>8 DEF DenseWalked
  <1>9. ASSUME walk.how = "best" PROVE BestWalked(top, todo)
    <2>1. todo = BestBlocks BY <1>9 DEF Opening, BestBlocks
    <2>2. Visited(todo) = {} BY <2>1 DEF Visited
    <2> QED BY <1>1, <1>2, <2>1, <2>2, BestOfNone DEF BestWalked
  <1>10. ASSUME walk.how = "and" PROVE AndWalked(top, at, todo, block)
    <2>1. todo = AndBlocks BY <1>10 DEF Opening, AndBlocks
    <2>2. Closed(todo, block) = {} BY <2>1 DEF Closed
    <2>3. Begun(at, block) = {} BY <1>1 DEF Begun
    <2>4. Rel \cap (Closed(todo, block) \cup Begun(at, block)) = {} BY <2>2, <2>3
    <2>5. top = BestOf(HitsOf(curs, Rel \cap (Closed(todo, block) \cup Begun(at, block))), want)
      BY <1>1, <1>2, <2>4, BestOfNone
    <2>6. Placed(at)
      <3>1. DOMAIN at = DOMAIN curs BY DEF Opening
      <3>2. \A c \in DOMAIN curs : at[c] \in 1 .. Len(curs[c].list) + 1 BY <1>2, <1>3, OpenPlaces
      <3> QED BY <3>1, <3>2 DEF Placed
    <2> QED BY <1>1, <2>1, <2>5, <2>6 DEF AndWalked
  <1> QED BY <1>5, <1>6, <1>7, <1>8, <1>9, <1>10 DEF Progress

\* A walk that ends has its answer.
LEMMA Ends ==
    ASSUME Setup, HowIs, Progress, Ended, ~unknown
    PROVE  top = BestOf(WalkHits, want)
  <1>1. CASE walk.how = "bmw"
    <2>1. PICK F : Walked(DOMAIN curs, at, top, F) BY <1>1 DEF Progress
    <2>2. Pivots = {} BY <1>1 DEF Ended
    <2> QED BY <2>1, <2>2, BmwEnds
  <1>2. CASE walk.how = "maxscore"
    <2>1. PICK F : Walked(Essential, at, top, F) BY <1>2 DEF Progress
    <2>2. Ids(Essential) = {} BY <1>2 DEF Ended
    <2> QED BY <2>1, <2>2, MaxScoreEnds
  <1>3. CASE walk.how = "driven"
    <2>1. PICK F : Walked(Drivers, at, top, F) BY <1>3 DEF Progress
    <2>2. Ids(Drivers) = {} BY <1>3 DEF Ended
    <2> QED BY <1>3, <2>1, <2>2, DrivenEnds
  <1>4. CASE walk.how = "dense"
    <2>1. DenseWalked(top, at) /\ RanksAll BY <1>4 DEF Progress, HowIs
    <2>2. \A c \in DOMAIN curs : at[c] > Len(curs[c].list) BY <1>4 DEF Ended
    <2> QED BY <2>1, <2>2, DenseEnds
  <1>5. CASE walk.how = "best"
    <2>1. BestWalked(top, todo) /\ RanksAll /\ OneWord(curs) BY <1>5 DEF Progress, HowIs
    <2>2. Visitable = {} BY <1>5 DEF Ended
    <2> QED BY <2>1, <2>2, BestEnds
  <1>6. CASE walk.how = "and"
    <2>1. AndWalked(top, at, todo, block) /\ AndWalk BY <1>6 DEF Progress, HowIs
    <2>2. block = NoBlock /\ Visitable = {} BY <1>6 DEF Ended
    <2> QED BY <2>1, <2>2, AndEnds
  <1> QED BY <1>1, <1>2, <1>3, <1>4, <1>5, <1>6 DEF HowIs

-----------------------------------------------------------------------------
\* A step of a walk leaves what its progress is measured by.
Fixed == UNCHANGED <<index, query, walk, curs, want>>

LEMMA FixedRel ==
    ASSUME Fixed
    PROVE  Rel' = Rel
  <1>1. AllWords' = AllWords BY DEF Fixed, AllWords
  <1>2. \A held : BoolAdmits(held)' = BoolAdmits(held) BY DEF Fixed, BoolAdmits, Ordinal
  <1>3. \A s, tid : PhraseVerdict(s, tid)' = PhraseVerdict(s, tid) BY DEF Fixed, PhraseVerdict
  <1>4. \A doc : WordsIn(doc)' = WordsIn(doc) BY <1>1 DEF Fixed, WordsIn
  <1>5. ASSUME NEW s, NEW tid PROVE Relevant(s, tid)' <=> Relevant(s, tid)
    <2>1. walk' = walk /\ index' = index BY DEF Fixed
    <2>2. WordsIn(index.segs[s].docs[tid])' = WordsIn(index.segs[s].docs[tid])
      BY <2>1, <1>4
    <2> QED BY <1>1, <1>2, <1>3, <2>1, <2>2 DEF Relevant
  <1> QED BY <1>5 DEF Fixed, Rel

LEMMA FixedWalked ==
    ASSUME Fixed, \E F : Walked(DOMAIN curs, at', top', F)
    PROVE  (\E F : Walked(DOMAIN curs, at, top, F))'
  <1>1. PICK F : Walked(DOMAIN curs, at', top', F) OBVIOUS
  <1>2. Rel' = Rel BY FixedRel
  <1> QED BY <1>1, <1>2 DEF Fixed, Walked, Met

LEMMA FixedDriven ==
    ASSUME Fixed, \E F : Walked(Drivers, at', top', F)
    PROVE  (\E F : Walked(Drivers, at, top, F))'
  <1>1. PICK F : Walked(Drivers, at', top', F) OBVIOUS
  <1>2. Rel' = Rel BY FixedRel
  <1>3. Drivers' = Drivers BY DEF Fixed, Drivers
  <1> QED BY <1>1, <1>2, <1>3 DEF Fixed, Walked, Met

\* The essential cursors only become fewer.
LEMMA FixedEssential ==
    ASSUME Fixed, Setup, NEW F, Walked(Essential, at', top', F), Essential' \subseteq Essential
    PROVE  (\E G : Walked(Essential, at, top, G))'
  <1>1. Rel' = Rel BY FixedRel
  <1>2. Tracked(curs, at', Essential', F)
    BY DEF Walked, Tracked
  <1> QED BY <1>1, <1>2 DEF Fixed, Walked, Met

LEMMA FixedDense ==
    ASSUME Fixed, DenseWalked(top', at')
    PROVE  DenseWalked(top, at)'
  BY DEF Fixed, DenseWalked, Docs

LEMMA FixedBest ==
    ASSUME Fixed, BestWalked(top', todo')
    PROVE  BestWalked(top, todo)'
  <1>1. BestBlocks' = BestBlocks BY DEF Fixed, BestBlocks, BlocksOf, AllWords
  <1>2. \A e : DocsOf(e)' = DocsOf(e) BY DEF Fixed, DocsOf, Docs
  <1> QED BY <1>1, <1>2 DEF Fixed, BestWalked, Visited

LEMMA FixedAnd ==
    ASSUME Fixed, AndWalked(top', at', todo', block')
    PROVE  AndWalked(top, at, todo, block)'
  <1>1. AndBlocks' = AndBlocks BY DEF Fixed, AndBlocks, BlocksOf, AllWords
  <1>2. \A e : DocsOf(e)' = DocsOf(e) BY DEF Fixed, DocsOf, Docs
  <1>3. Rel' = Rel BY FixedRel
  <1>4. Closed(todo, block)' = Closed(todo', block') BY <1>1, <1>2 DEF Closed
  <1>5. Begun(at, block)' = Begun(at', block') BY DEF Fixed, Begun, Docs
  <1>6. Placed(at)' <=> Placed(at') BY DEF Fixed, Placed
  <1>7. Entered(at, todo, block)' <=> Entered(at', todo', block') BY <1>1 DEF Fixed, Entered
  <1> QED BY <1>1, <1>3, <1>4, <1>5, <1>6, <1>7 DEF Fixed, AndWalked

LEMMA SameEssential ==
    ASSUME UNCHANGED <<curs, want, top>>
    PROVE  Essential' = Essential
  BY DEF Essential, Full, Threshold, MaxSum, Below

LEMMA Advances ==
    ASSUME Setup, HowIs, Progress, WalkStep, ~unknown, ~unknown', Fixed
    PROVE  Progress'
  <1>0. walk' = walk /\ walk.gate \in Gates BY DEF Fixed, HowIs
  <1>1. CASE BmwSkipBlock \/ BmwJump \/ BmwScore \/ BmwApproach
    <2>1. walk.how = "bmw"
      BY <1>1 DEF BmwSkipBlock, BmwJump, BmwScore, BmwApproach, ByDocument, Walking
    <2>2. PICK F : Walked(DOMAIN curs, at, top, F) BY <2>1 DEF Progress
    <2>3. \E G : Walked(DOMAIN curs, at', top', G)
      BY <1>0, <1>1, <2>1, <2>2, BmwSkips, BmwJumps, BmwScores, BmwApproaches
    <2>4. (\E G : Walked(DOMAIN curs, at, top, G))' BY <2>3, FixedWalked
    <2> QED BY <1>0, <2>1, <2>4 DEF Progress
  <1>2. CASE MaxScorePass
    <2>1. walk.how = "maxscore" BY <1>2 DEF MaxScorePass, ByDocument, Walking
    <2>2. PICK F : Walked(Essential, at, top, F) BY <2>1 DEF Progress
    <2>3. PICK G : Walked(Essential, at', top', G) BY <1>2, <2>2, MaxScorePasses
    <2>4. Essential' \subseteq Essential BY <1>2, SameEssential DEF MaxScorePass, Fixed
    <2>5. (\E H : Walked(Essential, at, top, H))' BY <2>3, <2>4, FixedEssential
    <2> QED BY <1>0, <2>1, <2>5 DEF Progress
  <1>3. CASE MaxScoreScore
    <2>1. walk.how = "maxscore" BY <1>3 DEF MaxScoreScore, ByDocument, Walking
    <2>2. PICK F : Walked(Essential, at, top, F) BY <2>1 DEF Progress
    <2>3. PICK G : /\ Walked(Essential, at', top', G)
                   /\ TopBelow(G - 1) /\ G - 1 \in Nat
      BY <1>0, <1>3, <2>1, <2>2, MaxScoreScores
    <2>4. G \in 0 .. Nowhere /\ top' = BestOf(HitsOf(curs, Met(G)), want)
      BY <2>3 DEF Walked, Tracked
    <2>5. G \in Nat /\ G - 1 <= G BY <2>3, <2>4
    <2>6. Essential' \subseteq Essential
      BY <2>3, <2>4, <2>5, EssentialShrinks DEF Fixed
    <2>7. (\E H : Walked(Essential, at, top, H))' BY <2>3, <2>6, FixedEssential
    <2> QED BY <1>0, <2>1, <2>7 DEF Progress
  <1>4. CASE DrivenScore
    <2>1. walk.how = "driven" BY <1>4 DEF DrivenScore, ByDocument, Walking
    <2>2. PICK F : Walked(Drivers, at, top, F) BY <2>1 DEF Progress
    <2>3. \E G : Walked(Drivers, at', top', G) BY <1>0, <1>4, <2>1, <2>2, DrivenScores
    <2>4. (\E G : Walked(Drivers, at, top, G))' BY <2>3, FixedDriven
    <2> QED BY <1>0, <2>1, <2>4 DEF Progress
  <1>5. CASE DenseBlock
    <2>1. walk.how = "dense" BY <1>5 DEF DenseBlock, ByDocument, Walking
    <2>2. DenseWalked(top, at) /\ RanksAll BY <2>1 DEF Progress, HowIs
    <2>3. DenseWalked(top', at') BY <1>5, <2>2, DenseBlocks
    <2>4. DenseWalked(top, at)' BY <2>3, FixedDense
    <2> QED BY <1>0, <2>1, <2>4 DEF Progress
  <1>6. CASE BestFirstBlock
    <2>1. walk.how = "best" BY <1>6 DEF BestFirstBlock, Walking
    <2>2. BestWalked(top, todo) /\ RanksAll /\ OneWord(curs) BY <2>1 DEF Progress, HowIs
    <2>3. BestWalked(top', todo') BY <1>6, <2>2, BestVisits
    <2>4. BestWalked(top, todo)' BY <2>3, FixedBest
    <2> QED BY <1>0, <2>1, <2>4 DEF Progress
  <1>7. CASE AndOpen \/ AndDocument
    <2>1. walk.how = "and" BY <1>7, Zenon DEF AndOpen, AndDocument, Walking
    <2>2. AndWalked(top, at, todo, block) /\ AndWalk BY <2>1 DEF Progress, HowIs
    <2>3. AndWalked(top', at', todo', block') BY <1>7, <2>2, AndOpens, AndDocuments
    <2>4. AndWalked(top, at, todo, block)' BY <2>3, FixedAnd
    <2> QED BY <1>0, <2>1, <2>4, ZenonT(30) DEF Progress
  <1> QED BY <1>1, <1>2, <1>3, <1>4, <1>5, <1>6, <1>7 DEF WalkStep

-----------------------------------------------------------------------------
(* The inductive invariant of a scan. *)
LEMMA TermsListed ==
    ASSUME NEW q, Postfix(q)
    PROVE  Listed(QueryTerms(q)) /\ IsFiniteSet(Operands(q)) /\ Operands(q) \in SUBSET Nat
  <1> DEFINE S == Operands(q)
             terms == QueryTerms(q)
  <1>1. Len(q) \in Nat /\ DOMAIN q = 1 .. Len(q) BY DEF Postfix, Listed
  <1>2. S \subseteq 1 .. Len(q) BY <1>1 DEF Operands
  <1>3. IsFiniteSet(S) /\ Cardinality(S) \in Nat /\ S \subseteq Nat
    <2> HIDE DEF S
    <2>1. IsFiniteSet(1 .. Len(q)) BY <1>1, FS_Interval
    <2>2. IsFiniteSet(S) BY <1>2, <2>1, FS_Subset
    <2> QED BY <1>1, <1>2, <2>2, FS_CardinalityType
  <1>4. DOMAIN terms = 1 .. Cardinality(S) /\ Len(terms) = Cardinality(S)
    <2>1. terms = [k \in 1 .. Cardinality(S) |-> terms[k]] BY DEF QueryTerms
    <2>2. terms \in [1 .. Cardinality(S) -> {terms[k] : k \in 1 .. Cardinality(S)}]
      <3> HIDE DEF terms, S
      <3> QED BY <2>1
    <2> HIDE DEF terms, S
    <2> QED BY <1>3, <2>2, Length
  <1> HIDE DEF S, terms
  <1> QED BY <1>3, <1>4 DEF Listed, S, terms

Planned ==
    /\ walk.gate \in Gates /\ walk.filtered \in BOOLEAN /\ (walk.filtered => walk.gate = "none")
    /\ \E g, f, S : walk = [gate |-> g, filtered |-> f, filter |-> S, how |-> "none", drivers |-> {}]

ScanInv ==
    /\ want \in {0} \cup Wants
    /\ want = 0 => stage = "plan"
    /\ want # 0 => RankedCorpus(index) /\ text \in RankedTexts
    /\ want # 0 /\ phase \in {"segments", "recheck"} => Postfix(query)
    /\ stage # "plan" => phase \in {"segments", "recheck"}
    /\ stage \in {"plan", "collect", "open"} => top = {} /\ ~unknown /\ block = NoBlock
    /\ stage = "open" => Planned
    /\ stage = "walk" => Setup /\ HowIs /\ (~unknown => Progress)

LEMMA MethodIs ==
    ASSUME NEW cs, NEW gate \in Gates, NEW filtered \in BOOLEAN, filtered => gate = "none"
    PROVE  LET how == Method(cs, gate, filtered)
           IN  /\ how \in {"bmw", "maxscore", "driven", "dense", "best", "and"}
               /\ how = "and" => gate \in {"bool", "phrase"} /\ ~filtered
               /\ how \in {"dense", "best"} => gate = "none" /\ ~filtered
               /\ how = "best" => OneWord(cs)
               /\ how = "dense" => Single(cs)
  BY DEF Method, Conjunctive, Gates, Dense

LEMMA ScanStarts ==
    ASSUME ScanInit
    PROVE  ScanInv
  <1>1. want \in {0} \cup Wants /\ stage = "plan" /\ top = {} /\ unknown = FALSE /\ block = NoBlock
    BY DEF ScanInit
  <1>2. CASE want = 0 BY <1>1, <1>2 DEF ScanInv
  <1>3. CASE want # 0
    <2>1. text \in RankedTexts /\ index \in RankedCorpora /\ phase = "parse"
      BY <1>3 DEF ScanInit, Start
    <2>2. RankedCorpus(index) BY <2>1, RankedAssumption
    <2> QED BY <1>1, <1>3, <2>1, <2>2 DEF ScanInv
  <1> QED BY <1>2, <1>3

\* Steps of the match set: nothing of the walk changes.
LEMMA CollectKeeps ==
    ASSUME ScanInv, stage \in {"plan", "collect"}, stage' = stage,
           UNCHANGED <<want, top, unknown, block>>, UNCHANGED <<text, index>>,
           phase' \in {"segments", "recheck"} => (want # 0 => Postfix(query')),
           stage = "collect" => phase' \in {"segments", "recheck"}
    PROVE  ScanInv'
  <1>1. stage' # "open" /\ stage' # "walk" OBVIOUS
  <1>2. stage' # "plan" => phase' \in {"segments", "recheck"} OBVIOUS
  <1> QED BY <1>1, <1>2 DEF ScanInv

LEMMA ParseKeeps ==
    ASSUME ScanInv, ParseText, UNCHANGED ranked
    PROVE  ScanInv'
  <1>1. stage = "plan" BY DEF ScanInv, ParseText
  <1>2. text' = text /\ index' = index /\ UNCHANGED <<want, top, unknown, block, stage>>
    BY DEF ParseText, ranked
  <1>3. phase' \in {"segments", "recheck"} => (want # 0 => Postfix(query'))
    <2> SUFFICES ASSUME phase' \in {"segments", "recheck"}, want # 0
                 PROVE  Postfix(query')
      OBVIOUS
    <2>1. Parse(text).ok /\ query' = WithoutStopwords(Parse(text).items) BY DEF ParseText
    <2>2. text \in RankedTexts BY DEF ScanInv
    <2> QED BY <2>1, <2>2, RankedAssumption
  <1> QED BY <1>1, <1>2, <1>3, CollectKeeps

LEMMA SegmentKeeps ==
    ASSUME ScanInv, want = 0 \/ stage = "collect", CollectSegment, UNCHANGED ranked
    PROVE  ScanInv'
  <1>1. UNCHANGED <<text, index, phase, query>> /\ phase = "segments"
    BY DEF CollectSegment, SkipSegment, CollectCompoundPattern, CollectFuzzy, CollectRegex,
           CollectPositional, CollectGeneral, Advance
  <1>2. UNCHANGED <<want, top, unknown, block, stage>> BY DEF ranked
  <1>3. stage \in {"plan", "collect"} BY DEF ScanInv
  <1>4. want # 0 => Postfix(query') BY <1>1 DEF ScanInv
  <1> QED BY <1>1, <1>2, <1>3, <1>4, CollectKeeps

LEMMA PendingKeeps ==
    ASSUME ScanInv, want = 0 \/ stage = "collect", CollectPending, UNCHANGED ranked
    PROVE  ScanInv'
  <1>1. UNCHANGED <<text, index, query>> /\ phase = "segments" /\ phase' = "recheck"
    BY DEF CollectPending
  <1>2. UNCHANGED <<want, top, unknown, block, stage>> BY DEF ranked
  <1>3. stage \in {"plan", "collect"} BY DEF ScanInv
  <1>4. want # 0 => Postfix(query') BY <1>1 DEF ScanInv
  <1> QED BY <1>1, <1>2, <1>3, <1>4, CollectKeeps

LEMMA RecheckKeeps ==
    ASSUME ScanInv, want = 0, Recheck, UNCHANGED ranked
    PROVE  ScanInv'
  <1>1. UNCHANGED <<text, index, query>> /\ phase' = "done" BY DEF Recheck
  <1>2. UNCHANGED <<want, top, unknown, block, stage>> BY DEF ranked
  <1>3. stage = "plan" BY DEF ScanInv
  <1> QED BY <1>1, <1>2, <1>3, CollectKeeps

LEMMA PlanKeeps ==
    ASSUME ScanInv, PlanCollect \/ PlanOr \/ PlanBoolean \/ PlanPhrase
    PROVE  ScanInv'
  <1>1. /\ want > 0 /\ stage = "plan" /\ phase = "segments"
        /\ UNCHANGED <<text, index, phase, query, want, top, unknown, block>>
    BY DEF PlanCollect, PlanOr, PlanBoolean, PlanPhrase, Planning, vars
  <1>2. top = {} /\ ~unknown /\ block = NoBlock BY <1>1 DEF ScanInv
  <1>3. want # 0 BY <1>1
  <1>4. stage' = "collect" \/ (stage' = "open" /\ Planned')
    <2>1. CASE PlanCollect BY <2>1 DEF PlanCollect
    <2>2. CASE PlanOr BY <2>2 DEF PlanOr, NoWalk, Planned, Gates
    <2>3. CASE PlanBoolean BY <2>3 DEF PlanBoolean, Gated, NoWalk, Planned, Gates
    <2>4. CASE PlanPhrase BY <2>4 DEF PlanPhrase, Gated, NoWalk, Planned, Gates
    <2> QED BY <2>1, <2>2, <2>3, <2>4
  <1> QED BY <1>1, <1>2, <1>3, <1>4 DEF ScanInv

LEMMA FilterKeeps ==
    ASSUME ScanInv, PlanFilter
    PROVE  ScanInv'
  <1>1. /\ stage = "collect" /\ phase = "recheck" /\ stage' \in {"merge", "open"}
        /\ UNCHANGED <<text, index, phase, query, want, top, unknown, block>>
        /\ walk' = [NoWalk EXCEPT !.filtered = TRUE, !.filter = Matched]
    BY DEF PlanFilter, vars
  <1>2. top = {} /\ ~unknown /\ block = NoBlock /\ want # 0 BY <1>1 DEF ScanInv
  <1>3. Planned'
    <2>1. walk' = [gate |-> "none", filtered |-> TRUE, filter |-> Matched, how |-> "none",
                   drivers |-> {}]
      BY <1>1 DEF NoWalk
    <2> QED BY <2>1 DEF Planned, Gates
  <1> QED BY <1>1, <1>2, <1>3 DEF ScanInv

LEMMA OpenKeeps ==
    ASSUME ScanInv, OpenCursors
    PROVE  ScanInv'
  <1>1. /\ stage = "open" /\ stage' \in {"walk", "merge"}
        /\ curs' = Cursors(index, QueryTerms(query))
        /\ at' = [c \in DOMAIN curs' |-> Settle(curs'[c], 1)]
        /\ walk' = [walk EXCEPT !.how = Method(curs', walk.gate, walk.filtered),
                                !.drivers = Driver(curs').words]
        /\ todo' = BlocksOf(curs', walk'.how)
        /\ UNCHANGED <<text, index, phase, query, want, top, unknown, block>>
    BY DEF OpenCursors, vars
  <1>2. /\ top = {} /\ ~unknown /\ block = NoBlock /\ want # 0 /\ want \in Wants /\ Planned
        /\ phase \in {"segments", "recheck"} /\ RankedCorpus(index) /\ Listed(QueryTerms(query))
    BY <1>1, TermsListed DEF ScanInv
  <1>3. Setup'
    <2>1. want \in Nat \ {0} BY <1>2, RankedAssumption
    <2> QED BY <1>1, <1>2, <2>1 DEF Setup
  <1>4. /\ walk'.gate = walk.gate /\ walk'.filtered = walk.filtered
        /\ walk'.how = Method(curs', walk.gate, walk.filtered)
    <2>1. PICK g, f, S :
             walk = [gate |-> g, filtered |-> f, filter |-> S, how |-> "none", drivers |-> {}]
      BY <1>2 DEF Planned
    <2> DEFINE m == Method(curs', walk.gate, walk.filtered)
               ds == Driver(curs').words
    <2>2. walk' = [walk EXCEPT !.how = m, !.drivers = ds] BY <1>1
    <2> HIDE DEF m, ds
    <2>3. walk' = [gate |-> g, filtered |-> f, filter |-> S, how |-> m, drivers |-> ds]
      BY <2>1, <2>2
    <2>4. walk'.gate = walk.gate /\ walk'.filtered = walk.filtered /\ walk'.how = m
      BY <2>1, <2>3
    <2> QED BY <2>4 DEF m
  <1>5. HowIs'
    <2> DEFINE cs == curs'
    <2>1. walk.gate \in Gates /\ walk.filtered \in BOOLEAN /\ (walk.filtered => walk.gate = "none")
      BY <1>2 DEF Planned
    <2>2. LET how == Method(cs, walk.gate, walk.filtered)
          IN  /\ how \in {"bmw", "maxscore", "driven", "dense", "best", "and"}
              /\ how = "and" => walk.gate \in {"bool", "phrase"} /\ ~walk.filtered
              /\ how \in {"dense", "best"} => walk.gate = "none" /\ ~walk.filtered
              /\ how = "best" => OneWord(cs)
              /\ how = "dense" => Single(cs)
      <3> HIDE DEF cs
      <3> QED BY <2>1, MethodIs
    <2>3. /\ walk'.how \in {"bmw", "maxscore", "driven", "dense", "best", "and"}
          /\ walk'.how = "and" => walk'.gate \in {"bool", "phrase"} /\ ~walk'.filtered
          /\ walk'.how \in {"dense", "best"} => walk'.gate = "none" /\ ~walk'.filtered
          /\ walk'.how = "best" => OneWord(curs')
          /\ walk'.how = "dense" => Single(curs')
      BY <1>4, <2>2
    <2>4. walk'.gate \in Gates /\ walk'.filtered \in BOOLEAN BY <1>4, <2>1
    <2>5. (OneWord(curs') <=> OneWord(curs)') /\ (Single(curs') <=> Single(curs)')
      BY DEF OneWord, Single
    <2> QED BY <2>3, <2>4, <2>5 DEF HowIs, AndWalk, RanksAll, Gates
  <1>6. BlocksOf(curs, walk.how)' = BlocksOf(curs', walk'.how)
    BY <1>1 DEF BlocksOf, AllWords
  <1>7. Opening' BY <1>1, <1>2, <1>3, <1>5, <1>6 DEF Opening
  <1>8. Opening' => Progress' BY Opens, PTL
  <1>9. Progress' BY <1>7, <1>8
  <1> QED BY <1>1, <1>2, <1>3, <1>5, <1>9 DEF ScanInv

LEMMA WalkKeeps ==
    ASSUME ScanInv, WalkStep
    PROVE  ScanInv'
  <1>1. \E how : Walking(how)
    BY Zenon DEF WalkStep, ByDocument, BmwSkipBlock, BmwJump, BmwScore, BmwApproach, MaxScorePass,
           MaxScoreScore, DrivenScore, DenseBlock, BestFirstBlock, AndOpen, AndDocument
  <1>2. stage = "walk" /\ UNCHANGED <<text, index, phase, query, want, stage, curs, walk>>
    BY <1>1 DEF Walking, vars
  <1>3. Setup /\ HowIs /\ (~unknown => Progress) BY <1>2 DEF ScanInv
  <1>4. Fixed BY <1>2 DEF Fixed
  <1>5. Setup' BY <1>2, <1>3 DEF Setup
  <1>6. HowIs' BY <1>2, <1>3 DEF HowIs, AndWalk, RanksAll, OneWord, Single
  <1>7. ~unknown' => ~unknown
    <2>1. CASE BmwScore \/ MaxScoreScore \/ DrivenScore
      <3>1. PICK pos, d : Offer(pos, d) BY <2>1 DEF BmwScore, MaxScoreScore, DrivenScore
      <3> QED BY <3>1, Zenon DEF Offer
    <2>2. CASE ~(BmwScore \/ MaxScoreScore \/ DrivenScore)
      BY <2>2 DEF WalkStep, BmwSkipBlock, BmwJump, BmwApproach, MaxScorePass, DenseBlock,
                  BestFirstBlock, AndOpen, AndDocument
    <2> QED BY <2>1, <2>2, Zenon
  <1>8. ~unknown' => Progress' BY <1>3, <1>4, <1>7, Advances
  <1> QED BY <1>2, <1>5, <1>6, <1>8, ZenonT(30) DEF ScanInv

LEMMA EndKeeps ==
    ASSUME ScanInv, EndWalk
    PROVE  ScanInv'
  <1>1. /\ stage = "walk" /\ UNCHANGED <<text, index, phase, query, want>> /\ block' = NoBlock
        /\ \/ stage' = "plan" /\ top' = {} /\ ~unknown'
           \/ stage' = "merge"
    BY DEF EndWalk, vars
  <1> QED BY <1>1 DEF ScanInv

LEMMA FinishKeeps ==
    ASSUME ScanInv, RankExact \/ MergePending
    PROVE  ScanInv'
  <1>1. /\ stage \in {"collect", "merge"} /\ UNCHANGED <<text, index, phase, query, want>>
        /\ stage' = "done"
    BY DEF RankExact, MergePending, vars
  <1> QED BY <1>1 DEF ScanInv

LEMMA ScanKept ==
    ASSUME ScanInv, [ScanNext]_scanVars
    PROVE  ScanInv'
  <1>1. CASE UNCHANGED scanVars
    <2>1. UNCHANGED <<text, index, phase, query, want, stage, curs, at, walk, todo, block,
                      unknown, top>>
      BY <1>1 DEF scanVars, vars, ranked
    <2>2. stage = "walk" => Setup' /\ HowIs'
      BY <2>1 DEF ScanInv, Setup, HowIs, AndWalk, RanksAll, OneWord, Single
    <2>3. stage = "walk" /\ ~unknown => Progress'
      <3> SUFFICES ASSUME stage = "walk", ~unknown PROVE Progress' OBVIOUS
      <3>1. Progress /\ Setup BY DEF ScanInv
      <3>2. Fixed BY <2>1 DEF Fixed
      <3>3. walk.how = "bmw" => (\E F : Walked(DOMAIN curs, at, top, F))'
        BY <2>1, <3>1, <3>2, FixedWalked DEF Progress
      <3>4. walk.how = "maxscore" => (\E F : Walked(Essential, at, top, F))'
        <4>1. Essential' = Essential BY <2>1, SameEssential
        <4> QED BY <2>1, <3>1, <3>2, <4>1, FixedEssential DEF Progress
      <3>5. walk.how = "driven" => (\E F : Walked(Drivers, at, top, F))'
        BY <2>1, <3>1, <3>2, FixedDriven DEF Progress
      <3>6. walk.how = "dense" => DenseWalked(top, at)' BY <2>1, <3>1, <3>2, FixedDense DEF Progress
      <3>7. walk.how = "best" => BestWalked(top, todo)' BY <2>1, <3>1, <3>2, FixedBest DEF Progress
      <3>8. walk.how = "and" => AndWalked(top, at, todo, block)'
        BY <2>1, <3>1, <3>2, FixedAnd DEF Progress
      <3> QED BY <2>1, <3>3, <3>4, <3>5, <3>6, <3>7, <3>8 DEF Progress
    <2>4. stage = "open" => Planned' BY <2>1 DEF ScanInv, Planned
    <2> QED BY <2>1, <2>2, <2>3, <2>4 DEF ScanInv
  <1>2. CASE ScanNext
    BY <1>2, ParseKeeps, SegmentKeeps, PendingKeeps, RecheckKeeps, PlanKeeps, FilterKeeps,
       OpenKeeps, WalkKeeps, EndKeeps, FinishKeeps
       DEF ScanNext
  <1> QED BY <1>1, <1>2

\* A walk that ends has the k best of all documents it is there for, though it
\* left postings and whole blocks unread (fts_search_bmw and the other walks).
THEOREM WalksAreExact == ScanSpec => []WalkExact
  <1>1. ScanInit => ScanInv BY ScanStarts
  <1>2. ScanInv /\ [ScanNext]_scanVars => ScanInv' BY ScanKept
  <1>3. ScanInv => WalkExact
    BY Ends DEF ScanInv, WalkExact
  <1> QED BY <1>1, <1>2, <1>3, PTL DEF ScanSpec

-----------------------------------------------------------------------------
(***************************************************************************)
(* Queries: an operator's operands, and what is true of every item because *)
(* no item is the first of which it is not.                                *)
(***************************************************************************)
Binary(q, i) == ~IsVal(q[i]) /\ q[i].op # "NOT"
Left(q, i) == Starts(q)[i - 1] - 1

LEMMA FirstItem ==
    ASSUME NEW n \in Nat, NEW B \in SUBSET (1 .. n), B # {}
    PROVE  \E x \in B : \A y \in 1 .. x - 1 : y \notin B
  <1>1. B \in SUBSET Nat OBVIOUS
  <1>2. Min(B) \in B /\ \A y \in B : Min(B) <= y BY <1>1, LeastOf
  <1>3. PICK x \in B : \A y \in B : x <= y BY <1>2
  <1>4. \A y \in 1 .. x - 1 : y \notin B
    <2> SUFFICES ASSUME NEW y \in 1 .. x - 1, y \in B PROVE FALSE OBVIOUS
    <2>1. x <= y /\ x \in Nat BY <1>1, <1>3
    <2> QED BY <2>1
  <1> QED BY <1>3, <1>4

\* Every operator has its operands before it, and a subtree is an interval.
LEMMA PostfixFacts ==
    ASSUME NEW q, Postfix(q)
    PROVE  /\ Len(q) \in Nat /\ DOMAIN q = 1 .. Len(q)
           /\ q # <<>> => Len(q) \in DOMAIN q /\ Starts(q)[Len(q)] = 1
           /\ \A i \in DOMAIN q :
                /\ i \in Nat /\ Starts(q)[i] \in 1 .. i
                /\ IsVal(q[i]) => Starts(q)[i] = i
                /\ ~IsVal(q[i]) => i - 1 \in DOMAIN q /\ i - 1 < i /\ Starts(q)[i - 1] \in 1 .. i - 1
                /\ ~IsVal(q[i]) /\ q[i].op = "NOT" => Starts(q)[i] = Starts(q)[i - 1]
                /\ Binary(q, i) => /\ Left(q, i) \in DOMAIN q /\ Left(q, i) < i - 1
                                   /\ Starts(q)[i - 1] = Left(q, i) + 1
                                   /\ Starts(q)[i] = Starts(q)[Left(q, i)]
  <1> DEFINE s == Starts(q)
             n == Len(q)
             B == {i \in 1 .. n : s[i] \notin 1 .. i}
  <1>1. n \in Nat /\ DOMAIN q = 1 .. n BY DEF Postfix, Listed
  <1>2. \A i \in 1 .. n :
           IF IsVal(q[i]) THEN s[i] = i
           ELSE IF q[i].op = "NOT" THEN i > 1 /\ s[i] = s[i - 1]
           ELSE i > 1 /\ s[i - 1] > 1 /\ s[i] = s[s[i - 1] - 1]
    BY <1>1 DEF Postfix
  <1> HIDE DEF s, n
  <1>3. B = {}
    <2> SUFFICES ASSUME B # {} PROVE FALSE OBVIOUS
    <2>1. PICK i \in B : \A y \in 1 .. i - 1 : y \notin B BY <1>1, FirstItem
    <2>2. i \in 1 .. n /\ i \in Nat /\ s[i] \notin 1 .. i BY <1>1, <2>1
    <2> HIDE DEF B
    <2>3. \A y \in 1 .. i - 1 : s[y] \in 1 .. y BY <1>1, <2>1, <2>2 DEF B
    <2>4. ~IsVal(q[i]) BY <1>2, <2>2
    <2>5. i > 1 BY <1>2, <2>2, <2>4
    <2>6. i - 1 \in 1 .. i - 1 BY <2>2, <2>5
    <2>7. s[i - 1] \in 1 .. i - 1 BY <2>3, <2>6
    <2>8. CASE q[i].op = "NOT"
      <3>1. s[i] = s[i - 1] BY <1>2, <2>2, <2>4, <2>8
      <3> QED BY <2>2, <2>7, <3>1
    <2>9. CASE q[i].op # "NOT"
      <3>1. s[i - 1] > 1 /\ s[i] = s[s[i - 1] - 1] BY <1>2, <2>2, <2>4, <2>9
      <3>2. s[i - 1] - 1 \in 1 .. i - 1 BY <2>2, <2>7, <3>1
      <3>3. s[s[i - 1] - 1] \in 1 .. s[i - 1] - 1 BY <2>3, <3>2
      <3> QED BY <2>2, <2>7, <3>1, <3>3
    <2> QED BY <2>8, <2>9
  <1>4. \A i \in 1 .. n : s[i] \in 1 .. i BY <1>3
  <1> HIDE DEF B
  <1>5. q # <<>> => n \in 1 .. n /\ s[n] = 1
    <2> SUFFICES ASSUME q # <<>> PROVE n \in 1 .. n /\ s[n] = 1 OBVIOUS
    <2>1. s[n] = 1 BY DEF Postfix, s, n
    <2>2. n # 0
      <3> SUFFICES ASSUME n = 0 PROVE FALSE OBVIOUS
      <3>1. DOMAIN q = {} BY <1>1
      <3> QED BY <3>1, <1>1 DEF n
    <2> QED BY <1>1, <2>1, <2>2
  <1>6. ASSUME NEW i \in 1 .. n
        PROVE  /\ i \in Nat /\ s[i] \in 1 .. i
               /\ IsVal(q[i]) => s[i] = i
               /\ ~IsVal(q[i]) => i - 1 \in 1 .. n /\ i - 1 < i /\ s[i - 1] \in 1 .. i - 1
               /\ ~IsVal(q[i]) /\ q[i].op = "NOT" => s[i] = s[i - 1]
               /\ Binary(q, i) => /\ Left(q, i) \in 1 .. n /\ Left(q, i) < i - 1
                                  /\ s[i - 1] = Left(q, i) + 1
                                  /\ s[i] = s[Left(q, i)]
    <2>1. i \in Nat /\ s[i] \in 1 .. i BY <1>1, <1>4
    <2>2. IsVal(q[i]) => s[i] = i BY <1>2
    <2>3. ~IsVal(q[i]) => i > 1 BY <1>2
    <2>4. ~IsVal(q[i]) => i - 1 \in 1 .. n BY <1>1, <2>3
    <2>5. ~IsVal(q[i]) => s[i - 1] \in 1 .. i - 1 BY <1>4, <2>4
    <2>6. ~IsVal(q[i]) /\ q[i].op = "NOT" => s[i] = s[i - 1] BY <1>2
    <2>7. ASSUME Binary(q, i)
          PROVE  /\ Left(q, i) \in 1 .. n /\ Left(q, i) < i - 1
                 /\ s[i - 1] = Left(q, i) + 1 /\ s[i] = s[Left(q, i)]
      <3>1. Left(q, i) = s[i - 1] - 1 BY DEF Left, s
      <3>2. ~IsVal(q[i]) /\ s[i - 1] > 1 /\ s[i] = s[s[i - 1] - 1] BY <1>2, <2>7 DEF Binary
      <3>3. s[i - 1] \in 1 .. i - 1 BY <2>5, <3>2
      <3> QED BY <1>1, <2>1, <3>1, <3>2, <3>3
    <2> QED BY <2>1, <2>2, <2>3, <2>4, <2>5, <2>6, <2>7
  <1> QED BY <1>1, <1>5, <1>6 DEF s, n

-----------------------------------------------------------------------------
(***************************************************************************)
(* fts_match_eval goes over the items once: there is just one valuation.   *)
(***************************************************************************)
ItemValue(q, values, maxspans, val, i) ==
    IF IsVal(q[i]) THEN [present |-> values[i].present, spans |-> values[i].spans,
                         pushes |-> 0, overflow |-> FALSE]
    ELSE IF q[i].op = "NOT"
    THEN [present |-> ~val[i - 1].present, spans |-> {}, pushes |-> 0,
          overflow |-> val[i - 1].overflow]
    ELSE LET b == val[i - 1]
             a == val[Starts(q)[i - 1] - 1]
             out == CASE q[i].op = "AND" -> [present |-> a.present /\ b.present, spans |-> {}, pushes |-> 0]
                      [] q[i].op = "OR"  -> OrValue(a, b, NeedPos(q)[i])
                      [] OTHER -> SpanJoin(a, b, q[i].op, q[i].dist, NeedPos(q)[i])
         IN  [present |-> out.present, spans |-> out.spans, pushes |-> out.pushes,
              overflow |-> \/ a.overflow \/ b.overflow
                           \/ maxspans > 0 /\ out.pushes > maxspans]

Valuation(q, values, maxspans, val) ==
    val = [i \in DOMAIN q |-> ItemValue(q, values, maxspans, val, i)]

LEMMA EvalUnfold ==
    ASSUME NEW q, NEW values, NEW maxspans
    PROVE  LET root == (CHOOSE val : Valuation(q, values, maxspans, val))[Len(q)]
           IN  MatchEval(q, values, maxspans) =
                  [present |-> ~root.overflow /\ root.present, overflow |-> root.overflow]
  BY Zenon DEF MatchEval, Valuation, ItemValue

\* Only the operands of an item matter for it.
LEMMA ItemLocal ==
    ASSUME NEW q, NEW values, NEW maxspans, NEW f, NEW g, NEW i,
           ~IsVal(q[i]) => f[i - 1] = g[i - 1],
           Binary(q, i) => f[Left(q, i)] = g[Left(q, i)]
    PROVE  ItemValue(q, values, maxspans, f, i) = ItemValue(q, values, maxspans, g, i)
  <1>1. CASE IsVal(q[i]) BY <1>1 DEF ItemValue
  <1>2. CASE ~IsVal(q[i]) /\ q[i].op = "NOT" BY <1>2 DEF ItemValue
  <1>3. CASE Binary(q, i) BY <1>3, Zenon DEF ItemValue, Binary, Left
  <1> QED BY <1>1, <1>2, <1>3 DEF Binary

LEMMA ValuationExists ==
    ASSUME NEW q, Postfix(q), NEW values, NEW maxspans
    PROVE  \E val : Valuation(q, values, maxspans, val)
  <1> DEFINE n == Len(q)
             Item(f, i) == ItemValue(q, values, maxspans, f, i)
             Filled(f, m) == DOMAIN f = 1 .. n /\ \A i \in 1 .. m : f[i] = Item(f, i)
             B == {m \in 1 .. n : ~\E f : Filled(f, m)}
  <1>1. n \in Nat /\ DOMAIN q = 1 .. n BY PostfixFacts
  <1>2. ASSUME NEW i \in 1 .. n, NEW f, NEW g, \A y \in 1 .. i - 1 : f[y] = g[y]
        PROVE  Item(f, i) = Item(g, i)
    <2>1. ~IsVal(q[i]) => i - 1 \in 1 .. i - 1 BY <1>1, PostfixFacts
    <2>2. Binary(q, i) => Left(q, i) \in 1 .. i - 1 BY <1>1, PostfixFacts DEF Binary
    <2> QED BY <1>2, <2>1, <2>2, ItemLocal
  <1> HIDE DEF n, Item
  <1>3. B = {}
    <2> SUFFICES ASSUME B # {} PROVE FALSE OBVIOUS
    <2>1. PICK m \in B : \A y \in 1 .. m - 1 : y \notin B BY <1>1, FirstItem
    <2>2. m \in 1 .. n /\ m \in Nat BY <1>1, <2>1
    <2>3. \E f : Filled(f, m - 1)
      <3>1. CASE m = 1
        <4> DEFINE f == [i \in 1 .. n |-> 0]
        <4>1. Filled(f, m - 1) BY <3>1
        <4> QED BY <4>1
      <3>2. CASE m > 1
        <4>1. m - 1 \in 1 .. m - 1 /\ m - 1 \in 1 .. n BY <1>1, <2>2, <3>2
        <4> QED BY <2>1, <4>1
      <3> QED BY <2>2, <3>1, <3>2
    <2>4. PICK f : Filled(f, m - 1) BY <2>3
    <2> DEFINE g == [i \in 1 .. n |-> IF i = m THEN Item(f, m) ELSE f[i]]
    <2>5. \A y \in 1 .. m - 1 : g[y] = f[y] BY <1>1, <2>2
    <2>6. DOMAIN g = 1 .. n /\ g[m] = Item(f, m) BY <2>2
    <2> HIDE DEF g
    <2>7. ASSUME NEW i \in 1 .. m PROVE g[i] = Item(g, i)
      <3>1. \A y \in 1 .. i - 1 : g[y] = f[y] BY <2>2, <2>5
      <3>2. Item(g, i) = Item(f, i) BY <1>1, <1>2, <2>2, <3>1
      <3>3. CASE i = m BY <2>6, <3>2, <3>3
      <3>4. CASE i # m
        <4>1. i \in 1 .. m - 1 BY <2>2, <3>4
        <4> QED BY <2>4, <2>5, <3>2, <4>1
      <3> QED BY <3>3, <3>4
    <2>8. Filled(g, m) BY <2>6, <2>7
    <2> QED BY <2>1, <2>8
  <1>4. \E f : Filled(f, n)
    <2>1. CASE n = 0
      <3> DEFINE f == [i \in 1 .. n |-> 0]
      <3>1. Filled(f, n) BY <2>1
      <3> QED BY <3>1
    <2>2. CASE n # 0
      <3>1. n \in 1 .. n BY <1>1, <2>2
      <3> QED BY <1>3, <3>1
    <2> QED BY <2>1, <2>2
  <1>5. PICK f : Filled(f, n) BY <1>4
  <1> DEFINE val == [i \in 1 .. n |-> f[i]]
  <1>6. \A i \in 1 .. n : val[i] = f[i] OBVIOUS
  <1>7. \A i \in 1 .. n : \A y \in 1 .. i - 1 : y \in 1 .. n BY <1>1
  <1>8. ASSUME NEW i \in 1 .. n PROVE val[i] = Item(val, i)
    <2> HIDE DEF val
    <2>1. \A y \in 1 .. i - 1 : val[y] = f[y] BY <1>6, <1>7
    <2>2. Item(val, i) = Item(f, i) BY <1>2, <2>1
    <2> QED BY <1>5, <1>6, <2>2
  <1>9. val = [i \in 1 .. n |-> Item(val, i)]
    <2>1. DOMAIN val = 1 .. n OBVIOUS
    <2>2. val = [i \in 1 .. n |-> val[i]] OBVIOUS
    <2> HIDE DEF val
    <2>3. [i \in 1 .. n |-> val[i]] = [i \in 1 .. n |-> Item(val, i)] BY <1>8
    <2> QED BY <2>2, <2>3
  <1> HIDE DEF val
  <1>10. Valuation(q, values, maxspans, val) BY <1>1, <1>9 DEF Valuation, Item
  <1> QED BY <1>10

LEMMA EvalIs ==
    ASSUME NEW q, Postfix(q), NEW values, NEW maxspans
    PROVE  \E val : /\ \A i \in DOMAIN q : val[i] = ItemValue(q, values, maxspans, val, i)
                    /\ MatchEval(q, values, maxspans) =
                          [present |-> ~val[Len(q)].overflow /\ val[Len(q)].present,
                           overflow |-> val[Len(q)].overflow]
  <1> DEFINE val == CHOOSE f : Valuation(q, values, maxspans, f)
  <1>1. Valuation(q, values, maxspans, val) BY ValuationExists
  <1>2. MatchEval(q, values, maxspans) =
                          [present |-> ~val[Len(q)].overflow /\ val[Len(q)].present,
                           overflow |-> val[Len(q)].overflow]
    BY EvalUnfold
  <1> HIDE DEF val
  <1>3. \A i \in DOMAIN q : val[i] = ItemValue(q, values, maxspans, val, i) BY <1>1 DEF Valuation
  <1> QED BY <1>2, <1>3

-----------------------------------------------------------------------------
(***************************************************************************)
(* The truth of a Boolean query: T are the items that are true when the    *)
(* operands in `held' are.                                                 *)
(***************************************************************************)
Logical(q) == \A i \in DOMAIN q : IsVal(q[i]) \/ q[i].op \in {"AND", "OR", "NOT"}

TruthSet(q, held, T) ==
    /\ T \subseteq DOMAIN q
    /\ \A i \in DOMAIN q :
          /\ IsVal(q[i]) => (i \in T <=> i \in held)
          /\ ~IsVal(q[i]) /\ q[i].op = "NOT" => (i \in T <=> i - 1 \notin T)
          /\ Binary(q, i) /\ q[i].op = "AND" => (i \in T <=> Left(q, i) \in T /\ i - 1 \in T)
          /\ Binary(q, i) /\ q[i].op = "OR" => (i \in T <=> Left(q, i) \in T \/ i - 1 \in T)

\* What the valuation has for an item, from what it has for its operands.
ItemFacts(q, values, val, i) ==
    /\ IsVal(q[i]) => val[i].present = values[i].present /\ val[i].overflow = FALSE
    /\ ~IsVal(q[i]) /\ q[i].op = "NOT" =>
         val[i].present = ~val[i - 1].present /\ val[i].overflow = val[i - 1].overflow
    /\ Binary(q, i) /\ q[i].op = "AND" =>
         /\ val[i].present = (val[Left(q, i)].present /\ val[i - 1].present)
         /\ val[i].overflow = (val[Left(q, i)].overflow \/ val[i - 1].overflow)
    /\ Binary(q, i) /\ q[i].op = "OR" =>
         /\ val[i].present = (val[Left(q, i)].present \/ val[i - 1].present)
         /\ val[i].overflow = (val[Left(q, i)].overflow \/ val[i - 1].overflow)

LEMMA ItemIs ==
    ASSUME NEW q, NEW values, NEW val, NEW i, val[i] = ItemValue(q, values, 0, val, i)
    PROVE  ItemFacts(q, values, val, i)
  <1> DEFINE v == val[i]
  <1>1. CASE IsVal(q[i]) BY <1>1 DEF ItemFacts, ItemValue, Binary
  <1>2. CASE ~IsVal(q[i]) /\ q[i].op = "NOT" BY <1>2 DEF ItemFacts, ItemValue, Binary
  <1>3. CASE Binary(q, i) /\ q[i].op = "AND"
    <2> DEFINE a == val[Left(q, i)]
               b == val[i - 1]
               p == [present |-> a.present /\ b.present, spans |-> {}, pushes |-> 0]
    <2>1. v = [present |-> p.present, spans |-> p.spans, pushes |-> p.pushes,
               overflow |-> a.overflow \/ b.overflow \/ (0 > 0 /\ p.pushes > 0)]
      BY <1>3 DEF ItemValue, Binary, Left
    <2>2. p.present = (a.present /\ b.present) OBVIOUS
    <2>3. ~(0 > 0) OBVIOUS
    <2> HIDE DEF p, a, b
    <2>4. v.present = p.present /\ v.overflow = (a.overflow \/ b.overflow)
      <3> HIDE DEF v
      <3> QED BY <2>1, <2>3
    <2> QED BY <1>3, <2>2, <2>4, Zenon DEF ItemFacts, a, b, Binary
  <1>4. CASE Binary(q, i) /\ q[i].op = "OR"
    <2> DEFINE a == val[Left(q, i)]
               b == val[i - 1]
               p == OrValue(a, b, NeedPos(q)[i])
    <2>1. v = [present |-> p.present, spans |-> p.spans, pushes |-> p.pushes,
               overflow |-> a.overflow \/ b.overflow \/ (0 > 0 /\ p.pushes > 0)]
      BY <1>4 DEF ItemValue, Binary, Left
    <2>2. p.present = (a.present \/ b.present) BY DEF OrValue
    <2>3. ~(0 > 0) OBVIOUS
    <2> HIDE DEF p, a, b
    <2>4. v.present = p.present /\ v.overflow = (a.overflow \/ b.overflow)
      <3> HIDE DEF v
      <3> QED BY <2>1, <2>3
    <2> QED BY <1>4, <2>2, <2>4, Zenon DEF ItemFacts, a, b, Binary
  <1>5. CASE Binary(q, i) /\ q[i].op # "AND" /\ q[i].op # "OR" BY <1>5 DEF ItemFacts, Binary
  <1> QED BY <1>1, <1>2, <1>3, <1>4, <1>5 DEF Binary

LEMMA TruthIs ==
    ASSUME NEW q, Postfix(q), q # <<>>, Logical(q), NEW held, NEW values,
           \A i \in DOMAIN q : IsVal(q[i]) => values[i].present = (i \in held)
    PROVE  \E T : /\ TruthSet(q, held, T)
                  /\ MatchEval(q, values, 0).present = (Len(q) \in T)
  <1> DEFINE n == Len(q)
  <1>1. /\ n \in Nat /\ DOMAIN q = 1 .. n /\ n \in 1 .. n
        /\ \A i \in 1 .. n : /\ ~IsVal(q[i]) => i - 1 \in 1 .. i - 1 /\ i - 1 \in 1 .. n
                             /\ Binary(q, i) => Left(q, i) \in 1 .. i - 1 /\ Left(q, i) \in 1 .. n
    BY PostfixFacts DEF Binary
  <1>2. PICK val : /\ \A i \in DOMAIN q : val[i] = ItemValue(q, values, 0, val, i)
                   /\ MatchEval(q, values, 0) =
                        [present |-> ~val[n].overflow /\ val[n].present, overflow |-> val[n].overflow]
    BY EvalIs
  <1> HIDE DEF n
  <1> DEFINE Sound(i) == val[i].overflow = FALSE /\ val[i].present \in BOOLEAN
             B == {i \in 1 .. n : ~Sound(i)}
             T == {i \in 1 .. n : val[i].present = TRUE}
  <1>3. ASSUME NEW i \in 1 .. n
        PROVE  /\ IsVal(q[i]) => val[i].present = (i \in held) /\ val[i].overflow = FALSE
               /\ ~IsVal(q[i]) /\ q[i].op = "NOT" =>
                    val[i].present = ~val[i - 1].present /\ val[i].overflow = val[i - 1].overflow
               /\ Binary(q, i) /\ q[i].op = "AND" =>
                    /\ val[i].present = (val[Left(q, i)].present /\ val[i - 1].present)
                    /\ val[i].overflow = (val[Left(q, i)].overflow \/ val[i - 1].overflow)
               /\ Binary(q, i) /\ q[i].op = "OR" =>
                    /\ val[i].present = (val[Left(q, i)].present \/ val[i - 1].present)
                    /\ val[i].overflow = (val[Left(q, i)].overflow \/ val[i - 1].overflow)
    <2>1. val[i] = ItemValue(q, values, 0, val, i) BY <1>1, <1>2
    <2>2. IsVal(q[i]) => values[i].present = (i \in held) BY <1>1
    <2>3. ItemFacts(q, values, val, i) BY <2>1, ItemIs
    <2>4. IsVal(q[i]) => val[i].present = (i \in held) /\ val[i].overflow = FALSE
      BY <2>2, <2>3, Zenon DEF ItemFacts
    <2> QED BY <2>3, <2>4, Zenon DEF ItemFacts
  <1>4. \A i \in 1 .. n : \/ IsVal(q[i]) \/ (~IsVal(q[i]) /\ q[i].op = "NOT")
                          \/ (Binary(q, i) /\ q[i].op = "AND") \/ (Binary(q, i) /\ q[i].op = "OR")
    BY <1>1 DEF Logical, Binary
  <1>5. B = {}
    <2> SUFFICES ASSUME B # {} PROVE FALSE OBVIOUS
    <2>1. PICK i \in B : \A y \in 1 .. i - 1 : y \notin B BY <1>1, FirstItem
    <2>2. i \in 1 .. n /\ ~Sound(i) BY <2>1
    <2>3. \A y \in 1 .. i - 1 : y \in 1 .. n => Sound(y) BY <2>1
    <2>4. ~IsVal(q[i]) => Sound(i - 1) BY <1>1, <2>2, <2>3
    <2>5. Binary(q, i) => Sound(Left(q, i)) /\ Sound(i - 1) BY <1>1, <2>2, <2>3, <2>4 DEF Binary
    <2> HIDE DEF B
    <2>6. CASE IsVal(q[i])
      <3>1. val[i].present = (i \in held) /\ val[i].overflow = FALSE BY <1>3, <2>2, <2>6
      <3>2. (i \in held) \in BOOLEAN OBVIOUS
      <3> QED BY <2>2, <3>1, <3>2, Zenon
    <2>7. CASE ~IsVal(q[i]) /\ q[i].op = "NOT" BY <1>3, <2>2, <2>4, <2>7
    <2>8. CASE Binary(q, i) /\ q[i].op = "AND" BY <1>3, <2>2, <2>5, <2>8
    <2>9. CASE Binary(q, i) /\ q[i].op = "OR" BY <1>3, <2>2, <2>5, <2>9
    <2> QED BY <1>4, <2>2, <2>6, <2>7, <2>8, <2>9
  <1>6. \A i \in 1 .. n : Sound(i) BY <1>5
  <1>7. \A i \in 1 .. n : (i \in T) = val[i].present BY <1>6
  <1> HIDE DEF B, T
  <1>8. TruthSet(q, held, T)
    <2>1. T \subseteq DOMAIN q BY <1>1 DEF T
    <2>2. ASSUME NEW i \in 1 .. n
          PROVE  /\ IsVal(q[i]) => (i \in T <=> i \in held)
                 /\ ~IsVal(q[i]) /\ q[i].op = "NOT" => (i \in T <=> i - 1 \notin T)
                 /\ Binary(q, i) /\ q[i].op = "AND" => (i \in T <=> Left(q, i) \in T /\ i - 1 \in T)
                 /\ Binary(q, i) /\ q[i].op = "OR" => (i \in T <=> Left(q, i) \in T \/ i - 1 \in T)
      <3>1. ~IsVal(q[i]) => (i - 1 \in T) = val[i - 1].present BY <1>1, <1>7
      <3>2. Binary(q, i) => (Left(q, i) \in T) = val[Left(q, i)].present BY <1>1, <1>7
      <3>3. (i \in T) = val[i].present BY <1>7
      <3> QED BY <1>3, <3>1, <3>2, <3>3 DEF Binary
    <2> QED BY <1>1, <2>1, <2>2 DEF TruthSet
  <1>9. MatchEval(q, values, 0).present = (n \in T)
    <2>1. MatchEval(q, values, 0).present = (~val[n].overflow /\ val[n].present) BY <1>2
    <2>2. Sound(n) /\ (n \in T) = val[n].present BY <1>1, <1>6, <1>7
    <2> QED BY <2>1, <2>2
  <1> QED BY <1>8, <1>9 DEF n

\* The items of the subtree of an item.
Under(q, i) == Starts(q)[i] .. i

LEMMA UnderIs ==
    ASSUME NEW q, Postfix(q)
    PROVE  /\ q # <<>> => Under(q, Len(q)) = DOMAIN q
           /\ \A i \in DOMAIN q :
                /\ Under(q, i) \subseteq DOMAIN q
                /\ IsVal(q[i]) => Under(q, i) = {i}
                /\ ~IsVal(q[i]) /\ q[i].op = "NOT" => Under(q, i) = Under(q, i - 1) \cup {i}
                /\ Binary(q, i) => Under(q, i) = Under(q, Left(q, i)) \cup Under(q, i - 1) \cup {i}
  <1> DEFINE s == Starts(q)
             n == Len(q)
  <1>0. n \in Nat /\ DOMAIN q = 1 .. n /\ (q # <<>> => n \in 1 .. n /\ s[n] = 1) BY PostfixFacts
  <1>1. \A i \in 1 .. n :
             /\ i \in Nat /\ s[i] \in 1 .. i
             /\ IsVal(q[i]) => s[i] = i
             /\ ~IsVal(q[i]) => i - 1 \in 1 .. n /\ i - 1 < i /\ s[i - 1] \in 1 .. i - 1
             /\ ~IsVal(q[i]) /\ q[i].op = "NOT" => s[i] = s[i - 1]
             /\ Binary(q, i) => /\ Left(q, i) \in 1 .. n /\ Left(q, i) < i - 1
                                /\ s[i - 1] = Left(q, i) + 1
                                /\ s[i] = s[Left(q, i)]
    <2> SUFFICES ASSUME NEW i \in DOMAIN q
                 PROVE /\ i \in Nat /\ s[i] \in 1 .. i
                       /\ IsVal(q[i]) => s[i] = i
                       /\ ~IsVal(q[i]) => i - 1 \in DOMAIN q /\ i - 1 < i /\ s[i - 1] \in 1 .. i - 1
                       /\ ~IsVal(q[i]) /\ q[i].op = "NOT" => s[i] = s[i - 1]
                       /\ Binary(q, i) => /\ Left(q, i) \in DOMAIN q /\ Left(q, i) < i - 1
                                          /\ s[i - 1] = Left(q, i) + 1
                                          /\ s[i] = s[Left(q, i)]
      BY <1>0
    <2> QED BY PostfixFacts, Zenon
  <1>2. \A i : Under(q, i) = s[i] .. i BY DEF Under
  <1> HIDE DEF s, n
  <1>3. q # <<>> => Under(q, n) = 1 .. n BY <1>0, <1>2
  <1>4. ASSUME NEW i \in 1 .. n
        PROVE  /\ Under(q, i) \subseteq 1 .. n
               /\ IsVal(q[i]) => Under(q, i) = {i}
               /\ ~IsVal(q[i]) /\ q[i].op = "NOT" => Under(q, i) = Under(q, i - 1) \cup {i}
               /\ Binary(q, i) => Under(q, i) = Under(q, Left(q, i)) \cup Under(q, i - 1) \cup {i}
    <2>1. i \in Nat /\ s[i] \in 1 .. i /\ n \in Nat BY <1>0, <1>1
    <2>2. Under(q, i) \subseteq 1 .. n BY <1>2, <2>1
    <2>3. IsVal(q[i]) => Under(q, i) = {i}
      <3> SUFFICES ASSUME IsVal(q[i]) PROVE Under(q, i) = {i} OBVIOUS
      <3>1. s[i] = i BY <1>1
      <3> QED BY <1>2, <2>1, <3>1
    <2>4. ASSUME ~IsVal(q[i]), q[i].op = "NOT" PROVE Under(q, i) = Under(q, i - 1) \cup {i}
      <3>1. s[i] = s[i - 1] /\ s[i - 1] \in 1 .. i - 1 BY <1>1, <2>4
      <3>2. \A x : x \in s[i] .. i <=> x \in s[i] .. i - 1 \/ x = i BY <2>1, <3>1
      <3> QED BY <1>2, <3>1, <3>2
    <2>5. ASSUME Binary(q, i)
          PROVE  Under(q, i) = Under(q, Left(q, i)) \cup Under(q, i - 1) \cup {i}
      <3> DEFINE l == Left(q, i)
      <3>1. ~IsVal(q[i]) BY <2>5 DEF Binary
      <3>2. /\ l \in 1 .. n /\ l < i - 1 /\ s[i - 1] = l + 1 /\ s[i] = s[l]
            /\ s[l] \in 1 .. l /\ s[i - 1] \in 1 .. i - 1
        BY <1>1, <2>5, <3>1
      <3> HIDE DEF l
      <3>3. \A x : x \in s[l] .. i <=> x \in s[l] .. l \/ x \in l + 1 .. i - 1 \/ x = i
        BY <2>1, <3>2
      <3>4. s[i] .. i = (s[l] .. l) \cup (s[i - 1] .. i - 1) \cup {i} BY <3>2, <3>3
      <3> QED BY <1>2, <3>4 DEF l
    <2> QED BY <2>2, <2>3, <2>4, <2>5
  <1> QED BY <1>0, <1>3, <1>4 DEF n, s

\* An OR is true when one of its words is held, an AND when all of them are.
LEMMA OrMeans ==
    ASSUME NEW q, Postfix(q), q # <<>>, NEW held, NEW T, TruthSet(q, held, T),
           \A i \in DOMAIN q : IsVal(q[i]) \/ q[i].op = "OR"
    PROVE  Len(q) \in T <=> \E m \in Operands(q) : m \in held
  <1> DEFINE n == Len(q)
             V == Operands(q) \cap held
             B == {i \in 1 .. n : ~(i \in T <=> Under(q, i) \cap V # {})}
  <1>1. /\ n \in Nat /\ DOMAIN q = 1 .. n /\ n \in 1 .. n /\ Under(q, n) = 1 .. n
        /\ \A i \in 1 .. n : /\ ~IsVal(q[i]) => i - 1 \in 1 .. i - 1
                             /\ Binary(q, i) => Left(q, i) \in 1 .. i - 1
    BY PostfixFacts, UnderIs DEF Binary
  <1>2. ASSUME NEW i \in 1 .. n
        PROVE  \/ IsVal(q[i]) /\ (i \in T <=> i \in V) /\ Under(q, i) = {i}
               \/ /\ Binary(q, i) /\ i \notin V
                  /\ i \in T <=> Left(q, i) \in T \/ i - 1 \in T
                  /\ Under(q, i) = Under(q, Left(q, i)) \cup Under(q, i - 1) \cup {i}
    <2>1. CASE IsVal(q[i]) BY <1>1, <2>1, UnderIs DEF TruthSet, Operands
    <2>2. CASE ~IsVal(q[i])
      <3>1. q[i].op = "OR" /\ Binary(q, i) BY <1>1, <2>2 DEF Binary
      <3>2. i \notin V BY <2>2 DEF Operands
      <3> QED BY <1>1, <3>1, <3>2, UnderIs DEF TruthSet
    <2> QED BY <2>1, <2>2
  <1>3. V = {m \in Operands(q) : m \in held} /\ V \subseteq 1 .. n BY <1>1 DEF Operands
  <1> HIDE DEF n, V
  <1>4. B = {}
    <2> SUFFICES ASSUME B # {} PROVE FALSE OBVIOUS
    <2>1. PICK i \in B : \A y \in 1 .. i - 1 : y \notin B BY <1>1, FirstItem
    <2>2. i \in 1 .. n /\ ~(i \in T <=> Under(q, i) \cap V # {}) BY <2>1
    <2>3. \A y \in 1 .. i - 1 : y \in 1 .. n BY <1>1, <2>2
    <2>4. \A y \in 1 .. i - 1 : y \in T <=> Under(q, y) \cap V # {} BY <2>1, <2>3
    <2> HIDE DEF B
    <2>5. CASE IsVal(q[i]) /\ (i \in T <=> i \in V) /\ Under(q, i) = {i} BY <2>2, <2>5
    <2>6. CASE /\ Binary(q, i) /\ i \notin V
               /\ i \in T <=> Left(q, i) \in T \/ i - 1 \in T
               /\ Under(q, i) = Under(q, Left(q, i)) \cup Under(q, i - 1) \cup {i}
      <3>1. Left(q, i) \in 1 .. i - 1 /\ i - 1 \in 1 .. i - 1 BY <1>1, <2>2, <2>6 DEF Binary
      <3>2. /\ Left(q, i) \in T <=> Under(q, Left(q, i)) \cap V # {}
            /\ i - 1 \in T <=> Under(q, i - 1) \cap V # {}
        BY <2>4, <3>1
      <3> QED BY <2>2, <2>6, <3>2
    <2> QED BY <1>2, <2>2, <2>5, <2>6
  <1>5. n \in T <=> Under(q, n) \cap V # {} BY <1>1, <1>4
  <1> QED BY <1>1, <1>3, <1>5 DEF n

LEMMA AndMeans ==
    ASSUME NEW q, Postfix(q), q # <<>>, NEW held, NEW T, TruthSet(q, held, T),
           \A i \in DOMAIN q : IsVal(q[i]) \/ q[i].op = "AND"
    PROVE  Len(q) \in T <=> Operands(q) \subseteq held
  <1> DEFINE n == Len(q)
             V == Operands(q) \ held
             B == {i \in 1 .. n : ~(i \in T <=> Under(q, i) \cap V = {})}
  <1>1. /\ n \in Nat /\ DOMAIN q = 1 .. n /\ n \in 1 .. n /\ Under(q, n) = 1 .. n
        /\ \A i \in 1 .. n : /\ ~IsVal(q[i]) => i - 1 \in 1 .. i - 1
                             /\ Binary(q, i) => Left(q, i) \in 1 .. i - 1
    BY PostfixFacts, UnderIs DEF Binary
  <1>2. ASSUME NEW i \in 1 .. n
        PROVE  \/ IsVal(q[i]) /\ (i \in T <=> i \notin V) /\ Under(q, i) = {i}
               \/ /\ Binary(q, i) /\ i \notin V
                  /\ i \in T <=> Left(q, i) \in T /\ i - 1 \in T
                  /\ Under(q, i) = Under(q, Left(q, i)) \cup Under(q, i - 1) \cup {i}
    <2>1. CASE IsVal(q[i]) BY <1>1, <2>1, UnderIs DEF TruthSet, Operands
    <2>2. CASE ~IsVal(q[i])
      <3>1. q[i].op = "AND" /\ Binary(q, i) BY <1>1, <2>2 DEF Binary
      <3>2. i \notin V BY <2>2 DEF Operands
      <3> QED BY <1>1, <3>1, <3>2, UnderIs DEF TruthSet
    <2> QED BY <2>1, <2>2
  <1>3. (V = {} <=> Operands(q) \subseteq held) /\ V \subseteq 1 .. n BY <1>1 DEF Operands
  <1> HIDE DEF n, V
  <1>4. B = {}
    <2> SUFFICES ASSUME B # {} PROVE FALSE OBVIOUS
    <2>1. PICK i \in B : \A y \in 1 .. i - 1 : y \notin B
      <3>1. n \in Nat /\ B \in SUBSET (1 .. n) BY <1>1
      <3> HIDE DEF B
      <3> QED BY <3>1, FirstItem
    <2>2. i \in 1 .. n /\ ~(i \in T <=> Under(q, i) \cap V = {}) BY <2>1
    <2>3. \A y \in 1 .. i - 1 : y \in 1 .. n BY <1>1, <2>2
    <2>4. \A y \in 1 .. i - 1 : y \in T <=> Under(q, y) \cap V = {} BY <2>1, <2>3
    <2> HIDE DEF B
    <2>5. CASE IsVal(q[i]) /\ (i \in T <=> i \notin V) /\ Under(q, i) = {i} BY <2>2, <2>5
    <2>6. CASE /\ Binary(q, i) /\ i \notin V
               /\ i \in T <=> Left(q, i) \in T /\ i - 1 \in T
               /\ Under(q, i) = Under(q, Left(q, i)) \cup Under(q, i - 1) \cup {i}
      <3>1. Left(q, i) \in 1 .. i - 1 /\ i - 1 \in 1 .. i - 1 BY <1>1, <2>2, <2>6 DEF Binary
      <3>2. /\ Left(q, i) \in T <=> Under(q, Left(q, i)) \cap V = {}
            /\ i - 1 \in T <=> Under(q, i - 1) \cap V = {}
        BY <2>4, <3>1
      <3> QED BY <2>2, <2>6, <3>2
    <2> QED BY <1>2, <2>2, <2>5, <2>6
  <1>5. n \in T <=> Under(q, n) \cap V = {} BY <1>1, <1>4
  <1> QED BY <1>1, <1>3, <1>5 DEF n

\* Without a NOT, something is true only because a word of it is held.
LEMMA PositiveMeans ==
    ASSUME NEW q, Postfix(q), Logical(q), NEW held, NEW T, TruthSet(q, held, T),
           NEW r \in DOMAIN q, \A m \in Under(q, r) : q[m].op # "NOT", r \in T
    PROVE  \E m \in Operands(q) : m \in Under(q, r) /\ m \in held
  <1> DEFINE n == Len(q)
             V == Operands(q) \cap held
             Pure(i) == \A m \in Under(q, i) : q[m].op # "NOT"
             B == {i \in 1 .. n : Pure(i) /\ i \in T /\ Under(q, i) \cap V = {}}
  <1>1. /\ n \in Nat /\ DOMAIN q = 1 .. n
        /\ \A i \in 1 .. n : /\ ~IsVal(q[i]) => i - 1 \in 1 .. i - 1
                             /\ Binary(q, i) => Left(q, i) \in 1 .. i - 1
    BY PostfixFacts DEF Binary
  <1>2. ASSUME NEW i \in 1 .. n, Pure(i)
        PROVE  \/ IsVal(q[i]) /\ (i \in T => i \in V) /\ i \in Under(q, i)
               \/ /\ Binary(q, i)
                  /\ i \in T => Left(q, i) \in T \/ i - 1 \in T
                  /\ Under(q, Left(q, i)) \subseteq Under(q, i) /\ Under(q, i - 1) \subseteq Under(q, i)
    <2>1. CASE IsVal(q[i])
      <3>1. Under(q, i) = {i} BY <1>1, <2>1, UnderIs
      <3>2. i \in Operands(q) BY <1>1, <2>1 DEF Operands
      <3>3. i \in T <=> i \in held BY <1>1, <2>1 DEF TruthSet
      <3> QED BY <2>1, <3>1, <3>2, <3>3
    <2>2. CASE ~IsVal(q[i])
      <3>1. Starts(q)[i] \in 1 .. i BY <1>1, PostfixFacts
      <3>2. i \in Under(q, i) BY <1>1, <3>1 DEF Under
      <3>3. Binary(q, i) /\ (q[i].op = "AND" \/ q[i].op = "OR")
        BY <1>1, <1>2, <2>2, <3>2 DEF Binary, Logical
      <3>4. i \in T => Left(q, i) \in T \/ i - 1 \in T BY <1>1, <3>3 DEF TruthSet
      <3>5. Under(q, i) = Under(q, Left(q, i)) \cup Under(q, i - 1) \cup {i} BY <1>1, <3>3, UnderIs
      <3> QED BY <3>3, <3>4, <3>5
    <2> QED BY <2>1, <2>2
  <1> HIDE DEF V
  <1>3. B = {}
    <2> SUFFICES ASSUME B # {} PROVE FALSE OBVIOUS
    <2>1. PICK i \in B : \A y \in 1 .. i - 1 : y \notin B
      <3>1. n \in Nat /\ B \in SUBSET (1 .. n) BY <1>1
      <3> HIDE DEF B
      <3> QED BY <3>1, FirstItem
    <2>2. i \in 1 .. n /\ Pure(i) /\ i \in T /\ Under(q, i) \cap V = {} BY <2>1
    <2>3. \A y \in 1 .. i - 1 : y \in 1 .. n BY <1>1, <2>2
    <2>4. \A y \in 1 .. i - 1 : ~(Pure(y) /\ y \in T /\ Under(q, y) \cap V = {}) BY <2>1, <2>3
    <2> HIDE DEF B
    <2>5. /\ Binary(q, i)
          /\ Left(q, i) \in T \/ i - 1 \in T
          /\ Under(q, Left(q, i)) \subseteq Under(q, i) /\ Under(q, i - 1) \subseteq Under(q, i)
      BY <1>2, <2>2
    <2>6. Pure(Left(q, i)) /\ Pure(i - 1) BY <2>2, <2>5
    <2>7. Left(q, i) \in 1 .. i - 1 /\ i - 1 \in 1 .. i - 1 BY <1>1, <2>2, <2>5 DEF Binary
    <2>8. \E y \in {Left(q, i), i - 1} : y \in T BY <2>5
    <2>9. \A y \in {Left(q, i), i - 1} :
             y \in 1 .. i - 1 /\ Pure(y) /\ Under(q, y) \cap V = {}
      BY <2>2, <2>5, <2>6, <2>7
    <2> HIDE DEF Pure
    <2> QED BY <2>4, <2>8, <2>9
  <1>4. Under(q, r) \cap V # {} BY <1>1, <1>3
  <1> QED BY <1>4 DEF V

(***************************************************************************)
(* The operands of the AND at the root.                                    *)
(***************************************************************************)
AndItem(q, f, i) == IF q[i].op = "AND" THEN f[i - 1] \cup f[Left(q, i)] ELSE {i}
AndTable(q, f) == f = [i \in DOMAIN q |-> AndItem(q, f, i)]

LEMMA AndUnfold ==
    ASSUME NEW q
    PROVE  AndOperands(q) =
              IF q # <<>> /\ q[Len(q)].op = "AND" THEN (CHOOSE f : AndTable(q, f))[Len(q)] ELSE {}
  BY Zenon DEF AndOperands, AndTable, AndItem, Left

LEMMA AndLocal ==
    ASSUME NEW q, NEW f, NEW g, NEW i,
           ~IsVal(q[i]) => f[i - 1] = g[i - 1],
           Binary(q, i) => f[Left(q, i)] = g[Left(q, i)]
    PROVE  AndItem(q, f, i) = AndItem(q, g, i)
  <1>1. q[i].op = "AND" => ~IsVal(q[i]) /\ Binary(q, i) BY DEF IsVal, Binary
  <1> QED BY <1>1 DEF AndItem

LEMMA AndTableExists ==
    ASSUME NEW q, Postfix(q)
    PROVE  \E f : AndTable(q, f)
  <1> DEFINE n == Len(q)
             Item(f, i) == AndItem(q, f, i)
             Reaches(f, m) == DOMAIN f = 1 .. n /\ \A i \in 1 .. m : f[i] = Item(f, i)
             B == {m \in 1 .. n : ~\E f : Reaches(f, m)}
  <1>1. n \in Nat /\ DOMAIN q = 1 .. n BY PostfixFacts
  <1>2. ASSUME NEW i \in 1 .. n, NEW f, NEW g, \A y \in 1 .. i - 1 : f[y] = g[y]
        PROVE  Item(f, i) = Item(g, i)
    <2>1. ~IsVal(q[i]) => i - 1 \in 1 .. i - 1 BY <1>1, PostfixFacts
    <2>2. Binary(q, i) => Left(q, i) \in 1 .. i - 1 BY <1>1, PostfixFacts DEF Binary
    <2> QED BY <1>2, <2>1, <2>2, AndLocal
  <1> HIDE DEF n, Item
  <1>3. B = {}
    <2> SUFFICES ASSUME B # {} PROVE FALSE OBVIOUS
    <2>1. PICK m \in B : \A y \in 1 .. m - 1 : y \notin B BY <1>1, FirstItem
    <2>2. m \in 1 .. n /\ m \in Nat BY <1>1, <2>1
    <2>3. \E f : Reaches(f, m - 1)
      <3>1. CASE m = 1
        <4> DEFINE f == [i \in 1 .. n |-> 0]
        <4>1. Reaches(f, m - 1) BY <3>1
        <4> QED BY <4>1
      <3>2. CASE m > 1
        <4>1. m - 1 \in 1 .. m - 1 /\ m - 1 \in 1 .. n BY <1>1, <2>2, <3>2
        <4> QED BY <2>1, <4>1
      <3> QED BY <2>2, <3>1, <3>2
    <2>4. PICK f : Reaches(f, m - 1) BY <2>3
    <2> DEFINE g == [i \in 1 .. n |-> IF i = m THEN Item(f, m) ELSE f[i]]
    <2>5. \A y \in 1 .. m - 1 : g[y] = f[y] BY <1>1, <2>2
    <2>6. DOMAIN g = 1 .. n /\ g[m] = Item(f, m) BY <2>2
    <2> HIDE DEF g
    <2>7. ASSUME NEW i \in 1 .. m PROVE g[i] = Item(g, i)
      <3>1. \A y \in 1 .. i - 1 : g[y] = f[y] BY <2>2, <2>5
      <3>2. Item(g, i) = Item(f, i) BY <1>1, <1>2, <2>2, <3>1
      <3>3. CASE i = m BY <2>6, <3>2, <3>3
      <3>4. CASE i # m
        <4>1. i \in 1 .. m - 1 BY <2>2, <3>4
        <4> QED BY <2>4, <2>5, <3>2, <4>1
      <3> QED BY <3>3, <3>4
    <2>8. Reaches(g, m) BY <2>6, <2>7
    <2> QED BY <2>1, <2>8
  <1>4. \E f : Reaches(f, n)
    <2>1. CASE n = 0
      <3> DEFINE f == [i \in 1 .. n |-> 0]
      <3>1. Reaches(f, n) BY <2>1
      <3> QED BY <3>1
    <2>2. CASE n # 0
      <3>1. n \in 1 .. n BY <1>1, <2>2
      <3> QED BY <1>3, <3>1
    <2> QED BY <2>1, <2>2
  <1>5. PICK f : Reaches(f, n) BY <1>4
  <1> DEFINE val == [i \in 1 .. n |-> f[i]]
  <1>6. \A i \in 1 .. n : val[i] = f[i] OBVIOUS
  <1>7. \A i \in 1 .. n : \A y \in 1 .. i - 1 : y \in 1 .. n BY <1>1
  <1>8. ASSUME NEW i \in 1 .. n PROVE val[i] = Item(val, i)
    <2> HIDE DEF val
    <2>1. \A y \in 1 .. i - 1 : val[y] = f[y] BY <1>6, <1>7
    <2>2. Item(val, i) = Item(f, i) BY <1>2, <2>1
    <2> QED BY <1>5, <1>6, <2>2
  <1>9. val = [i \in 1 .. n |-> Item(val, i)]
    <2>2. val = [i \in 1 .. n |-> val[i]] OBVIOUS
    <2> HIDE DEF val
    <2>3. [i \in 1 .. n |-> val[i]] = [i \in 1 .. n |-> Item(val, i)] BY <1>8
    <2> QED BY <2>2, <2>3
  <1> HIDE DEF val
  <1>10. AndTable(q, val) BY <1>1, <1>9 DEF AndTable, Item
  <1> QED BY <1>10

\* A query is true only when every operand of its root AND is.
LEMMA OperandsMean ==
    ASSUME NEW q, Postfix(q), q # <<>>, NEW held, NEW T, TruthSet(q, held, T)
    PROVE  /\ AndOperands(q) \subseteq DOMAIN q
           /\ Len(q) \in T => AndOperands(q) \subseteq T
  <1> DEFINE n == Len(q)
             f == CHOOSE g : AndTable(q, g)
             B == {i \in 1 .. n : ~(f[i] \subseteq 1 .. n /\ (i \in T => f[i] \subseteq T))}
  <1>1. /\ n \in Nat /\ DOMAIN q = 1 .. n /\ n \in 1 .. n
        /\ \A i \in 1 .. n : /\ ~IsVal(q[i]) => i - 1 \in 1 .. i - 1
                             /\ Binary(q, i) => Left(q, i) \in 1 .. i - 1
    BY PostfixFacts DEF Binary
  <1>2. AndTable(q, f) BY AndTableExists
  <1>3. AndOperands(q) = IF q # <<>> /\ q[n].op = "AND" THEN f[n] ELSE {} BY AndUnfold
  <1> HIDE DEF f, n
  <1>4. \A i \in 1 .. n : f[i] = AndItem(q, f, i) BY <1>1, <1>2 DEF AndTable
  <1>5. B = {}
    <2> SUFFICES ASSUME B # {} PROVE FALSE OBVIOUS
    <2>1. PICK i \in B : \A y \in 1 .. i - 1 : y \notin B
      <3>1. n \in Nat /\ B \in SUBSET (1 .. n) BY <1>1
      <3> HIDE DEF B
      <3> QED BY <3>1, FirstItem
    <2>2. i \in 1 .. n /\ ~(f[i] \subseteq 1 .. n /\ (i \in T => f[i] \subseteq T)) BY <2>1
    <2>3. \A y \in 1 .. i - 1 : y \in 1 .. n BY <1>1, <2>2
    <2>4. \A y \in 1 .. i - 1 : f[y] \subseteq 1 .. n /\ (y \in T => f[y] \subseteq T) BY <2>1, <2>3
    <2> HIDE DEF B
    <2>5. CASE q[i].op = "AND"
      <3>1. f[i] = f[i - 1] \cup f[Left(q, i)] BY <1>4, <2>2, <2>5 DEF AndItem
      <3>2. Binary(q, i) /\ ~IsVal(q[i]) BY <2>5 DEF Binary, IsVal
      <3>3. Left(q, i) \in 1 .. i - 1 /\ i - 1 \in 1 .. i - 1 BY <1>1, <2>2, <3>2
      <3>4. i \in T => Left(q, i) \in T /\ i - 1 \in T BY <1>1, <2>2, <2>5, <3>2 DEF TruthSet
      <3> QED BY <2>2, <2>4, <3>1, <3>3, <3>4
    <2>6. CASE q[i].op # "AND"
      <3>1. f[i] = {i} BY <1>4, <2>2, <2>6 DEF AndItem
      <3> QED BY <2>2, <3>1
    <2> QED BY <2>5, <2>6
  <1>6. f[n] \subseteq 1 .. n /\ (n \in T => f[n] \subseteq T) BY <1>1, <1>5
  <1> QED BY <1>1, <1>3, <1>6 DEF n

-----------------------------------------------------------------------------
(***************************************************************************)
(* Which items are under an odd number of NOTs: every item but the last is *)
(* an operand of one item, further on in the list.                         *)
(***************************************************************************)
OddItem(q, f, i) ==
    IF i = Len(q) THEN FALSE
    ELSE LET p == ParentOf(q, Starts(q), i) IN f[p] # (q[p].op = "NOT")
OddTable(q, f) == f = [i \in DOMAIN q |-> OddItem(q, f, i)]

LEMMA OddUnfold ==
    ASSUME NEW q
    PROVE  NotParity(q) = [i \in DOMAIN q |-> (CHOOSE f : OddTable(q, f))[i]]
  BY Zenon DEF NotParity, OddTable, OddItem

LEMMA ParentIs ==
    ASSUME NEW q, Postfix(q), NEW i \in 1 .. Len(q) - 1
    PROVE  LET p == ParentOf(q, Starts(q), i)
           IN  /\ p \in i + 1 .. Len(q)
               /\ \A j \in DOMAIN q : i \in Kids(q, Starts(q), j) => j = p
  <1> DEFINE s == Starts(q)
             p == ParentOf(q, s, i)
  <1>1. DOMAIN q = 1 .. Len(q) /\ Len(q) \in Nat /\ i \in Nat BY PostfixFacts
  <1>2. PICK r \in i + 1 .. Len(q) : \A j \in DOMAIN q : i \in Kids(q, s, j) <=> j = r
    BY DEF Postfix
  <1>3. r \in DOMAIN q BY <1>1, <1>2
  <1>4. i \in Kids(q, s, r) BY <1>2, <1>3
  <1>5. p \in i + 1 .. Len(q) /\ i \in Kids(q, s, p) BY <1>2, <1>4 DEF ParentOf
  <1>6. p \in DOMAIN q BY <1>1, <1>5
  <1>7. p = r BY <1>2, <1>5, <1>6
  <1> QED BY <1>2, <1>5, <1>7

LEMMA OddTableExists ==
    ASSUME NEW q, Postfix(q)
    PROVE  \E f : OddTable(q, f)
  <1> DEFINE n == Len(q)
             Item(f, i) == OddItem(q, f, i)
             Reaches(f, m) == DOMAIN f = 1 .. n /\ \A i \in 1 .. n : i > n - m => f[i] = Item(f, i)
             B == {m \in 1 .. n : ~\E f : Reaches(f, m)}
  <1>1. n \in Nat /\ DOMAIN q = 1 .. n BY PostfixFacts
  <1>2. ASSUME NEW i \in 1 .. n, NEW f, NEW g, \A y \in i + 1 .. n : f[y] = g[y]
        PROVE  Item(f, i) = Item(g, i)
    <2>1. CASE i = n BY <2>1 DEF OddItem
    <2>2. CASE i # n
      <3> DEFINE p == ParentOf(q, Starts(q), i)
      <3>1. i \in 1 .. n - 1
        <4> HIDE DEF n
        <4> QED BY <1>1, <2>2
      <3>2. p \in i + 1 .. n BY <3>1, ParentIs
      <3> DEFINE Odd(v) == v # (q[p].op = "NOT")
      <3>3. Item(f, i) = Odd(f[p]) /\ Item(g, i) = Odd(g[p]) BY <2>2 DEF OddItem
      <3> HIDE DEF p
      <3>4. f[p] = g[p] BY <1>2, <3>2
      <3> HIDE DEF Item, Odd
      <3> QED BY <3>3, <3>4
    <2> QED BY <2>1, <2>2
  <1> HIDE DEF n, Item
  <1>3. B = {}
    <2> SUFFICES ASSUME B # {} PROVE FALSE OBVIOUS
    <2>1. PICK m \in B : \A y \in 1 .. m - 1 : y \notin B BY <1>1, FirstItem
    <2>2. m \in 1 .. n /\ m \in Nat BY <1>1, <2>1
    <2>3. \E f : Reaches(f, m - 1)
      <3>1. CASE m = 1
        <4> DEFINE f == [i \in 1 .. n |-> 0]
        <4>1. \A i \in 1 .. n : ~(i > n - (m - 1)) BY <1>1, <3>1
        <4>2. Reaches(f, m - 1) BY <4>1
        <4> QED BY <4>2
      <3>2. CASE m > 1
        <4>1. m - 1 \in 1 .. m - 1 /\ m - 1 \in 1 .. n BY <1>1, <2>2, <3>2
        <4> QED BY <2>1, <4>1
      <3> QED BY <2>2, <3>1, <3>2
    <2>4. PICK f : Reaches(f, m - 1) BY <2>3
    <2> DEFINE x == n - m + 1
               g == [i \in 1 .. n |-> IF i = x THEN Item(f, x) ELSE f[i]]
    <2>5. x \in 1 .. n /\ x \in Nat BY <1>1, <2>2
    <2>6. \A i \in 1 .. n : /\ i > n - m <=> (i = x \/ i > n - (m - 1))
                            /\ i > n - m => i >= x
      BY <1>1, <2>2
    <2> HIDE DEF x
    <2>7. \A y \in 1 .. n : y # x => g[y] = f[y] OBVIOUS
    <2>8. DOMAIN g = 1 .. n /\ g[x] = Item(f, x) BY <2>5
    <2> HIDE DEF g
    <2>9. ASSUME NEW i \in 1 .. n, i > n - m PROVE g[i] = Item(g, i)
      <3>1. \A y \in i + 1 .. n : y \in 1 .. n /\ y # x BY <1>1, <2>5, <2>6, <2>9
      <3>2. \A y \in i + 1 .. n : g[y] = f[y] BY <2>7, <3>1
      <3>3. Item(g, i) = Item(f, i) BY <1>2, <3>2
      <3>4. CASE i = x BY <2>8, <3>3, <3>4
      <3>5. CASE i # x
        <4>1. i > n - (m - 1) BY <2>6, <2>9, <3>5
        <4>2. f[i] = Item(f, i) BY <2>4, <4>1
        <4> QED BY <2>7, <3>3, <3>5, <4>2
      <3> QED BY <3>4, <3>5
    <2>10. Reaches(g, m) BY <2>8, <2>9
    <2> QED BY <2>1, <2>10
  <1>4. \E f : Reaches(f, n)
    <2>1. CASE n = 0
      <3> DEFINE f == [i \in 1 .. n |-> 0]
      <3>1. Reaches(f, n) BY <2>1
      <3> QED BY <3>1
    <2>2. CASE n # 0
      <3>1. n \in 1 .. n BY <1>1, <2>2
      <3> QED BY <1>3, <3>1
    <2> QED BY <2>1, <2>2
  <1>5. PICK f : Reaches(f, n) BY <1>4
  <1> DEFINE val == [i \in 1 .. n |-> f[i]]
  <1>6. \A i \in 1 .. n : val[i] = f[i] OBVIOUS
  <1>7. \A i \in 1 .. n : i > n - n /\ \A y \in i + 1 .. n : y \in 1 .. n BY <1>1
  <1>8. ASSUME NEW i \in 1 .. n PROVE val[i] = Item(val, i)
    <2> HIDE DEF val
    <2>1. \A y \in i + 1 .. n : val[y] = f[y] BY <1>6, <1>7
    <2>2. Item(val, i) = Item(f, i) BY <1>2, <2>1
    <2> QED BY <1>5, <1>6, <1>7, <2>2
  <1>9. val = [i \in 1 .. n |-> Item(val, i)]
    <2>2. val = [i \in 1 .. n |-> val[i]] OBVIOUS
    <2> HIDE DEF val
    <2>3. [i \in 1 .. n |-> val[i]] = [i \in 1 .. n |-> Item(val, i)] BY <1>8
    <2> QED BY <2>2, <2>3
  <1> HIDE DEF val
  <1>10. OddTable(q, val) BY <1>1, <1>9 DEF OddTable, Item
  <1> QED BY <1>10

\* An operand has the parity of its operator, turned round by a NOT.
LEMMA ParityIs ==
    ASSUME NEW q, Postfix(q), q # <<>>
    PROVE  \E D \in SUBSET (DOMAIN q) :
              /\ \A i \in DOMAIN q : NotParity(q)[i] <=> i \in D
              /\ Len(q) \notin D
              /\ \A i \in DOMAIN q :
                    /\ ~IsVal(q[i]) /\ q[i].op = "NOT" => (i - 1 \in D <=> i \notin D)
                    /\ Binary(q, i) => (i - 1 \in D <=> i \in D) /\ (Left(q, i) \in D <=> i \in D)
  <1> DEFINE n == Len(q)
             f == CHOOSE g : OddTable(q, g)
             D == {i \in DOMAIN q : f[i]}
  <1>1. n \in Nat /\ DOMAIN q = 1 .. n /\ n \in 1 .. n BY PostfixFacts
  <1>2. OddTable(q, f) BY OddTableExists
  <1>3. \A i \in DOMAIN q : NotParity(q)[i] = f[i] BY OddUnfold, Zenon
  <1> HIDE DEF f
  <1>4. \A i \in DOMAIN q : f[i] = OddItem(q, f, i) BY <1>2 DEF OddTable
  <1>5. \A i \in DOMAIN q : i \in D <=> f[i] OBVIOUS
  <1> HIDE DEF D
  <1>6. n \notin D
    <2>1. f[n] = FALSE BY <1>1, <1>4 DEF OddItem
    <2> QED BY <1>1, <1>5, <2>1
  <1>7. ASSUME NEW i \in DOMAIN q, NEW y \in 1 .. i - 1, y \in Kids(q, Starts(q), i)
        PROVE  y \in D <=> ~(i \in D <=> q[i].op = "NOT")
    <2>1. y \in 1 .. n - 1 /\ y \in DOMAIN q /\ y # n
      <3> HIDE DEF n
      <3> QED BY <1>1
    <2>2. ParentOf(q, Starts(q), y) = i BY <1>7, <2>1, ParentIs
    <2>3. OddItem(q, f, y) = (f[i] # (q[i].op = "NOT")) BY <2>1, <2>2, Zenon DEF OddItem, n
    <2>4. f[i] \in BOOLEAN
      <3>1. OddItem(q, f, i) \in BOOLEAN BY Zenon DEF OddItem
      <3> QED BY <1>4, <3>1
    <2>5. f[y] = (f[i] # (q[i].op = "NOT")) BY <1>4, <2>1, <2>3
    <2>6. f[y] <=> ~(f[i] <=> q[i].op = "NOT") BY <2>4, <2>5
    <2> QED BY <1>5, <2>1, <2>6
  <1>8. ASSUME NEW i \in DOMAIN q
        PROVE  /\ ~IsVal(q[i]) /\ q[i].op = "NOT" => (i - 1 \in D <=> i \notin D)
               /\ Binary(q, i) => (i - 1 \in D <=> i \in D) /\ (Left(q, i) \in D <=> i \in D)
    <2>1. ASSUME ~IsVal(q[i]), q[i].op = "NOT" PROVE i - 1 \in D <=> i \notin D
      <3>1. i - 1 \in 1 .. i - 1 BY <1>1, <2>1, PostfixFacts
      <3>2. i - 1 \in Kids(q, Starts(q), i) BY <2>1 DEF Kids
      <3> QED BY <1>7, <2>1, <3>1, <3>2
    <2>2. ASSUME Binary(q, i) PROVE (i - 1 \in D <=> i \in D) /\ (Left(q, i) \in D <=> i \in D)
      <3>0. ~IsVal(q[i]) /\ q[i].op # "NOT" BY <2>2 DEF Binary
      <3>1. i - 1 \in 1 .. i - 1 /\ Left(q, i) \in 1 .. i - 1 BY <1>1, <2>2, <3>0, PostfixFacts
      <3>2. i - 1 \in Kids(q, Starts(q), i) /\ Left(q, i) \in Kids(q, Starts(q), i)
        BY <3>0 DEF Kids, Left
      <3> QED BY <1>7, <3>0, <3>1, <3>2
    <2> QED BY <2>1, <2>2
  <1>9. D \in SUBSET (DOMAIN q) BY DEF D
  <1>10. \A i \in DOMAIN q : NotParity(q)[i] <=> i \in D BY <1>3, <1>5
  <1> QED BY <1>6, <1>8, <1>9, <1>10 DEF n

\* What is true stays true when words outside a NOT are added and words under
\* one are taken away.
LEMMA ParityMeans ==
    ASSUME NEW q, Postfix(q), q # <<>>, Logical(q),
           NEW more, NEW held \in SUBSET more, NEW T, TruthSet(q, held, T),
           NEW U, TruthSet(q, {i \in DOMAIN q : i \in more /\ ~NotParity(q)[i]}, U)
    PROVE  Len(q) \in T => Len(q) \in U
  <1> DEFINE n == Len(q)
             less == {i \in DOMAIN q : i \in more /\ ~NotParity(q)[i]}
  <1>1. /\ n \in Nat /\ DOMAIN q = 1 .. n /\ n \in 1 .. n
        /\ \A i \in 1 .. n : /\ ~IsVal(q[i]) => i - 1 \in 1 .. i - 1
                             /\ Binary(q, i) => Left(q, i) \in 1 .. i - 1
    BY PostfixFacts DEF Binary
  <1>2. PICK D \in SUBSET (DOMAIN q) :
              /\ \A i \in DOMAIN q : NotParity(q)[i] <=> i \in D
              /\ n \notin D
              /\ \A i \in DOMAIN q :
                    /\ ~IsVal(q[i]) /\ q[i].op = "NOT" => (i - 1 \in D <=> i \notin D)
                    /\ Binary(q, i) => (i - 1 \in D <=> i \in D) /\ (Left(q, i) \in D <=> i \in D)
    BY ParityIs
  <1> DEFINE Follows(i) == IF i \in D THEN i \in U => i \in T ELSE i \in T => i \in U
             B == {i \in 1 .. n : ~Follows(i)}
  <1>3. less = {i \in DOMAIN q : i \in more /\ i \notin D} BY <1>2
  <1>4. TruthSet(q, less, U) OBVIOUS
  <1> HIDE DEF n, less
  <1>5. B = {}
    <2> SUFFICES ASSUME B # {} PROVE FALSE OBVIOUS
    <2>1. PICK i \in B : \A y \in 1 .. i - 1 : y \notin B
      <3>1. n \in Nat /\ B \in SUBSET (1 .. n) BY <1>1
      <3> HIDE DEF B
      <3> QED BY <3>1, FirstItem
    <2>2. i \in 1 .. n /\ i \in DOMAIN q /\ ~Follows(i) BY <1>1, <2>1
    <2>3. \A y \in 1 .. i - 1 : y \in 1 .. n BY <1>1, <2>2
    <2>4. \A y \in 1 .. i - 1 : Follows(y) BY <2>1, <2>3
    <2> HIDE DEF B
    <2>5. CASE IsVal(q[i])
      <3>1. (i \in T <=> i \in held) /\ (i \in U <=> i \in less) BY <1>4, <2>2, <2>5 DEF TruthSet
      <3> QED BY <1>3, <2>2, <3>1
    <2>6. CASE ~IsVal(q[i]) /\ q[i].op = "NOT"
      <3>1. i - 1 \in 1 .. i - 1 BY <1>1, <2>2, <2>6
      <3>2. (i \in T <=> i - 1 \notin T) /\ (i \in U <=> i - 1 \notin U)
        BY <1>4, <2>2, <2>6 DEF TruthSet
      <3> QED BY <1>2, <2>2, <2>4, <2>6, <3>1, <3>2
    <2>7. CASE Binary(q, i)
      <3>1. Left(q, i) \in 1 .. i - 1 /\ i - 1 \in 1 .. i - 1 BY <1>1, <2>2, <2>7 DEF Binary
      <3>2. q[i].op = "AND" \/ q[i].op = "OR" BY <2>2, <2>7 DEF Logical, Binary
      <3>3. q[i].op = "AND" => /\ i \in T <=> Left(q, i) \in T /\ i - 1 \in T
                               /\ i \in U <=> Left(q, i) \in U /\ i - 1 \in U
        BY <1>4, <2>2, <2>7 DEF TruthSet
      <3>4. q[i].op = "OR" => /\ i \in T <=> Left(q, i) \in T \/ i - 1 \in T
                              /\ i \in U <=> Left(q, i) \in U \/ i - 1 \in U
        BY <1>4, <2>2, <2>7 DEF TruthSet
      <3>5. Follows(Left(q, i)) /\ Follows(i - 1) BY <2>4, <3>1
      <3> QED BY <1>2, <2>2, <2>7, <3>2, <3>3, <3>4, <3>5
    <2> QED BY <2>5, <2>6, <2>7 DEF Binary
  <1>6. Follows(n) BY <1>1, <1>5
  <1> QED BY <1>2, <1>6 DEF n

-----------------------------------------------------------------------------
(***************************************************************************)
(* The words of a query are its operands, by their ordinals.               *)
(***************************************************************************)
LEMMA OrdinalsAre ==
    ASSUME NEW q, Postfix(q)
    PROVE  /\ \A i \in Operands(q) : /\ OrdinalIn(q, i) \in DOMAIN QueryTerms(q)
                                     /\ QueryTerms(q)[OrdinalIn(q, i)] = q[i].term
           /\ \A i, j \in Operands(q) : OrdinalIn(q, i) = OrdinalIn(q, j) => i = j
           /\ \A t \in DOMAIN QueryTerms(q) : \E i \in Operands(q) : OrdinalIn(q, i) = t
  <1> DEFINE S == Operands(q)
             n == Cardinality(S)
             Of(k) == CHOOSE i \in S : OrdinalIn(q, i) = k
  <1>1. S \in SUBSET Nat /\ IsFiniteSet(S) BY TermsListed
  <1>2. \A i \in S : OrdinalIn(q, i) = Cardinality(Upto(S, i)) BY DEF OrdinalIn, Upto
  <1>3. QueryTerms(q) = [k \in 1 .. n |-> q[Of(k)].term] BY DEF QueryTerms
  <1>4. DOMAIN QueryTerms(q) = 1 .. n BY <1>3
  <1> HIDE DEF S, n
  <1>5. \A i \in S : OrdinalIn(q, i) \in 1 .. n /\ OrdinalIn(q, i) \in Nat BY <1>1, <1>2, RankIn DEF n
  <1>6. ASSUME NEW i \in S, NEW j \in S, OrdinalIn(q, i) = OrdinalIn(q, j) PROVE i = j
    <2>1. i \in Nat /\ j \in Nat BY <1>1
    <2>2. ~(i < j)
      <3> SUFFICES ASSUME i < j PROVE FALSE OBVIOUS
      <3>1. Cardinality(Upto(S, i)) < Cardinality(Upto(S, j)) BY <1>1, RankIn
      <3> QED BY <1>2, <1>5, <1>6, <3>1
    <2>3. ~(j < i)
      <3> SUFFICES ASSUME j < i PROVE FALSE OBVIOUS
      <3>1. Cardinality(Upto(S, j)) < Cardinality(Upto(S, i)) BY <1>1, RankIn
      <3> QED BY <1>2, <1>5, <1>6, <3>1
    <2> QED BY <2>1, <2>2, <2>3
  <1>7. ASSUME NEW t \in 1 .. n PROVE \E i \in S : OrdinalIn(q, i) = t
    <2>1. PICK i \in S : Cardinality(Upto(S, i)) = t BY <1>1, RankHeld DEF n
    <2> QED BY <1>2, <2>1
  <1>8. ASSUME NEW i \in S PROVE QueryTerms(q)[OrdinalIn(q, i)] = q[i].term
    <2> DEFINE t == OrdinalIn(q, i)
    <2>1. t \in 1 .. n BY <1>5
    <2>2. Of(t) \in S /\ OrdinalIn(q, Of(t)) = t OBVIOUS
    <2>3. Of(t) = i BY <1>6, <2>2
    <2> QED BY <1>3, <2>1, <2>3
  <1> QED BY <1>4, <1>5, <1>6, <1>7, <1>8 DEF S

-----------------------------------------------------------------------------
(***************************************************************************)
(* A Boolean query over plain words: what a walk may ask of the words of a *)
(* document is what the matcher says of the document.                      *)
(***************************************************************************)
Boolean == Postfix(query) /\ PureBoolean /\ ~HasModifier

HasOperand(doc) == {i \in Operands(query) : query[i].term \in DOMAIN doc.pos}
AtOrdinals(W) == {i \in Operands(query) : Ordinal(i) \in W}

LEMMA BooleanItems ==
    ASSUME Boolean
    PROVE  /\ Logical(query)
           /\ ~NeedsSpans(query)
           /\ \A i \in DOMAIN query : IsVal(query[i]) => query[i].kind = "PLAIN" /\ query[i].mask = {}
  <1>1. \A i \in DOMAIN query : IsVal(query[i]) => query[i].kind = "PLAIN" /\ query[i].mask = {}
    BY DEF Boolean, HasModifier, IsBare, IsPlain
  <1>2. \A i \in DOMAIN query : ~IsVal(query[i]) => query[i].op \in {"AND", "OR", "NOT"}
    BY DEF Boolean, PureBoolean, OperatorsOf
  <1>3. \A i \in DOMAIN query : query[i].op \notin Proximity
    BY <1>2 DEF IsVal, Proximity
  <1>4. ~NeedsSpans(query) BY <1>1, <1>3 DEF NeedsSpans
  <1> QED BY <1>1, <1>2, <1>4 DEF Logical

\* bool_gate_admits: true of the words as the query is.
LEMMA AdmitsMeans ==
    ASSUME Boolean, query # <<>>, NEW W
    PROVE  \E T : TruthSet(query, AtOrdinals(W), T) /\ (BoolAdmits(W) <=> Len(query) \in T)
  <1> DEFINE values == [i \in DOMAIN query |->
                          [present |-> IsVal(query[i]) /\ Ordinal(i) \in W, spans |-> {}]]
             held == AtOrdinals(W)
  <1>1. BoolAdmits(W) = MatchEval(query, values, 0).present BY Zenon DEF BoolAdmits
  <1>2. ASSUME NEW i \in DOMAIN query, IsVal(query[i]) PROVE values[i].present = (i \in held)
    <2>1. values[i].present = (IsVal(query[i]) /\ Ordinal(i) \in W) OBVIOUS
    <2>2. i \in held <=> Ordinal(i) \in W BY <1>2 DEF AtOrdinals, Operands
    <2> HIDE DEF values, held
    <2> QED BY <1>2, <2>1, <2>2
  <1>3. Postfix(query) /\ Logical(query) BY BooleanItems DEF Boolean
  <1> HIDE DEF values, held
  <1>4. PICK T : /\ TruthSet(query, held, T)
                 /\ MatchEval(query, values, 0).present = (Len(query) \in T)
    BY <1>2, <1>3, TruthIs
  <1> QED BY <1>1, <1>4 DEF held

\* The gate admits a document just when the matcher accepts it.
LEMMA AdmitsDoc ==
    ASSUME Boolean, query # <<>>, NEW doc
    PROVE  /\ BoolAdmits(WordsIn(doc)) <=> DocMatches(doc, query)
           /\ AtOrdinals(WordsIn(doc)) = HasOperand(doc)
  <1> DEFINE W == WordsIn(doc)
             values == [i \in DOMAIN query |->
                          [present |-> IsVal(query[i]) /\ Ordinal(i) \in W, spans |-> {}]]
             heapvalues == [i \in DOMAIN query |->
                        IF ~IsVal(query[i]) THEN NoValue
                        ELSE [present |-> TermPresent(doc, query[i]), spans |-> {}]]
  <1>1. ASSUME NEW i \in Operands(query)
        PROVE  Ordinal(i) \in W <=> query[i].term \in DOMAIN doc.pos
    BY <1>1, OrdinalsAre DEF Boolean, WordsIn, AllWords, Ordinal
  <1>2. ASSUME NEW i \in Operands(query)
        PROVE  TermPresent(doc, query[i]) <=> query[i].term \in DOMAIN doc.pos
    <2>1. query[i].kind = "PLAIN" /\ query[i].mask = {} BY BooleanItems DEF Operands
    <2>2. \A t : TermMatches(query[i], t) <=> t = query[i].term BY <2>1 DEF TermMatches
    <2>3. DocTerms(doc, query[i]) = {t \in DOMAIN doc.pos : t = query[i].term} BY <2>2 DEF DocTerms
    <2> QED BY <2>1, <2>3 DEF TermPresent
  <1>3. ASSUME NEW i \in DOMAIN query PROVE values[i] = heapvalues[i]
    <2>1. CASE IsVal(query[i])
      <3>1. i \in Operands(query) BY <2>1 DEF Operands
      <3> DEFINE a == IsVal(query[i]) /\ Ordinal(i) \in W
                 b == TermPresent(doc, query[i])
      <3>2. a \in BOOLEAN /\ b \in BOOLEAN BY DEF TermPresent
      <3>3. a = b BY <1>1, <1>2, <2>1, <3>1, <3>2
      <3>4. values[i] = [present |-> a, spans |-> {}] OBVIOUS
      <3>5. heapvalues[i] = [present |-> b, spans |-> {}] BY <2>1
      <3> HIDE DEF a, b, values, heapvalues
      <3> QED BY <3>3, <3>4, <3>5
    <2>2. CASE ~IsVal(query[i])
      <3> DEFINE a == IsVal(query[i]) /\ Ordinal(i) \in W
      <3>1. a = FALSE BY <2>2
      <3>2. values[i] = [present |-> a, spans |-> {}] OBVIOUS
      <3>3. heapvalues[i] = [present |-> FALSE, spans |-> {}] BY <2>2 DEF NoValue
      <3> HIDE DEF a, values, heapvalues
      <3> QED BY <3>1, <3>2, <3>3
    <2> QED BY <2>1, <2>2
  <1>4. values = heapvalues
    <2>1. values = [i \in DOMAIN query |-> values[i]] OBVIOUS
    <2>2. heapvalues = [i \in DOMAIN query |-> heapvalues[i]] OBVIOUS
    <2> HIDE DEF values, heapvalues
    <2>3. [i \in DOMAIN query |-> values[i]] = [i \in DOMAIN query |-> heapvalues[i]] BY <1>3
    <2> QED BY <2>1, <2>2, <2>3
  <1>5. BoolAdmits(W) = MatchEval(query, values, 0).present BY Zenon DEF BoolAdmits
  <1>6. DocMatches(doc, query) <=> MatchEval(query, heapvalues, 0).present
    <2>1. ~NeedsSpans(query) BY BooleanItems
    <2>2. \A i \in DOMAIN query :
             (IF ~IsVal(query[i]) THEN NoValue
              ELSE IF NeedsSpans(query) THEN TermSpans(doc, query[i])
              ELSE [present |-> TermPresent(doc, query[i]), spans |-> {}]) = heapvalues[i]
      BY <2>1
    <2>3. [i \in DOMAIN query |->
             IF ~IsVal(query[i]) THEN NoValue
             ELSE IF NeedsSpans(query) THEN TermSpans(doc, query[i])
             ELSE [present |-> TermPresent(doc, query[i]), spans |-> {}]] = heapvalues
      BY <2>1
    <2> HIDE DEF heapvalues
    <2> QED BY <2>3, Zenon DEF DocMatches
  <1>7. AtOrdinals(W) = HasOperand(doc) BY <1>1 DEF AtOrdinals, HasOperand
  <1> HIDE DEF values, heapvalues
  <1> QED BY <1>4, <1>5, <1>6, <1>7

\* A document's operands, and what of them makes an OR or an AND true.
LEMMA WordsMean ==
    ASSUME Boolean, query # <<>>, NEW W \in SUBSET AllWords
    PROVE  /\ PureOr => (BoolAdmits(W) <=> W # {})
           /\ OperatorsOf(query) \subseteq {"AND"} => (BoolAdmits(W) <=> W = AllWords)
  <1> DEFINE held == AtOrdinals(W)
             S == Operands(query)
  <1>1. PICK T : TruthSet(query, held, T) /\ (BoolAdmits(W) <=> Len(query) \in T) BY AdmitsMeans
  <1>2. /\ \A i \in S : Ordinal(i) \in AllWords
        /\ \A t \in AllWords : \E i \in S : Ordinal(i) = t
    BY OrdinalsAre DEF Boolean, AllWords, Ordinal
  <1>3. \A i \in S : i \in held <=> Ordinal(i) \in W BY DEF AtOrdinals
  <1>4. W # {} <=> \E m \in S : m \in held BY <1>2, <1>3
  <1>5. W = AllWords <=> S \subseteq held BY <1>2, <1>3
  <1> HIDE DEF held, S
  <1>6. ASSUME PureOr PROVE Len(query) \in T <=> \E m \in S : m \in held
    <2>1. \A i \in DOMAIN query : IsVal(query[i]) \/ query[i].op = "OR"
      BY <1>6 DEF PureOr, OperatorsOf
    <2> QED BY <1>1, <2>1, OrMeans DEF Boolean, S
  <1>7. ASSUME OperatorsOf(query) \subseteq {"AND"} PROVE Len(query) \in T <=> S \subseteq held
    <2>1. \A i \in DOMAIN query : IsVal(query[i]) \/ query[i].op = "AND"
      BY <1>7 DEF OperatorsOf
    <2> QED BY <1>1, <2>1, AndMeans DEF Boolean, S
  <1> QED BY <1>1, <1>4, <1>5, <1>6, <1>7

\* bool_gate_driver: a document without a word of that operand does not match.
LEMMA DriverMeans ==
    ASSUME Boolean, query # <<>>, NEW n \in AndOperands(query), Positive(n),
           NEW W \in SUBSET AllWords, BoolAdmits(W)
    PROVE  W \cap WordsUnder(n) # {}
  <1> DEFINE held == AtOrdinals(W)
  <1>1. PICK T : TruthSet(query, held, T) /\ Len(query) \in T BY AdmitsMeans
  <1>2. Postfix(query) /\ Logical(query) BY BooleanItems DEF Boolean
  <1>3. n \in DOMAIN query /\ n \in T BY <1>1, <1>2, OperandsMean
  <1>4. \A m \in Under(query, n) : query[m].op # "NOT" BY DEF Positive, Under
  <1> HIDE DEF held
  <1>5. PICK m \in Operands(query) : m \in Under(query, n) /\ m \in held
    BY <1>1, <1>2, <1>3, <1>4, PositiveMeans
  <1>6. Ordinal(m) \in W BY <1>5 DEF held, AtOrdinals
  <1>7. Ordinal(m) \in WordsUnder(n) BY <1>5 DEF WordsUnder, Under, Operands
  <1> QED BY <1>6, <1>7

\* bool_gate_may_admit: when it says no, no document whose words are all in the
\* segments matches.
LEMMA MayMeans ==
    ASSUME Boolean, query # <<>>, NEW cs, ~MayAdmit(cs),
           NEW W \in SUBSET {WordOf(c) : c \in DOMAIN cs}
    PROVE  ~BoolAdmits(W)
  <1> SUFFICES ASSUME BoolAdmits(W) PROVE FALSE OBVIOUS
  <1> DEFINE S == Operands(query)
             more == {i \in S : \E c \in DOMAIN cs : WordOf(c) = Ordinal(i)}
             held == AtOrdinals(W)
             less == {i \in DOMAIN query : i \in more /\ ~NotParity(query)[i]}
             X == {Ordinal(i) : i \in {j \in DOMAIN query :
                     /\ IsVal(query[j]) /\ ~NotParity(query)[j]
                     /\ \E c \in DOMAIN cs : WordOf(c) = Ordinal(j)}}
  <1>1. PICK T : TruthSet(query, held, T) /\ Len(query) \in T BY AdmitsMeans
  <1>2. Postfix(query) /\ Logical(query) BY BooleanItems DEF Boolean
  <1>3. held \subseteq more
    <2> SUFFICES ASSUME NEW i \in held PROVE i \in more OBVIOUS
    <2>1. i \in S /\ Ordinal(i) \in W BY DEF AtOrdinals
    <2>2. \E c \in DOMAIN cs : WordOf(c) = Ordinal(i) BY <2>1
    <2> QED BY <2>1, <2>2
  <1>4. MayAdmit(cs) <=> BoolAdmits(X) BY Zenon DEF MayAdmit
  <1>5. AtOrdinals(X) = less
    <2>1. X = {Ordinal(j) : j \in less} BY DEF Operands
    <2>2. less \subseteq S OBVIOUS
    <2>3. \A i, j \in S : Ordinal(i) = Ordinal(j) => i = j
      BY <1>2, OrdinalsAre DEF Ordinal
    <2> HIDE DEF X, less, S
    <2>4. \A i \in S : Ordinal(i) \in X <=> i \in less BY <2>1, <2>2, <2>3
    <2> QED BY <2>2, <2>4 DEF AtOrdinals, S
  <1>6. PICK U : TruthSet(query, AtOrdinals(X), U) /\ (BoolAdmits(X) <=> Len(query) \in U)
    <2> HIDE DEF X
    <2> QED BY AdmitsMeans
  <1>7. TruthSet(query, less, U) BY <1>5, <1>6
  <1> HIDE DEF held, more, X
  <1>8. Len(query) \in U BY <1>1, <1>2, <1>3, <1>7, ParityMeans
  <1> QED BY <1>4, <1>6, <1>8

-----------------------------------------------------------------------------
(***************************************************************************)
(* The walk of a Boolean query is there for the documents that match.      *)
(***************************************************************************)
BooleanGate == IF PureOr THEN "none" ELSE "bool"
BooleanWalk ==
    /\ ~walk.filtered /\ walk.gate = BooleanGate
    /\ walk.how = "and" => walk.gate = "bool" /\ OperatorsOf(query) \subseteq {"AND"}
    /\ walk.how = "driven" => /\ walk.gate = "bool" /\ Driver(curs).ok
                              /\ walk.drivers = Driver(curs).words

LEMMA DriverIs ==
    ASSUME NEW cs, GoodCursors(cs), Driver(cs).ok
    PROVE  \E n \in AndOperands(query) : Positive(n) /\ Driver(cs).words = WordsUnder(n)
  <1> DEFINE operands == {n \in AndOperands(query) : Positive(n)}
             K == {Cost(cs, n) : n \in operands}
             n == CHOOSE n \in operands : \A m \in operands : Cost(cs, n) <= Cost(cs, m)
  <1>1. Driver(cs) = IF operands = {} THEN [ok |-> FALSE, words |-> {}]
                     ELSE [ok |-> Cost(cs, n) * Fraction <= Df(cs, DOMAIN cs), words |-> WordsUnder(n)]
    BY DEF Driver
  <1>2. operands # {}
    <2> SUFFICES ASSUME operands = {} PROVE FALSE OBVIOUS
    <2>1. Driver(cs) = [ok |-> FALSE, words |-> {}] BY <1>1
    <2>2. Driver(cs).ok = FALSE BY <2>1
    <2> QED BY <2>2
  <1>3. ASSUME NEW m \in operands PROVE Cost(cs, m) \in Nat
    <2> DEFINE C == {c \in DOMAIN cs : WordOf(c) \in WordsUnder(m)}
               f == [c \in C |-> Len(cs[c].list)]
    <2>1. IsFiniteSet(DOMAIN cs) /\ \A c \in DOMAIN cs : GoodCursor(cs[c]) BY DEF GoodCursors
    <2>2. IsFiniteSet(C) BY <2>1, FS_Subset
    <2>3. \A c \in C : f[c] \in Nat BY <2>1 DEF GoodCursor, GoodList
    <2>4. DOMAIN f = C OBVIOUS
    <2>5. Cost(cs, m) = SumFunction(f) BY DEF Cost, Df
    <2> HIDE DEF f, C
    <2>6. Counts(f, C) BY <2>2, <2>3 DEF Counts
    <2>7. SumFunctionOnSet(f, C) \in Nat BY <2>6, SumType
    <2> QED BY <2>4, <2>5, <2>7, SumIs
  <1> HIDE DEF operands
  <1>4. K \in SUBSET Nat /\ K # {} BY <1>2, <1>3
  <1>5. PICK k \in K : \A x \in K : k <= x
    <2> HIDE DEF K
    <2>1. Min(K) \in K /\ \A x \in K : Min(K) <= x BY <1>4, LeastOf
    <2> QED BY <2>1
  <1>6. \E m \in operands : \A x \in operands : Cost(cs, m) <= Cost(cs, x) BY <1>5
  <1>7. n \in operands BY <1>6
  <1> HIDE DEF n
  <1>8. Driver(cs).words = WordsUnder(n) BY <1>1, <1>2
  <1> QED BY <1>7, <1>8 DEF operands

\* Of a document's words, what the walk asks is that the query be true of them.
LEMMA RelevantIs ==
    ASSUME Setup, HowIs, Boolean, BooleanWalk, NEW s \in DOMAIN index.segs, NEW x \in SegTids(index, s)
    PROVE  Relevant(s, x) <=> /\ DocMatches(index.segs[s].docs[x], query)
                              /\ WordsIn(index.segs[s].docs[x]) # {}
  <1> DEFINE doc == index.segs[s].docs[x]
             W == WordsIn(doc)
             dm == DocMatches(doc, query)
  <1> SUFFICES Relevant(s, x) <=> dm /\ W # {} OBVIOUS
  <1>1. /\ Relevant(s, x) <=>
             /\ W # {}
             /\ walk.how = "and" => W = AllWords
             /\ walk.how = "driven" => W \cap walk.drivers # {}
             /\ walk.filtered => x \in walk.filter
             /\ walk.gate = "bool" /\ walk.how # "and" => BoolAdmits(W)
             /\ walk.gate = "phrase" => /\ W = AllWords
                                        /\ PhraseVerdict(s, x).admit \/ PhraseVerdict(s, x).unknown
    BY Zenon DEF Relevant
  <1>2. ~walk.filtered /\ walk.gate # "phrase" /\ walk.gate = BooleanGate
    BY DEF BooleanWalk, BooleanGate
  <1>3. W \in SUBSET AllWords BY DEF WordsIn
  <1>4. CASE query = <<>>
    <2>1. W = {}
      <3>1. Operands(query) = {} BY <1>4 DEF Operands
      <3>2. AllWords = {} BY <3>1, OrdinalsAre DEF AllWords, Boolean
      <3> QED BY <1>3, <3>2
    <2> HIDE DEF W, dm
    <2> QED BY <1>1, <2>1
  <1>5. CASE query # <<>>
    <2>1. BoolAdmits(W) <=> dm BY <1>5, AdmitsDoc
    <2>2. /\ PureOr => (BoolAdmits(W) <=> W # {})
          /\ OperatorsOf(query) \subseteq {"AND"} => (BoolAdmits(W) <=> W = AllWords)
      BY <1>3, <1>5, WordsMean
    <2>3. CASE PureOr
      <3>1. walk.gate = "none" BY <1>2, <2>3 DEF BooleanGate
      <3>2. walk.how # "and" /\ walk.how # "driven" BY <3>1 DEF BooleanWalk
      <3> HIDE DEF W, dm
      <3> QED BY <1>1, <1>2, <2>1, <2>2, <2>3, <3>1, <3>2
    <2>4. CASE ~PureOr
      <3>1. walk.gate = "bool" BY <1>2, <2>4 DEF BooleanGate
      <3>2. walk.how = "and" => OperatorsOf(query) \subseteq {"AND"} BY DEF BooleanWalk
      <3>3. ASSUME walk.how = "driven", BoolAdmits(W) PROVE W \cap walk.drivers # {}
        <4>1. GoodCursors(curs) BY RelFacts
        <4>2. PICK n \in AndOperands(query) : Positive(n) /\ Driver(curs).words = WordsUnder(n)
          BY <3>3, <4>1, DriverIs DEF BooleanWalk
        <4>3. W \cap WordsUnder(n) # {} BY <1>3, <1>5, <3>3, <4>2, DriverMeans
        <4> QED BY <3>3, <4>2, <4>3 DEF BooleanWalk
      <3> HIDE DEF W, dm
      <3>4. CASE walk.how = "and" BY <1>1, <1>2, <2>1, <2>2, <3>1, <3>2, <3>4
      <3>5. CASE walk.how # "and" BY <1>1, <1>2, <2>1, <3>1, <3>3, <3>5
      <3> QED BY <3>4, <3>5
    <2> QED BY <2>3, <2>4
  <1> QED BY <1>4, <1>5

\* The documents of a segment that match and hold a word of the query.
MatchedIn(s) == {y \in SegTids(index, s) : /\ DocMatches(index.segs[s].docs[y], query)
                                           /\ WordsIn(index.segs[s].docs[y]) # {}}

LEMMA SegmentHitsAre ==
    SegmentHits = UNION {{SegmentHit(s, x) : x \in MatchedIn(s)} : s \in DOMAIN index.segs}
  <1> DEFINE F(s) == {x \in SegTids(index, s) :
                        /\ DocMatches(index.segs[s].docs[x], query)
                        /\ \E t \in DOMAIN QueryTerms(query) :
                              QueryTerms(query)[t] \in DOMAIN index.segs[s].docs[x].pos}
  <1>1. \A doc : WordsIn(doc) # {} <=> \E t \in DOMAIN QueryTerms(query) :
                                          QueryTerms(query)[t] \in DOMAIN doc.pos
    BY DEF WordsIn, AllWords
  <1>2. \A s \in DOMAIN index.segs : F(s) = MatchedIn(s) BY <1>1 DEF MatchedIn
  <1>3. SegmentHits = UNION {{SegmentHit(s, x) : x \in F(s)} : s \in DOMAIN index.segs}
    BY Zenon DEF SegmentHits
  <1> DEFINE G(s) == {SegmentHit(s, x) : x \in F(s)}
             H(s) == {SegmentHit(s, x) : x \in MatchedIn(s)}
  <1> HIDE DEF F
  <1>4. \A s \in DOMAIN index.segs : G(s) = H(s) BY <1>2
  <1>5. SegmentHits = UNION {G(s) : s \in DOMAIN index.segs} BY <1>3
  <1> SUFFICES SegmentHits = UNION {H(s) : s \in DOMAIN index.segs} OBVIOUS
  <1> HIDE DEF G, H
  <1> QED BY <1>4, <1>5

LEMMA BooleanWalkHits ==
    ASSUME Setup, HowIs, Boolean, BooleanWalk
    PROVE  WalkHits = SegmentHits
  <1> DEFINE F(s) == {x \in SegTids(index, s) : Relevant(s, x)}
  <1>1. \A s \in DOMAIN index.segs : F(s) = MatchedIn(s) BY RelevantIs DEF MatchedIn
  <1>2. WalkHits = UNION {{SegmentHit(s, x) : x \in F(s)} : s \in DOMAIN index.segs}
    BY Zenon DEF WalkHits
  <1> DEFINE G(s) == {SegmentHit(s, x) : x \in F(s)}
             H(s) == {SegmentHit(s, x) : x \in MatchedIn(s)}
  <1> HIDE DEF F
  <1>3. \A s \in DOMAIN index.segs : G(s) = H(s) BY <1>1
  <1>4. WalkHits = UNION {G(s) : s \in DOMAIN index.segs} BY <1>2
  <1>5. SegmentHits = UNION {H(s) : s \in DOMAIN index.segs} BY SegmentHitsAre
  <1> HIDE DEF G, H
  <1> QED BY <1>3, <1>4, <1>5

\* Nothing matches when the gate says so before the walk.
LEMMA NothingAdmitted ==
    ASSUME Setup, Boolean, query # <<>>, ~MayAdmit(curs)
    PROVE  SegmentHits = {}
  <1> SUFFICES ASSUME NEW s \in DOMAIN index.segs, NEW x \in SegTids(index, s),
                      DocMatches(index.segs[s].docs[x], query)
               PROVE  FALSE
    BY SegmentHitsAre DEF MatchedIn
  <1> DEFINE doc == index.segs[s].docs[x]
             W == WordsIn(doc)
  <1>1. BoolAdmits(W) BY AdmitsDoc
  <1>2. Holders(curs, x) = {<<t, s>> : t \in W} BY HoldersOfDoc
  <1>3. Holders(curs, x) \subseteq DOMAIN curs BY DEF Holders
  <1> HIDE DEF W
  <1>4. \A t \in W : <<t, s>> \in DOMAIN curs /\ WordOf(<<t, s>>) = t BY <1>2, <1>3 DEF WordOf
  <1>5. W \in SUBSET {WordOf(c) : c \in DOMAIN curs} BY <1>4
  <1> QED BY <1>1, <1>5, MayMeans

-----------------------------------------------------------------------------
(***************************************************************************)
(* The hits of the segments and of the pending list together.              *)
(***************************************************************************)
PendingHits == {PendingHit(tid) : tid \in PendingMatches}

LEMMA DocScoreType ==
    ASSUME RankedCorpus(index), Listed(QueryTerms(query)),
           NEW doc, \A term : TermFreq(doc, term) \in Nat, NEW len \in Nat
    PROVE  DocScore(doc, len) \in Nat
  <1> DEFINE F == [t \in AllWords |-> TermScore(doc, QueryTerms(query)[t], len)]
             T == AllWords
  <1>1. IsFiniteSet(T)
    <2> DEFINE terms == QueryTerms(query)
    <2>1. T = DOMAIN terms /\ Listed(terms) BY DEF AllWords
    <2> HIDE DEF terms, T
    <2> QED BY <2>1, FS_Interval DEF Listed
  <1>2. ASSUME NEW term PROVE TermScore(doc, term, len) \in Nat
    BY IdfType, ContribType DEF TermScore
  <1>3. \A t \in T : F[t] \in Nat BY <1>2
  <1>4. DocScore(doc, len) = SumFunction(F) /\ DOMAIN F = T BY DEF DocScore
  <1> HIDE DEF F, T
  <1>5. Counts(F, T) BY <1>1, <1>3 DEF Counts
  <1> QED BY <1>4, <1>5, SumType, SumIs

LEMMA SegmentHitType ==
    ASSUME RankedCorpus(index), Listed(QueryTerms(query)),
           NEW s \in DOMAIN index.segs, NEW x \in SegTids(index, s)
    PROVE  /\ SegmentHit(s, x) \in [tid : Nat, score : Nat] /\ SegmentHit(s, x).tid = x
           /\ x \in DOMAIN index.heap
  <1> DEFINE doc == index.segs[s].docs[x]
  <1>1. WellFormed(index.segs[s]) /\ x \in DOMAIN index.heap BY DEF RankedCorpus
  <1>2. x \in DOMAIN index.segs[s].docs BY DEF SegTids
  <1>3. StoredLen(index.segs[s], doc) \in Nat BY <1>1, <1>2, LengthType
  <1>4. \A term : TermFreq(doc, term) \in Nat BY <1>1, <1>2, DocLenType DEF WellFormed
  <1>5. DocScore(doc, StoredLen(index.segs[s], doc)) \in Nat BY <1>3, <1>4, DocScoreType
  <1>6. x \in Nat
    <2>1. x \in 0 .. Nowhere - 1 BY <1>1, <1>2 DEF WellFormed, Documents
    <2> QED BY <2>1, RankAssumption
  <1> QED BY <1>1, <1>5, <1>6 DEF SegmentHit, Hit

LEMMA PendingHitType ==
    ASSUME RankedCorpus(index), Listed(QueryTerms(query)), NEW x \in DOMAIN index.pending
    PROVE  /\ PendingHit(x) \in [tid : Nat, score : Nat] /\ PendingHit(x).tid = x
           /\ x \in DOMAIN index.heap
  <1> DEFINE doc == index.pending[x]
  <1>1. Documents(index.pending) /\ x \in DOMAIN index.heap BY DEF RankedCorpus
  <1>2. DocLen(doc) \in Nat /\ \A term : TermFreq(doc, term) \in Nat BY <1>1, DocLenType
  <1>3. PendingLen(doc) \in Nat BY <1>2, QuantizedLower DEF PendingLen
  <1>4. DocScore(doc, PendingLen(doc)) \in Nat BY <1>2, <1>3, DocScoreType
  <1>5. x \in Nat
    <2>1. x \in 0 .. Nowhere - 1 BY <1>1 DEF Documents
    <2> QED BY <2>1, RankAssumption
  <1> QED BY <1>1, <1>4, <1>5 DEF PendingHit, Hit

\* A document is in a segment or pending.
LEMMA NotPending ==
    ASSUME NEW c, RankedCorpus(c), NEW s \in DOMAIN c.segs, NEW tid, tid \in SegTids(c, s)
    PROVE  tid \notin DOMAIN c.pending
  <1> SUFFICES ASSUME tid \in DOMAIN c.pending PROVE FALSE OBVIOUS
  <1> DEFINE S == {x \in DOMAIN c.segs : tid \in SegTids(c, x)}
  <1>1. tid \in DOMAIN c.heap BY DEF RankedCorpus
  <1>2. Cardinality(S) + 1 = 1 BY <1>1 DEF RankedCorpus, ConsistentCorpus
  <1>3. IsFiniteSet(S) BY FS_Subset DEF RankedCorpus
  <1>4. s \in S OBVIOUS
  <1> HIDE DEF S
  <1>5. Cardinality(S) \in Nat BY <1>3, FS_CardinalityType
  <1>6. Cardinality(S) = 0 BY <1>2, <1>5
  <1> QED BY <1>3, <1>4, <1>6, FS_EmptySet

LEMMA AllHitsRank ==
    ASSUME RankedCorpus(index), Listed(QueryTerms(query))
    PROVE  Ranking(SegmentHits \cup PendingHits)
  <1> DEFINE H == SegmentHits \cup PendingHits
             InSegment(h) == \E s \in DOMAIN index.segs : h.tid \in SegTids(index, s)
                                                            /\ h = SegmentHit(s, h.tid)
             InPending(h) == h.tid \in DOMAIN index.pending /\ h = PendingHit(h.tid)
  <1>1. ASSUME NEW h \in SegmentHits
        PROVE  InSegment(h) /\ h \in [tid : Nat, score : Nat] /\ h.tid \in DOMAIN index.heap
    <2>1. PICK s \in DOMAIN index.segs : h \in {SegmentHit(s, x) : x \in MatchedIn(s)}
      BY SegmentHitsAre
    <2>2. PICK x \in SegTids(index, s) : h = SegmentHit(s, x) BY <2>1 DEF MatchedIn
    <2>3. h \in [tid : Nat, score : Nat] /\ h.tid = x /\ x \in DOMAIN index.heap
      BY <2>2, SegmentHitType
    <2> QED BY <2>2, <2>3
  <1>2. ASSUME NEW h \in PendingHits
        PROVE  InPending(h) /\ h \in [tid : Nat, score : Nat] /\ h.tid \in DOMAIN index.heap
    <2>1. PICK x \in DOMAIN index.pending : h = PendingHit(x) BY DEF PendingHits, PendingMatches
    <2>2. h \in [tid : Nat, score : Nat] /\ h.tid = x /\ x \in DOMAIN index.heap
      BY <2>1, PendingHitType
    <2> QED BY <2>1, <2>2
  <1>3. ASSUME NEW g \in H, NEW h \in H, g.tid = h.tid PROVE g = h
    <2>1. CASE InSegment(g) /\ InSegment(h)
      <3>1. PICK s \in DOMAIN index.segs : g.tid \in SegTids(index, s) /\ g = SegmentHit(s, g.tid)
        BY <2>1
      <3>2. PICK r \in DOMAIN index.segs : h.tid \in SegTids(index, r) /\ h = SegmentHit(r, h.tid)
        BY <2>1
      <3>3. s = r BY <1>3, <3>1, <3>2, OneHome
      <3> QED BY <1>3, <3>1, <3>2, <3>3
    <2>2. CASE InPending(g) /\ InPending(h) BY <1>3, <2>2
    <2>3. CASE InSegment(g) /\ InPending(h) BY <1>3, <2>3, NotPending
    <2>4. CASE InPending(g) /\ InSegment(h) BY <1>3, <2>4, NotPending
    <2> HIDE DEF InSegment, InPending
    <2> QED BY <1>1, <1>2, <2>1, <2>2, <2>3, <2>4
  <1>4. \A h \in H : h \in [tid : Nat, score : Nat] /\ h.tid \in DOMAIN index.heap BY <1>1, <1>2
  <1> HIDE DEF H
  <1>5. IsFiniteSet(H)
    <2> DEFINE f == [h \in H |-> h.tid]
               T == DOMAIN index.heap
    <2>1. f \in [H -> T] BY <1>4
    <2>2. \A g, h \in H : f[g] = f[h] => g = h BY <1>3
    <2>3. IsFiniteSet(T) BY DEF RankedCorpus
    <2> HIDE DEF f, T
    <2>4. f \in Injection(H, T) BY <2>1, <2>2, Fun_IsInj
    <2> QED BY <2>3, <2>4, FS_Injection
  <1>6. Ranking(H) BY <1>3, <1>4, <1>5 DEF Ranking
  <1> QED BY <1>6 DEF H

-----------------------------------------------------------------------------
(***************************************************************************)
(* A ranked scan of a Boolean query.                                       *)
(***************************************************************************)
BooleanInv ==
    want # 0 /\ stage # "plan" /\ PureBoolean /\ ~HasModifier =>
        /\ stage # "collect" /\ ~unknown
        /\ stage = "open" => ~walk.filtered /\ walk.gate = BooleanGate
        /\ stage = "walk" => BooleanWalk
        /\ stage = "merge" => top = BestOf(SegmentHits, want)
        /\ stage = "done" => top = BestOf(SegmentHits \cup PendingHits, want)

RankedInv == ScanInv /\ BooleanInv

\* Nothing the result depends on changes when the corpus and the query do not.
LEMMA SameQuery ==
    ASSUME UNCHANGED <<index, query>>
    PROVE  /\ PureBoolean' <=> PureBoolean
           /\ HasModifier' <=> HasModifier
           /\ BooleanGate' = BooleanGate
           /\ SegmentHits' = SegmentHits
           /\ PendingHits' = PendingHits
  <1>1. PureBoolean' <=> PureBoolean BY DEF PureBoolean
  <1>2. HasModifier' <=> HasModifier BY DEF HasModifier
  <1>3. BooleanGate' = BooleanGate BY DEF BooleanGate, PureOr
  <1>4. SegmentHits' = SegmentHits
    BY DEF SegmentHits, SegmentHit, DocScore, TermScore, AllWords
  <1>5. PendingHits' = PendingHits
    BY DEF PendingHits, PendingHit, PendingMatches, PendingLen, DocScore, TermScore, AllWords
  <1> QED BY <1>1, <1>2, <1>3, <1>4, <1>5

LEMMA SameDriver ==
    ASSUME UNCHANGED <<index, query, curs, walk>>
    PROVE  BooleanWalk' <=> BooleanWalk
  BY DEF BooleanWalk, BooleanGate, PureOr, Driver, Cost, Positive, WordsUnder, Ordinal

LEMMA PlansBoolean ==
    ASSUME ScanInv, PlanCollect \/ PlanOr \/ PlanBoolean \/ PlanPhrase
    PROVE  BooleanInv'
  <1>1. UNCHANGED <<index, query>> /\ ~unknown' /\ stage = "plan"
    BY DEF PlanCollect, PlanOr, PlanBoolean, PlanPhrase, Planning, vars, ScanInv
  <1> SUFFICES ASSUME PureBoolean, ~HasModifier PROVE BooleanInv' BY <1>1, SameQuery DEF BooleanInv
  <1>2. CASE PlanOr
    <2>1. stage' = "open" /\ walk' = NoWalk /\ PureOr BY <1>2 DEF PlanOr
    <2>2. ~walk'.filtered /\ walk'.gate = BooleanGate BY <2>1 DEF NoWalk, BooleanGate
    <2> QED BY <1>1, <2>1, <2>2, SameQuery DEF BooleanInv
  <1>3. CASE PlanBoolean
    <2>1. stage' = "open" /\ walk' = Gated("bool") /\ ~PureOr BY <1>3 DEF PlanBoolean
    <2>2. ~walk'.filtered /\ walk'.gate = BooleanGate BY <2>1 DEF Gated, NoWalk, BooleanGate
    <2> QED BY <1>1, <2>1, <2>2, SameQuery DEF BooleanInv
  <1>4. ~PlanCollect /\ ~PlanPhrase BY DEF PlanCollect, PlanPhrase
  <1> QED BY <1>2, <1>3, <1>4

\* NothingAdmitted, of the state a step leads to.
LEMMA NothingAdmittedAt ==
    Setup /\ Boolean /\ query # <<>> /\ ~MayAdmit(curs) => SegmentHits = {}
  BY NothingAdmitted

LEMMA OpensBoolean ==
    ASSUME RankedInv, OpenCursors
    PROVE  BooleanInv'
  <1> USE DEF RankedInv
  <1>1. /\ stage = "open" /\ stage' = IF Walkable(curs', walk.gate) THEN "walk" ELSE "merge"
        /\ UNCHANGED <<index, query, want, top, unknown, block>>
    BY DEF OpenCursors, vars
  <1>2. top = {} /\ ~unknown /\ want # 0 BY <1>1 DEF ScanInv
  <1> SUFFICES ASSUME PureBoolean, ~HasModifier PROVE BooleanInv' BY <1>1, SameQuery DEF BooleanInv
  <1>3. ~walk.filtered /\ walk.gate = BooleanGate BY <1>1, <1>2 DEF BooleanInv
  <1>4. Postfix(query) /\ RankedCorpus(index) /\ want \in Nat \ {0}
    BY <1>1, <1>2, RankedAssumption DEF ScanInv
  <1>5. Boolean /\ Boolean' BY <1>1, <1>4, SameQuery DEF Boolean
  <1>6. /\ walk'.gate = walk.gate /\ walk'.filtered = walk.filtered
        /\ walk'.how = Method(curs', walk.gate, FALSE)
        /\ walk'.drivers = Driver(curs').words
    <2>1. PICK g, f, S :
             walk = [gate |-> g, filtered |-> f, filter |-> S, how |-> "none", drivers |-> {}]
      BY <1>1 DEF ScanInv, Planned
    <2> DEFINE m == Method(curs', walk.gate, walk.filtered)
               ds == Driver(curs').words
    <2>2. walk' = [walk EXCEPT !.how = m, !.drivers = ds] BY DEF OpenCursors
    <2>3. walk.filtered = FALSE
      <3>1. walk.filtered \in BOOLEAN BY <1>1 DEF ScanInv, Planned
      <3> QED BY <1>3, <3>1
    <2>4. m = Method(curs', walk.gate, FALSE) BY <2>3
    <2> HIDE DEF m, ds
    <2>5. walk' = [gate |-> g, filtered |-> f, filter |-> S, how |-> m, drivers |-> ds]
      BY <2>1, <2>2
    <2>6. /\ walk'.gate = walk.gate /\ walk'.filtered = walk.filtered
          /\ walk'.how = m /\ walk'.drivers = ds
      BY <2>1, <2>5
    <2> QED BY <2>4, <2>6 DEF ds
  <1>7. CASE Walkable(curs', walk.gate)
    <2>1. stage' = "walk" BY <1>1, <1>7
    <2>2. walk'.how = "and" => walk'.gate = "bool" /\ OperatorsOf(query) \subseteq {"AND"}
      <3>1. walk.gate # "phrase" BY <1>3 DEF BooleanGate
      <3> QED BY <1>6, <3>1 DEF Method, Conjunctive
    <2>3. walk'.how = "driven" => walk'.gate = "bool" /\ Driver(curs').ok
      BY <1>6 DEF Method
    <2>4. Driver(curs)' = Driver(curs')
      BY <1>1 DEF Driver, Cost, Positive, WordsUnder, Ordinal
    <2>5. BooleanWalk' BY <1>1, <1>3, <1>6, <2>2, <2>3, <2>4, SameQuery DEF BooleanWalk
    <2> QED BY <1>1, <1>2, <2>1, <2>5 DEF BooleanInv
  <1>8. CASE ~Walkable(curs', walk.gate)
    <2>1. stage' = "merge" BY <1>1, <1>8
    <2>2. Setup'
      <3>1. Listed(QueryTerms(query)) BY <1>4, TermsListed
      <3>2. curs' = Cursors(index, QueryTerms(query)) BY DEF OpenCursors
      <3> QED BY <1>1, <1>4, <3>1, <3>2 DEF Setup
    <2>3. ~MayAdmit(curs') /\ walk.gate = "bool"
      BY <1>3, <1>8, Zenon DEF Walkable, BooleanGate
    <2>4. query' # <<>>
      <3> SUFFICES ASSUME query = <<>> PROVE FALSE BY <1>1
      <3>1. PureOr BY DEF PureOr, OperatorsOf
      <3> QED BY <1>3, <2>3, <3>1 DEF BooleanGate
    <2>5. MayAdmit(curs)' <=> MayAdmit(curs') BY <1>1 DEF MayAdmit, BoolAdmits, Ordinal
    <2>6. (Setup /\ Boolean /\ query # <<>> /\ ~MayAdmit(curs) => SegmentHits = {})'
      BY NothingAdmittedAt, PTL
    <2>7. SegmentHits' = {} BY <1>5, <2>2, <2>3, <2>4, <2>5, <2>6
    <2>8. BestOf({}, want) = {} BY DEF BestOf
    <2>9. top' = BestOf(SegmentHits, want)' BY <1>1, <1>2, <2>7, <2>8
    <2> QED BY <1>1, <1>2, <2>1, <2>9 DEF BooleanInv
  <1> QED BY <1>7, <1>8

LEMMA WalksBoolean ==
    ASSUME RankedInv, WalkStep
    PROVE  BooleanInv'
  <1> USE DEF RankedInv
  <1>1. \E how : Walking(how)
    BY Zenon DEF WalkStep, ByDocument, BmwSkipBlock, BmwJump, BmwScore, BmwApproach, MaxScorePass,
           MaxScoreScore, DrivenScore, DenseBlock, BestFirstBlock, AndOpen, AndDocument
  <1>2. stage = "walk" /\ UNCHANGED <<index, query, want, stage, curs, walk>>
    BY <1>1 DEF Walking, vars
  <1>3. want # 0 BY <1>2 DEF ScanInv
  <1> SUFFICES ASSUME PureBoolean, ~HasModifier PROVE BooleanInv' BY <1>2, SameQuery DEF BooleanInv
  <1>4. BooleanWalk /\ ~unknown BY <1>2, <1>3 DEF BooleanInv
  <1>5. BooleanWalk' BY <1>2, <1>4, SameDriver
  <1>6. walk.gate \in {"none", "bool"} BY <1>4 DEF BooleanWalk, BooleanGate
  <1>7. \A pos, d : ~GateVerdict(pos, d).unknown BY <1>6 DEF GateVerdict
  <1>8. ~unknown'
    <2>1. CASE BmwScore \/ MaxScoreScore \/ DrivenScore
      <3>1. PICK pos, d : Offer(pos, d) BY <2>1 DEF BmwScore, MaxScoreScore, DrivenScore
      <3> QED BY <1>4, <1>7, <3>1, Zenon DEF Offer
    <2>2. CASE AndDocument BY <1>6, <2>2, Zenon DEF AndDocument
    <2>3. CASE ~(BmwScore \/ MaxScoreScore \/ DrivenScore \/ AndDocument)
      BY <1>4, <2>3 DEF WalkStep, BmwSkipBlock, BmwJump, BmwApproach, MaxScorePass, DenseBlock,
                  BestFirstBlock, AndOpen
    <2> QED BY <2>1, <2>2, <2>3
  <1> QED BY <1>2, <1>5, <1>8 DEF BooleanInv

LEMMA EndsBoolean ==
    ASSUME RankedInv, EndWalk
    PROVE  BooleanInv'
  <1> USE DEF RankedInv
  <1>1. /\ stage = "walk" /\ UNCHANGED <<index, query, want>> /\ Ended
        /\ ~unknown => stage' = "merge" /\ UNCHANGED <<top, unknown>>
    BY DEF EndWalk, vars
  <1>2. want # 0 /\ Setup /\ HowIs /\ (~unknown => Progress) BY <1>1 DEF ScanInv
  <1> SUFFICES ASSUME PureBoolean, ~HasModifier PROVE BooleanInv' BY <1>1, SameQuery DEF BooleanInv
  <1>3. BooleanWalk /\ ~unknown BY <1>1, <1>2 DEF BooleanInv
  <1>4. Boolean BY <1>1, <1>2 DEF Boolean, ScanInv
  <1>5. top = BestOf(WalkHits, want) BY <1>1, <1>2, <1>3, Ends
  <1>6. top = BestOf(SegmentHits, want) BY <1>2, <1>3, <1>4, <1>5, BooleanWalkHits
  <1> QED BY <1>1, <1>3, <1>6, SameQuery DEF BooleanInv

LEMMA MergesBoolean ==
    ASSUME RankedInv, MergePending
    PROVE  BooleanInv'
  <1> USE DEF RankedInv
  <1>1. /\ stage = "merge" /\ stage' = "done" /\ UNCHANGED <<index, query, want, unknown>>
        /\ top' = BestOf(top \cup PendingHits, want)
    BY DEF MergePending, vars, PendingHits
  <1>2. want # 0 /\ want \in Nat \ {0} /\ Postfix(query) /\ RankedCorpus(index)
    BY <1>1, RankedAssumption DEF ScanInv
  <1> SUFFICES ASSUME PureBoolean, ~HasModifier PROVE BooleanInv' BY <1>1, SameQuery DEF BooleanInv
  <1>3. top = BestOf(SegmentHits, want) /\ ~unknown BY <1>1, <1>2 DEF BooleanInv
  <1>4. Ranking(SegmentHits \cup PendingHits) BY <1>2, TermsListed, AllHitsRank
  <1>5. top' = BestOf(SegmentHits \cup PendingHits, want)
    BY <1>1, <1>2, <1>3, <1>4, BestJoins
  <1> QED BY <1>1, <1>3, <1>5, SameQuery DEF BooleanInv

\* A Boolean query has no match set: the steps of one do not happen.
LEMMA NoMatchSet ==
    ASSUME RankedInv, want = 0 \/ stage = "collect", UNCHANGED <<index, query, want>>
    PROVE  BooleanInv'
  <1>1. CASE want = 0 BY <1>1 DEF BooleanInv
  <1>2. CASE want # 0
    <2> SUFFICES ASSUME PureBoolean, ~HasModifier PROVE FALSE
      BY SameQuery DEF BooleanInv
    <2> QED BY <1>2 DEF RankedInv, BooleanInv
  <1> QED BY <1>1, <1>2

LEMMA BooleanKept ==
    ASSUME RankedInv, [ScanNext]_scanVars
    PROVE  BooleanInv'
  <1> USE DEF RankedInv
  <1>1. CASE UNCHANGED scanVars
    <2>1. UNCHANGED <<index, query, want, stage, curs, walk, unknown, top>>
      BY <1>1 DEF scanVars, vars, ranked
    <2>2. BooleanWalk' <=> BooleanWalk BY <2>1, SameDriver
    <2> QED BY <2>1, <2>2, SameQuery DEF BooleanInv
  <1>2. CASE ParseText /\ UNCHANGED ranked
    <2>1. stage' = "plan" BY <1>2 DEF ParseText, ScanInv, ranked
    <2> QED BY <2>1 DEF BooleanInv
  <1>3. CASE (want = 0 \/ stage = "collect") /\ CollectSegment /\ UNCHANGED ranked
    <2>1. UNCHANGED <<index, query, want>>
      BY <1>3 DEF CollectSegment, SkipSegment, CollectCompoundPattern, CollectFuzzy, CollectRegex,
                  CollectPositional, CollectGeneral, Advance, ranked
    <2> QED BY <1>3, <2>1, NoMatchSet
  <1>4. CASE (want = 0 \/ stage = "collect") /\ CollectPending /\ UNCHANGED ranked
    <2>1. UNCHANGED <<index, query, want>> BY <1>4 DEF CollectPending, ranked
    <2> QED BY <1>4, <2>1, NoMatchSet
  <1>5. CASE want = 0 /\ Recheck /\ UNCHANGED ranked
    <2>1. UNCHANGED <<index, query, want>> BY <1>5 DEF Recheck, ranked
    <2> QED BY <1>5, <2>1, NoMatchSet
  <1>6. CASE PlanCollect \/ PlanOr \/ PlanBoolean \/ PlanPhrase BY <1>6, PlansBoolean
  <1>7. CASE PlanFilter \/ RankExact
    <2>1. UNCHANGED <<index, query, want>> /\ stage = "collect"
      BY <1>7 DEF PlanFilter, RankExact, vars
    <2> QED BY <2>1, NoMatchSet
  <1>8. CASE OpenCursors BY <1>8, OpensBoolean
  <1>9. CASE WalkStep BY <1>9, WalksBoolean
  <1>10. CASE EndWalk BY <1>10, EndsBoolean
  <1>11. CASE MergePending BY <1>11, MergesBoolean
  <1> QED
    BY <1>1, <1>2, <1>3, <1>4, <1>5, <1>6, <1>7, <1>8, <1>9, <1>10, <1>11 DEF ScanNext

\* A ranked scan of words under AND, OR and NOT returns the k best of the
\* documents that match, those of the segments that have a word of the query and
\* those of the pending list, whichever walk it takes (bm25_topk_candidates_range,
\* bool_gate_admits, bool_gate_may_admit, bool_gate_driver, bm25_topk_add_pending).
THEOREM BooleanScansAreExact == ScanSpec => [](PureBoolean /\ ~HasModifier => TopKExact)
  <1>1. ScanInit => RankedInv
    <2>1. ScanInit => stage = "plan" BY DEF ScanInit
    <2> QED BY <2>1, ScanStarts DEF RankedInv, BooleanInv
  <1>2. RankedInv /\ [ScanNext]_scanVars => RankedInv'
    BY ScanKept, BooleanKept DEF RankedInv
  <1>3. RankedInv => (PureBoolean /\ ~HasModifier => TopKExact)
    BY DEF RankedInv, BooleanInv, TopKExact, PendingHits
  <1> QED BY <1>1, <1>2, <1>3, PTL DEF ScanSpec
=============================================================================
