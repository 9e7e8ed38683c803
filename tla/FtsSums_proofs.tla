---------------------------- MODULE FtsSums_proofs ----------------------------
(***************************************************************************)
(* Sums over finite sets, which the statistics of the index and the count  *)
(* fast path are made of: SumFunctionOnSet counts the elements of a pile   *)
(* that has F[x] of them for each x, and so adds, compares and splits the  *)
(* way cardinalities do.                                                   *)
(***************************************************************************)
EXTENDS Naturals, FiniteSets, Functions, FiniteSetTheorems, WellFoundedInduction, TLAPS

\* F[x] elements for each x of S.
Pile(F, S) == UNION {{x} \X (1 .. F[x]) : x \in S}

Counts(F, S) == IsFiniteSet(S) /\ \A x \in S : F[x] \in Nat

\* Induction over a finite set, for the subsets of it that a set G has.
LEMMA FiniteInduction ==
    ASSUME NEW S, IsFiniteSet(S), NEW G, {} \in G,
           \A s \in SUBSET S, x \in S : s \in G /\ x \notin s => s \cup {x} \in G
    PROVE  S \in G
  <1> DEFINE R == StrictSubsetOrdering(S)
             B == {s \in SUBSET S : s \notin G}
  <1>1. IsWellFoundedOn(R, SUBSET S)
    BY FS_StrictSubsetOrderingWellFounded, FS_FiniteSubsetsOfFinite
  <1>2. \A s \in SUBSET S : \A x \in s : <<s \ {x}, s>> \in R
    BY DEF StrictSubsetOrdering
  <1> HIDE DEF R
  <1>3. SUFFICES ASSUME S \notin G PROVE FALSE OBVIOUS
  <1>4. B \subseteq SUBSET S /\ B # {} BY <1>3
  <1>5. PICK s \in B : \A t \in B : <<t, s>> \notin R
    BY <1>1, <1>4, WFMin
  <1>6. s # {} OBVIOUS
  <1>7. PICK x \in s : TRUE BY <1>6
  <1>8. s \ {x} \in G BY <1>2, <1>5, <1>7
  <1>9. (s \ {x}) \cup {x} = s BY <1>7
  <1> QED BY <1>7, <1>8, <1>9

LEMMA UnionSize ==
    ASSUME NEW S, NEW T, IsFiniteSet(S), IsFiniteSet(T), S \cap T = {}
    PROVE  /\ IsFiniteSet(S \cup T)
           /\ Cardinality(S \cup T) = Cardinality(S) + Cardinality(T)
  <1>1. Cardinality(S) \in Nat /\ Cardinality(T) \in Nat BY FS_CardinalityType
  <1>2. Cardinality(S \cap T) = 0 BY FS_EmptySet
  <1>3. /\ IsFiniteSet(S \cup T)
        /\ Cardinality(S \cup T) = Cardinality(S) + Cardinality(T) - Cardinality(S \cap T)
    BY FS_Union
  <1> QED BY <1>1, <1>2, <1>3

LEMMA PileEmpty ==
    ASSUME NEW F
    PROVE  Pile(F, {}) = {}
  BY DEF Pile

\* One more element adds as many as F has for it.
LEMMA PileAdd ==
    ASSUME NEW F, NEW s, NEW x, x \notin s, F[x] \in Nat, IsFiniteSet(Pile(F, s))
    PROVE  /\ IsFiniteSet(Pile(F, s \cup {x}))
           /\ Cardinality(Pile(F, s \cup {x})) = Cardinality(Pile(F, s)) + F[x]
  <1> DEFINE new == {x} \X (1 .. F[x])
  <1>1. Pile(F, s \cup {x}) = Pile(F, s) \cup new BY DEF Pile
  <1>2. Pile(F, s) \cap new = {} BY DEF Pile
  <1>3. IsFiniteSet({x}) /\ Cardinality({x}) = 1 BY FS_Singleton
  <1>4. IsFiniteSet(1 .. F[x]) /\ Cardinality(1 .. F[x]) = F[x] BY FS_Interval
  <1>5. IsFiniteSet(new) /\ Cardinality(new) = F[x]
    <2>1. IsFiniteSet(new) /\ Cardinality(new) = Cardinality({x}) * Cardinality(1 .. F[x])
      BY <1>3, <1>4, FS_Product
    <2>2. 1 * F[x] = F[x] OBVIOUS
    <2> QED BY <1>3, <1>4, <2>1, <2>2
  <1> HIDE DEF new
  <1>6. Cardinality(Pile(F, s) \cup new) = Cardinality(Pile(F, s)) + Cardinality(new)
    BY <1>2, <1>5, UnionSize
  <1>7. IsFiniteSet(Pile(F, s) \cup new) BY <1>2, <1>5, UnionSize
  <1> QED BY <1>1, <1>5, <1>6, <1>7

LEMMA PileFinite ==
    ASSUME NEW F, NEW S, Counts(F, S)
    PROVE  IsFiniteSet(Pile(F, S)) /\ Cardinality(Pile(F, S)) \in Nat
  <1> DEFINE G == {s \in SUBSET S : IsFiniteSet(Pile(F, s))}
  <1>1. {} \in G BY PileEmpty, FS_EmptySet
  <1>2. \A s \in SUBSET S, x \in S : s \in G /\ x \notin s => s \cup {x} \in G
    BY PileAdd DEF Counts
  <1>3. S \in G BY <1>1, <1>2, FiniteInduction DEF Counts
  <1> QED BY <1>3, FS_CardinalityType

\* What SumFunctionOnSet stands for.
Pick(s) == CHOOSE x \in s : TRUE
Iterates(F, S, g) ==
    g = [s \in SUBSET S |-> IF s = {} THEN 0 ELSE F[Pick(s)] + g[s \ {Pick(s)}]]

LEMMA SumUnfold ==
    ASSUME NEW F, NEW S
    PROVE  SumFunctionOnSet(F, S) = (CHOOSE g : Iterates(F, S, g))[S]
  BY DEF SumFunctionOnSet, FoldFunctionOnSet, MapThenFoldSet, Iterates, Pick

\* A pile that loses an element loses what F has for it.
LEMMA PileRemove ==
    ASSUME NEW F, NEW S, Counts(F, S), NEW s \in SUBSET S, s # {}
    PROVE  /\ Pick(s) \in s
           /\ Cardinality(Pile(F, s)) = F[Pick(s)] + Cardinality(Pile(F, s \ {Pick(s)}))
  <1> DEFINE x == Pick(s)
             t == s \ {x}
  <1>1. x \in s BY DEF Pick
  <1>2. IsFiniteSet(t) BY FS_Subset DEF Counts
  <1>3. Counts(F, t) BY <1>2 DEF Counts
  <1>4. IsFiniteSet(Pile(F, t)) /\ Cardinality(Pile(F, t)) \in Nat BY <1>3, PileFinite
  <1>5. x \notin t /\ t \cup {x} = s /\ F[x] \in Nat BY <1>1 DEF Counts
  <1>6. Cardinality(Pile(F, t \cup {x})) = Cardinality(Pile(F, t)) + F[x]
    BY <1>4, <1>5, PileAdd
  <1>7. Cardinality(Pile(F, s)) = Cardinality(Pile(F, t)) + F[x] BY <1>5, <1>6
  <1> QED BY <1>1, <1>4, <1>5, <1>7

\* The function that adds up exists, and gives the size of the pile.
LEMMA IterationExists ==
    ASSUME NEW F, NEW S, Counts(F, S)
    PROVE  \E g : Iterates(F, S, g)
  <1> DEFINE h == [s \in SUBSET S |-> Cardinality(Pile(F, s))]
  <1>1. ASSUME NEW s \in SUBSET S
        PROVE  h[s] = IF s = {} THEN 0 ELSE F[Pick(s)] + h[s \ {Pick(s)}]
    <2>1. CASE s = {} BY <2>1, PileEmpty, FS_EmptySet
    <2>2. CASE s # {}
      <3>1. s \ {Pick(s)} \in SUBSET S OBVIOUS
      <3> QED BY <2>2, <3>1, PileRemove
    <2> QED BY <2>1, <2>2
  <1>2. h = [s \in SUBSET S |-> h[s]] OBVIOUS
  <1> HIDE DEF h
  <1>3. Iterates(F, S, h) BY <1>1, <1>2 DEF Iterates
  <1> QED BY <1>3

LEMMA IterationIsPile ==
    ASSUME NEW F, NEW S, Counts(F, S), NEW g, Iterates(F, S, g)
    PROVE  g[S] = Cardinality(Pile(F, S))
  <1> DEFINE R == StrictSubsetOrdering(S)
             B == {s \in SUBSET S : g[s] # Cardinality(Pile(F, s))}
  <1>1. IsWellFoundedOn(R, SUBSET S)
    BY FS_StrictSubsetOrderingWellFounded, FS_FiniteSubsetsOfFinite DEF Counts
  <1>2. \A s \in SUBSET S : \A x \in s : <<s \ {x}, s>> \in R
    BY DEF StrictSubsetOrdering
  <1>0. \A s \in SUBSET S : g[s] = IF s = {} THEN 0 ELSE F[Pick(s)] + g[s \ {Pick(s)}]
    BY DEF Iterates
  <1> HIDE DEF R
  <1>3. SUFFICES ASSUME S \in B PROVE FALSE OBVIOUS
  <1>4. B \subseteq SUBSET S /\ B # {} BY <1>3
  <1>5. PICK s \in B : \A t \in B : <<t, s>> \notin R
    BY <1>1, <1>4, WFMin
  <1>6. s # {} BY <1>0, PileEmpty, FS_EmptySet
  <1>7. Pick(s) \in s /\ Cardinality(Pile(F, s)) = F[Pick(s)] + Cardinality(Pile(F, s \ {Pick(s)}))
    BY <1>6, PileRemove
  <1>8. s \ {Pick(s)} \notin B BY <1>2, <1>5, <1>7
  <1>9. g[s \ {Pick(s)}] = Cardinality(Pile(F, s \ {Pick(s)})) BY <1>8
  <1>10. g[s] = F[Pick(s)] + g[s \ {Pick(s)}] BY <1>0, <1>6
  <1> QED BY <1>7, <1>9, <1>10

\* SumFunctionOnSet counts the pile.
LEMMA SumIsPile ==
    ASSUME NEW F, NEW S, Counts(F, S)
    PROVE  SumFunctionOnSet(F, S) = Cardinality(Pile(F, S))
  <1>1. Iterates(F, S, CHOOSE g : Iterates(F, S, g)) BY IterationExists
  <1>2. (CHOOSE g : Iterates(F, S, g))[S] = Cardinality(Pile(F, S))
    BY <1>1, IterationIsPile
  <1> QED BY <1>2, SumUnfold

-----------------------------------------------------------------------------
(* What the other proofs use. *)

LEMMA SumType ==
    ASSUME NEW F, NEW S, Counts(F, S)
    PROVE  SumFunctionOnSet(F, S) \in Nat
  BY SumIsPile, PileFinite

LEMMA SumEmpty ==
    ASSUME NEW F
    PROVE  SumFunctionOnSet(F, {}) = 0
  <1>1. Counts(F, {}) BY FS_EmptySet DEF Counts
  <1> QED BY <1>1, SumIsPile, PileEmpty, FS_EmptySet

LEMMA SumAdd ==
    ASSUME NEW F, NEW S, NEW x, x \notin S, Counts(F, S \cup {x})
    PROVE  SumFunctionOnSet(F, S \cup {x}) = SumFunctionOnSet(F, S) + F[x]
  <1>1. IsFiniteSet(S) BY FS_Subset DEF Counts
  <1>2. Counts(F, S) /\ F[x] \in Nat BY <1>1 DEF Counts
  <1>3. IsFiniteSet(Pile(F, S)) BY <1>2, PileFinite
  <1> QED BY <1>2, <1>3, PileAdd, SumIsPile

\* Equal summands, equal sums.
LEMMA SumSame ==
    ASSUME NEW F, NEW G, NEW S, Counts(F, S), \A x \in S : F[x] = G[x]
    PROVE  SumFunctionOnSet(F, S) = SumFunctionOnSet(G, S)
  <1>1. Pile(F, S) = Pile(G, S) BY DEF Pile
  <1>2. Counts(G, S) BY DEF Counts
  <1> QED BY <1>1, <1>2, SumIsPile

LEMMA SumMonotone ==
    ASSUME NEW F, NEW G, NEW S, Counts(F, S), Counts(G, S), \A x \in S : F[x] <= G[x]
    PROVE  SumFunctionOnSet(F, S) <= SumFunctionOnSet(G, S)
  <1>1. \A x \in S : (1 .. F[x]) \subseteq (1 .. G[x]) BY DEF Counts
  <1>2. Pile(F, S) \subseteq Pile(G, S) BY <1>1 DEF Pile
  <1> QED BY <1>2, FS_Subset, SumIsPile, PileFinite

\* The sum over two sets that have nothing in common is the sum of their sums.
LEMMA SumUnion ==
    ASSUME NEW F, NEW S, NEW T, S \cap T = {}, Counts(F, S), Counts(F, T)
    PROVE  SumFunctionOnSet(F, S \cup T) = SumFunctionOnSet(F, S) + SumFunctionOnSet(F, T)
  <1>1. Pile(F, S \cup T) = Pile(F, S) \cup Pile(F, T) BY DEF Pile
  <1>2. Pile(F, S) \cap Pile(F, T) = {} BY DEF Pile
  <1>3. Counts(F, S \cup T) BY FS_Union DEF Counts
  <1>4. IsFiniteSet(Pile(F, S)) /\ IsFiniteSet(Pile(F, T)) BY PileFinite
  <1>5. Cardinality(Pile(F, S) \cup Pile(F, T)) = Cardinality(Pile(F, S)) + Cardinality(Pile(F, T))
    BY <1>2, <1>4, UnionSize
  <1> QED BY <1>1, <1>3, <1>5, SumIsPile

LEMMA SumSubset ==
    ASSUME NEW F, NEW S, NEW T \in SUBSET S, Counts(F, S)
    PROVE  SumFunctionOnSet(F, T) <= SumFunctionOnSet(F, S)
  <1>1. Pile(F, T) \subseteq Pile(F, S) BY DEF Pile
  <1>2. IsFiniteSet(T) BY FS_Subset DEF Counts
  <1>3. Counts(F, T) BY <1>2 DEF Counts
  <1> QED BY <1>1, <1>3, FS_Subset, SumIsPile, PileFinite

\* Sets that have nothing in common: D[x] for each x of S, of F[x] elements.
Whole(D, S) == UNION {D[x] : x \in S}
Sizes(D, F, S) ==
    /\ IsFiniteSet(S)
    /\ \A x \in S : IsFiniteSet(D[x]) /\ F[x] = Cardinality(D[x])
    /\ \A x, y \in S : x # y => D[x] \cap D[y] = {}

LEMMA SumOfSizes ==
    ASSUME NEW D, NEW F, NEW S, Sizes(D, F, S)
    PROVE  /\ IsFiniteSet(Whole(D, S))
           /\ SumFunctionOnSet(F, S) = Cardinality(Whole(D, S))
  <1> USE DEF Sizes
  <1> DEFINE All(s) == UNION {D[x] : x \in s}
             G == {s \in SUBSET S : /\ IsFiniteSet(All(s))
                                    /\ SumFunctionOnSet(F, s) = Cardinality(All(s))}
  <1>1. {} \in G BY SumEmpty, FS_EmptySet
  <1>2. ASSUME NEW s \in SUBSET S, NEW x \in S, s \in G, x \notin s
        PROVE  s \cup {x} \in G
    <2>1. All(s \cup {x}) = All(s) \cup D[x] OBVIOUS
    <2>2. All(s) \cap D[x] = {} BY <1>2
    <2>3. s \cup {x} \in SUBSET S OBVIOUS
    <2>4. IsFiniteSet(s \cup {x}) BY <2>3, FS_Subset
    <2>5. \A y \in S : F[y] \in Nat BY FS_CardinalityType
    <2>6. Counts(F, s \cup {x}) BY <2>3, <2>4, <2>5 DEF Counts
    <2>7. SumFunctionOnSet(F, s \cup {x}) = SumFunctionOnSet(F, s) + F[x] BY <1>2, <2>6, SumAdd
    <2>8. IsFiniteSet(All(s)) /\ SumFunctionOnSet(F, s) = Cardinality(All(s)) BY <1>2
    <2> HIDE DEF All
    <2>9. IsFiniteSet(D[x]) /\ F[x] = Cardinality(D[x]) OBVIOUS
    <2>10. /\ IsFiniteSet(All(s) \cup D[x])
           /\ Cardinality(All(s) \cup D[x]) = Cardinality(All(s)) + Cardinality(D[x])
      BY <2>2, <2>8, <2>9, UnionSize
    <2> QED BY <2>1, <2>3, <2>7, <2>8, <2>9, <2>10
  <1>3. \A s \in SUBSET S, x \in S : s \in G /\ x \notin s => s \cup {x} \in G BY <1>2
  <1>4. S \in G BY <1>1, <1>3, FiniteInduction
  <1> QED BY <1>4 DEF Whole
===============================================================================
