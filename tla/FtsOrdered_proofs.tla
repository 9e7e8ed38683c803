-------------------------- MODULE FtsOrdered_proofs --------------------------
(***************************************************************************)
(* Theorems about FtsOrdered, for any documents and any factors: types and *)
(* the bound on the hits under whatever writes interleave, and, while the  *)
(* order of the documents does not depend on the collection, that batches  *)
(* are prefixes of one another and the scan returns every row.             *)
(***************************************************************************)
EXTENDS FtsOrdered, FunctionTheorems, FiniteSetTheorems, SequenceTheorems, TLAPS

Indexed == With("pending") \cup With("segment")

\* A live row is indexed, a row that is not there has no posting.
RowsIndexed == \A d \in Docs : /\ row[d] = "live" => d \in Indexed
                               /\ row[d] = "none" => posting[d] = "none"

\* What a snapshot sees stays in the index.
SnapIndexed == \A d \in scan.snap : row[d] # "none" /\ d \in Indexed

\* ndocs is the number of indexed documents; their lengths are in sumdoclen.
CorpusCounted == stat.ndocs = Cardinality(Indexed) /\ (stat.ndocs > 0 => stat.sumdoclen > 0)

\* Before the first batch there is nothing, and N bounds the snapshot.
NothingYet == /\ scan.pc = "idle" => scan = NoScan
              /\ scan.pc = "bound" => /\ Cardinality(scan.snap) <= scan.maxhits
                                      /\ scan.ordered = <<>> /\ scan.pos = 0
                                      /\ scan.returned = <<>>

OrderedInv == /\ TypeOK /\ RowsIndexed /\ SnapIndexed /\ CorpusCounted
              /\ NothingYet /\ BoundHolds

\* The place of a document of the snapshot, under any statistics of a
\* collection that is not empty.
OneDoc == [ndocs |-> 1, sumdoclen |-> 1]
Place(d) == Rank(d, scan.snap, OneDoc)

\* A sequence of the first documents of the snapshot, in order.
FirstOf(s) == \A i \in 1..Len(s) : s[i] \in scan.snap /\ Place(s[i]) = i - 1

Batching == scan.pc \in {"batch", "pull", "done"} =>
                /\ scan.curk > 0 /\ FirstOf(scan.returned) /\ Len(scan.returned) = scan.pos
Resumable == scan.pc = "batch" => scan.pos <= Smaller(scan.curk, Cardinality(scan.snap))
Pulling == scan.pc = "pull" =>
               /\ FirstOf(scan.ordered) /\ scan.pos <= Len(scan.ordered)
               /\ Len(scan.ordered) = Smaller(scan.curk, Cardinality(scan.snap))
Finished == scan.pc = "done" => scan.pos = Cardinality(scan.snap)

ExactInv == Batching /\ Resumable /\ Pulling /\ Finished

-----------------------------------------------------------------------------
(* The order of the documents *)

LEMMA DocTypes == /\ IsFiniteSet(Docs) /\ Docs \subseteq Nat
                  /\ \A d \in Docs : Tf[d] \in Nat /\ Tf[d] > 0 /\ DocLen[d] \in Nat /\ DocLen[d] > 0
  <1>1. Docs = 1..NDocs BY DEF Docs
  <1>2. IsFiniteSet(Docs) BY <1>1, DocsAssumption, FS_Interval
  <1> QED BY <1>1, <1>2, DocsAssumption

Stats == {st \in [ndocs : Nat, sumdoclen : Nat] : st.sumdoclen > 0}

LEMMA WeightPositive ==
    ASSUME NEW st \in Stats, NEW d \in Docs
    PROVE  Weight(d, st) \in Nat /\ Weight(d, st) > 0
  <1>1. st.ndocs \in Nat /\ st.sumdoclen \in Nat /\ st.sumdoclen > 0 BY DEF Stats
  <1>2. 3 * DocLen[d] * st.ndocs \in Nat BY <1>1, DocTypes
  <1>3. \A m \in Nat : st.sumdoclen + m \in Nat /\ st.sumdoclen + m > 0 BY <1>1
  <1> QED BY <1>2, <1>3 DEF Weight

LEMMA TimesMonotone ==
    ASSUME NEW m \in Nat, NEW n \in Nat, NEW k \in Nat, k > 0
    PROVE  /\ m * k \in Nat /\ n * k \in Nat
           /\ m >= n <=> m * k >= n * k
           /\ m = n <=> m * k = n * k
  OBVIOUS

\* Ratios compare like numbers: a/p >= b/q and b/q >= c/r give a/p >= c/r.
LEMMA RatioTransitive ==
    ASSUME NEW a \in Nat, NEW b \in Nat, NEW c \in Nat,
           NEW p \in Nat \ {0}, NEW q \in Nat \ {0}, NEW r \in Nat \ {0},
           a * q >= b * p, b * r >= c * q
    PROVE  /\ a * r >= c * p
           /\ a * r = c * p => a * q = b * p /\ b * r = c * q
  <1>t. a * q \in Nat /\ b * p \in Nat /\ b * r \in Nat /\ c * q \in Nat /\ a * r \in Nat /\ c * p \in Nat
    OBVIOUS
  <1>1. (a * q) * r >= (b * p) * r BY <1>t, TimesMonotone
  <1>2. (b * r) * p >= (c * q) * p BY <1>t, TimesMonotone
  <1>3. /\ (a * q) * r = (a * r) * q /\ (b * p) * r = (b * r) * p
        /\ (c * q) * p = (c * p) * q
    OBVIOUS
  <1>n. /\ (a * r) * q \in Nat /\ (b * r) * p \in Nat /\ (c * p) * q \in Nat BY <1>t
  <1> DEFINE x == (a * r) * q
             y == (b * r) * p
             z == (c * p) * q
  <1>4. x \in Nat /\ y \in Nat /\ z \in Nat /\ x >= y /\ y >= z BY <1>1, <1>2, <1>3, <1>n
  <1> HIDE DEF x, y, z
  <1>5. x >= z /\ (x = z => x = y /\ y = z) BY <1>4
  <1>6. a * r >= c * p BY <1>5, <1>t, TimesMonotone DEF x, z
  <1>7. ASSUME a * r = c * p PROVE a * q = b * p /\ b * r = c * q
    <2>1. x = z BY <1>7 DEF x, z
    <2>2. (a * q) * r = (b * p) * r /\ (b * r) * p = (c * q) * p BY <2>1, <1>5, <1>3 DEF x, y, z
    <2>3. a * q = b * p BY <2>2, <1>t, TimesMonotone
    <2>4. b * r = c * q BY <2>2, <1>t, TimesMonotone
    <2> QED BY <2>3, <2>4
  <1> QED BY <1>6, <1>7

\* Scores compared without division: tf over weight.
LEMMA AheadOrders ==
    ASSUME NEW st \in Stats, NEW d \in Docs, NEW e \in Docs, NEW f \in Docs
    PROVE  /\ ~Ahead(d, d, st)
           /\ d # e => (Ahead(d, e, st) <=> ~Ahead(e, d, st))
           /\ Ahead(d, e, st) /\ Ahead(e, f, st) => Ahead(d, f, st)
  <1> DEFINE a == Tf[d]  b == Tf[e]  c == Tf[f]
             p == Weight(d, st)  q == Weight(e, st)  r == Weight(f, st)
  <1>1. /\ a \in Nat /\ b \in Nat /\ c \in Nat
        /\ p \in Nat \ {0} /\ q \in Nat \ {0} /\ r \in Nat \ {0}
        /\ d \in Nat /\ e \in Nat /\ f \in Nat
    BY DocTypes, WeightPositive
  <1>2. /\ Ahead(d, d, st) <=> (a * p > a * p \/ (a * p = a * p /\ d < d))
        /\ Ahead(d, e, st) <=> (a * q > b * p \/ (a * q = b * p /\ d < e))
        /\ Ahead(e, d, st) <=> (b * p > a * q \/ (b * p = a * q /\ e < d))
        /\ Ahead(e, f, st) <=> (b * r > c * q \/ (b * r = c * q /\ e < f))
        /\ Ahead(d, f, st) <=> (a * r > c * p \/ (a * r = c * p /\ d < f))
    BY DEF Ahead
  <1> HIDE DEF a, b, c, p, q, r
  <1>3. /\ a * p \in Nat /\ a * q \in Nat /\ b * p \in Nat /\ b * r \in Nat
        /\ c * q \in Nat /\ a * r \in Nat /\ c * p \in Nat
    BY <1>1
  <1>4. ~Ahead(d, d, st) BY <1>1, <1>2, <1>3
  <1>5. d # e => (Ahead(d, e, st) <=> ~Ahead(e, d, st)) BY <1>1, <1>2, <1>3
  <1>6. ASSUME Ahead(d, e, st), Ahead(e, f, st) PROVE Ahead(d, f, st)
    <2>1. a * q >= b * p /\ b * r >= c * q BY <1>6, <1>2, <1>3
    <2>2. /\ a * r >= c * p
          /\ a * r = c * p => a * q = b * p /\ b * r = c * q
      BY <2>1, <1>1, RatioTransitive
    <2> QED BY <2>2, <1>6, <1>1, <1>2, <1>3
  <1> QED BY <1>4, <1>5, <1>6

-----------------------------------------------------------------------------
(* Ranks *)

LEMMA RankType ==
    ASSUME NEW S \in SUBSET Docs, NEW st \in Stats, NEW d \in Docs
    PROVE  /\ IsFiniteSet(S) /\ Cardinality(S) \in Nat
           /\ Rank(d, S, st) \in Nat /\ Rank(d, S, st) <= Cardinality(S)
           /\ d \in S => Rank(d, S, st) < Cardinality(S)
  <1> DEFINE B == {e \in S : Ahead(e, d, st)}
  <1>1. IsFiniteSet(S) /\ Cardinality(S) \in Nat BY DocTypes, FS_Subset, FS_CardinalityType
  <1>2. /\ IsFiniteSet(B) /\ Cardinality(B) \in Nat /\ Cardinality(B) <= Cardinality(S)
        /\ Cardinality(S) = Cardinality(B) => S = B
    <2>1. B \in SUBSET S OBVIOUS
    <2> HIDE DEF B
    <2> QED BY <2>1, <1>1, FS_Subset, FS_CardinalityType
  <1>3. d \in S => S # B BY AheadOrders
  <1>4. Rank(d, S, st) = Cardinality(B) BY DEF Rank
  <1> HIDE DEF B
  <1> QED BY <1>1, <1>2, <1>3, <1>4

\* Who is ahead has the smaller rank.
LEMMA RankMonotone ==
    ASSUME NEW S \in SUBSET Docs, NEW st \in Stats, NEW d \in S, NEW e \in S, Ahead(d, e, st)
    PROVE  Rank(d, S, st) < Rank(e, S, st)
  <1> DEFINE B == {f \in S : Ahead(f, d, st)}
             C == {f \in S : Ahead(f, e, st)}
  <1>1. B \subseteq C BY AheadOrders
  <1>2. d \in C /\ d \notin B BY AheadOrders
  <1>3. C \in SUBSET Docs /\ Rank(d, S, st) = Cardinality(B) /\ Rank(e, S, st) = Cardinality(C)
    BY DEF Rank
  <1> HIDE DEF B, C
  <1>4. IsFiniteSet(C) BY <1>3, DocTypes, FS_Subset
  <1>5. Cardinality(B) <= Cardinality(C) /\ Cardinality(B) # Cardinality(C)
    BY <1>1, <1>2, <1>4, FS_Subset
  <1>6. Cardinality(B) \in Nat /\ Cardinality(C) \in Nat
    BY <1>1, <1>4, FS_Subset, FS_CardinalityType
  <1> QED BY <1>3, <1>5, <1>6

LEMMA RankAhead ==
    ASSUME NEW S \in SUBSET Docs, NEW st \in Stats, NEW d \in S, NEW e \in S
    PROVE  /\ Rank(d, S, st) = Rank(e, S, st) => d = e
           /\ Ahead(d, e, st) <=> Rank(d, S, st) < Rank(e, S, st)
  <1>1. d \in Docs /\ e \in Docs OBVIOUS
  <1>2. Rank(d, S, st) \in Nat /\ Rank(e, S, st) \in Nat BY <1>1, RankType
  <1>3. d = e => ~Ahead(d, e, st) BY <1>1, AheadOrders
  <1>4. d # e => (Ahead(d, e, st) <=> ~Ahead(e, d, st)) BY <1>1, AheadOrders
  <1>5. Ahead(d, e, st) => Rank(d, S, st) < Rank(e, S, st) BY RankMonotone
  <1>6. Ahead(e, d, st) => Rank(e, S, st) < Rank(d, S, st) BY RankMonotone
  <1> QED BY <1>2, <1>3, <1>4, <1>5, <1>6

\* Every rank below the number of documents is taken.
LEMMA RankTaken ==
    ASSUME NEW S \in SUBSET Docs, NEW st \in Stats, NEW n \in Nat, n < Cardinality(S)
    PROVE  \E d \in S : Rank(d, S, st) = n
  <1> DEFINE T == 0..(Cardinality(S) - 1)
             f == [d \in S |-> Rank(d, S, st)]
  <1>1. IsFiniteSet(S) /\ Cardinality(S) \in Nat BY DocTypes, FS_Subset, FS_CardinalityType
  <1>m. Cardinality(S) - 1 \in Int /\ (0 > Cardinality(S) - 1 => Cardinality(S) = 0) BY <1>1
  <1>2. IsFiniteSet(T) /\ Cardinality(T) = Cardinality(S) BY <1>1, <1>m, FS_Interval
  <1>3. f \in [S -> T] BY <1>1, RankType
  <1>4. \A d, e \in S : f[d] = f[e] => d = e BY RankAhead
  <1>5. n \in T BY <1>1
  <1> HIDE DEF T
  <1>6. f \in Injection(S, T)
    <2> HIDE DEF f
    <2> QED BY <1>3, <1>4, Fun_IsInj
  <1>7. f \in Surjection(S, T)
    <2> HIDE DEF f
    <2> QED BY <1>1, <1>2, <1>6, FS_Injection
  <1>8. \E d \in S : f[d] = n
    <2> HIDE DEF f
    <2> QED BY <1>5, <1>7, Fun_SurjectionProperties
  <1> QED BY <1>8

\* Best is the k first documents, or all.
LEMMA BestSize ==
    ASSUME NEW S \in SUBSET Docs, NEW st \in Stats, NEW k \in Nat
    PROVE  /\ Best(S, k, st) \in SUBSET S /\ IsFiniteSet(Best(S, k, st))
           /\ Cardinality(Best(S, k, st)) = Smaller(k, Cardinality(S))
           /\ k >= Cardinality(S) => Best(S, k, st) = S
  <1> DEFINE B == Best(S, k, st)
             n == Smaller(k, Cardinality(S))
             T == 0..(n - 1)
             f == [d \in B |-> Rank(d, S, st)]
  <1>1. IsFiniteSet(S) /\ Cardinality(S) \in Nat BY DocTypes, FS_Subset, FS_CardinalityType
  <1>2. B \in SUBSET S /\ \A d \in S : d \in B <=> Rank(d, S, st) < k BY DEF Best
  <1>3. \A d \in S : Rank(d, S, st) \in Nat /\ Rank(d, S, st) < Cardinality(S) BY RankType
  <1>4. n \in Nat /\ n <= k /\ n <= Cardinality(S) /\ (n = k \/ n = Cardinality(S))
    BY <1>1 DEF Smaller
  <1>n. n = Smaller(k, Cardinality(S)) OBVIOUS
  <1> HIDE DEF B, n
  <1>5. IsFiniteSet(T) /\ Cardinality(T) = n BY <1>4, FS_Interval
  <1>6. IsFiniteSet(B) BY <1>1, <1>2, FS_Subset
  <1>7. f \in [B -> T]
    <2>1. \A d \in B : Rank(d, S, st) \in T BY <1>1, <1>2, <1>3, <1>4
    <2> QED BY <2>1
  <1>8. \A d, e \in B : f[d] = f[e] => d = e BY <1>2, RankAhead
  <1>9. \A t \in T : \E d \in B : f[d] = t
    <2> TAKE t \in T
    <2>1. t \in Nat /\ t < Cardinality(S) /\ t < k BY <1>1, <1>4
    <2>2. PICK d \in S : Rank(d, S, st) = t BY <2>1, RankTaken
    <2>3. d \in B BY <2>1, <2>2, <1>2
    <2> WITNESS d \in B
    <2> QED BY <2>2, <2>3
  <1>10. ExistsBijection(B, T)
    <2> HIDE DEF f, T
    <2>1. f \in Bijection(B, T) BY <1>7, <1>8, <1>9, Fun_IsBij
    <2> QED BY <2>1 DEF ExistsBijection
  <1>11. Cardinality(B) = n
    <2> HIDE DEF T
    <2> QED BY <1>5, <1>6, <1>10, FS_Bijection
  <1>12. k >= Cardinality(S) => B = S BY <1>1, <1>2, <1>3
  <1> QED BY <1>2, <1>6, <1>11, <1>12, <1>n DEF B

\* What is below some rank keeps its rank when the rest is left out.
LEMMA RankWithin ==
    ASSUME NEW S \in SUBSET Docs, NEW st \in Stats, NEW T \in SUBSET S,
           \A d \in T : \A e \in S : Ahead(e, d, st) => e \in T
    PROVE  \A d \in T : Rank(d, T, st) = Rank(d, S, st)
  <1> TAKE d \in T
  <1>1. {e \in T : Ahead(e, d, st)} = {e \in S : Ahead(e, d, st)} OBVIOUS
  <1> QED BY <1>1 DEF Rank

\* The documents of Best in order: the first of S.
LEMMA RankedBest ==
    ASSUME NEW S \in SUBSET Docs, NEW st \in Stats, NEW k \in Nat
    PROVE  LET s == Ranked(Best(S, k, st), st)
           IN  /\ s \in Seq(S) /\ Len(s) = Smaller(k, Cardinality(S))
               /\ \A i \in 1..Len(s) : s[i] \in S /\ Rank(s[i], S, st) = i - 1
  <1> DEFINE B == Best(S, k, st)
             n == Cardinality(B)
             s == Ranked(B, st)
  <1>1. B \in SUBSET S /\ B \in SUBSET Docs /\ n \in Nat /\ n = Smaller(k, Cardinality(S))
    BY BestSize, FS_CardinalityType
  <1>2. \A d \in B : \A e \in S : Ahead(e, d, st) => e \in B
    <2> SUFFICES ASSUME NEW d \in B, NEW e \in S, Ahead(e, d, st) PROVE e \in B OBVIOUS
    <2>1. d \in S /\ Rank(d, S, st) < k BY DEF Best
    <2>2. Rank(e, S, st) < Rank(d, S, st) BY <2>1, RankMonotone
    <2>3. Rank(e, S, st) \in Nat /\ Rank(d, S, st) \in Nat BY <2>1, RankType
    <2>4. Rank(e, S, st) < k BY <2>1, <2>2, <2>3
    <2> QED BY <2>4 DEF Best
  <1>s. s = [i \in 1..n |-> CHOOSE d \in B : Rank(d, B, st) = i - 1] BY DEF Ranked
  <1> HIDE DEF B
  <1>3. \A d \in B : Rank(d, B, st) = Rank(d, S, st) BY <1>1, <1>2, RankWithin
  <1>4. \A i \in 1..n : s[i] \in B /\ Rank(s[i], B, st) = i - 1
    <2> TAKE i \in 1..n
    <2>1. i - 1 \in Nat /\ i - 1 < n BY <1>1
    <2>2. \E d \in B : Rank(d, B, st) = i - 1 BY <2>1, <1>1, RankTaken
    <2>3. s[i] = CHOOSE d \in B : Rank(d, B, st) = i - 1 BY <1>s
    <2> QED BY <2>2, <2>3
  <1>5. s \in [1..n -> S]
    <2>1. \A i \in 1..n : s[i] \in S BY <1>1, <1>4
    <2>2. DOMAIN s = 1..n /\ s = [i \in 1..n |-> s[i]] BY <1>s
    <2> HIDE DEF s, n
    <2> QED BY <2>1, <2>2
  <1> HIDE DEF s, n
  <1>6. s \in Seq(S) /\ Len(s) = n BY <1>1, <1>5
  <1>7. \A i \in 1..n : s[i] \in S /\ Rank(s[i], S, st) = i - 1 BY <1>1, <1>3, <1>4
  <1> QED BY <1>1, <1>6, <1>7 DEF s, B

-----------------------------------------------------------------------------
(* A batch *)

\* However many candidates a round asked for, the batch it settles on is the
\* k first documents of the snapshot: either k of them were seen, or the
\* candidates were all there are.
LEMMA BatchIsBest ==
    ASSUME NEW A \in SUBSET Docs, NEW S \in SUBSET A, NEW st \in Stats,
           NEW w \in Nat, NEW k \in Nat,
           LET vis == Best(Best(A, w, st) \cap S, k, st)
           IN  Cardinality(vis) = k \/ w >= Cardinality(A)
    PROVE  Best(Best(A, w, st) \cap S, k, st) = Best(S, k, st)
  <1> DEFINE C == Best(A, w, st) \cap S
  <1>1. C \in SUBSET S /\ C \in SUBSET Docs /\ S \in SUBSET Docs OBVIOUS
  <1>2. \A d \in C : \A e \in S : Ahead(e, d, st) => e \in C
    <2> SUFFICES ASSUME NEW d \in C, NEW e \in S, Ahead(e, d, st) PROVE e \in C OBVIOUS
    <2>1. d \in A /\ e \in A /\ Rank(d, A, st) < w BY DEF Best
    <2>2. Rank(e, A, st) < Rank(d, A, st) BY <2>1, RankMonotone
    <2>3. Rank(e, A, st) \in Nat /\ Rank(d, A, st) \in Nat BY <2>1, RankType
    <2>4. Rank(e, A, st) < w BY <2>1, <2>2, <2>3
    <2> QED BY <2>1, <2>4 DEF Best
  <1>3. \A d \in C : Rank(d, C, st) = Rank(d, S, st) BY <1>1, <1>2, RankWithin
  <1>4. Best(C, k, st) = Best(S, k, st) \cap C BY <1>1, <1>3 DEF Best
  <1>5. w >= Cardinality(A) => C = S BY BestSize
  <1>6. ASSUME Cardinality(Best(C, k, st)) = k PROVE Best(C, k, st) = Best(S, k, st)
    <2>1. Best(C, k, st) \in SUBSET Best(S, k, st) BY <1>4
    <2>2. IsFiniteSet(Best(S, k, st)) /\ Cardinality(Best(S, k, st)) = Smaller(k, Cardinality(S))
      BY <1>1, BestSize
    <2>3. Cardinality(S) \in Nat BY <1>1, RankType, DocTypes, FS_Subset, FS_CardinalityType
    <2>4. Cardinality(Best(S, k, st)) <= k BY <2>2, <2>3 DEF Smaller
    <2>5. k <= Cardinality(Best(S, k, st)) BY <2>1, <2>2, <1>6, FS_Subset
    <2>6. Cardinality(Best(S, k, st)) = k BY <2>2, <2>3, <2>4, <2>5 DEF Smaller
    <2> QED BY <2>1, <2>2, <2>6, <1>6, FS_Subset
  <1>7. Cardinality(Best(C, k, st)) = k \/ w >= Cardinality(A) OBVIOUS
  <1> HIDE DEF C
  <1>8. Best(C, k, st) = Best(S, k, st) BY <1>5, <1>6, <1>7
  <1> QED BY <1>8 DEF C

\* Under Steady the order is the same in every collection that is not empty.
LEMMA SteadyOrder ==
    ASSUME Steady, NEW st \in Stats, st.ndocs > 0, NEW d \in Docs, NEW e \in Docs
    PROVE  Ahead(d, e, st) <=> Ahead(d, e, OneDoc)
  <1>1. OneDoc \in Stats /\ OneDoc.ndocs = 1 /\ OneDoc.sumdoclen = 1 BY DEF OneDoc, Stats
  <1>2. ASSUME NEW su \in Stats, su.ndocs > 0, NEW f \in Docs, NEW g \in Docs,
               f # g, Dominates(f, g)
        PROVE  Ahead(f, g, su)
    <2> DEFINE a == Tf[f]  b == Tf[g]  l == DocLen[f]  m == DocLen[g]
               s == su.sumdoclen  n == su.ndocs
    <2>1. /\ a \in Nat /\ b \in Nat /\ l \in Nat /\ m \in Nat /\ s \in Nat /\ n \in Nat
          /\ a > 0 /\ b > 0 /\ l > 0 /\ m > 0 /\ s > 0 /\ n > 0 /\ f \in Nat /\ g \in Nat
      BY <1>2, DocTypes DEF Stats
    <2>2. a >= b /\ a * m >= b * l /\ (a = b /\ l = m => f < g) BY <1>2, <2>1 DEF Dominates
    <2>3. /\ Ahead(f, g, su) <=> \/ a * (s + 3 * m * n) > b * (s + 3 * l * n)
                                 \/ a * (s + 3 * m * n) = b * (s + 3 * l * n) /\ f < g
      BY DEF Ahead, Weight
    <2> HIDE DEF a, b, l, m, s, n
    <2>4. /\ a * s \in Nat /\ b * s \in Nat /\ (a * m) * n \in Nat /\ (b * l) * n \in Nat
          /\ a * m \in Nat /\ b * l \in Nat
      BY <2>1
    <2>5. /\ a * (s + 3 * m * n) = a * s + 3 * ((a * m) * n)
          /\ b * (s + 3 * l * n) = b * s + 3 * ((b * l) * n)
      BY <2>1
    <2>6. a * s >= b * s /\ (a * s = b * s <=> a = b) BY <2>1, <2>2, TimesMonotone
    <2>7. (a * m) * n >= (b * l) * n /\ ((a * m) * n = (b * l) * n <=> a * m = b * l)
      BY <2>1, <2>2, <2>4, TimesMonotone
    <2>8. a = b /\ a * m = b * l => l = m
      <3>1. a = b /\ a * m = b * l => m * b = l * b BY <2>1
      <3> QED BY <3>1, <2>1, TimesMonotone
    <2>9. \/ a * s + 3 * ((a * m) * n) > b * s + 3 * ((b * l) * n)
          \/ a * s = b * s /\ (a * m) * n = (b * l) * n
      BY <2>4, <2>6, <2>7
    <2> QED
      <3>1. CASE a * s + 3 * ((a * m) * n) > b * s + 3 * ((b * l) * n) BY <3>1, <2>3, <2>5
      <3>2. CASE a * s = b * s /\ (a * m) * n = (b * l) * n
        <4>1. f < g BY <3>2, <2>2, <2>6, <2>7, <2>8
        <4> QED BY <4>1, <3>2, <2>3, <2>5
      <3> QED BY <3>1, <3>2, <2>9
  <1>3. CASE d = e BY <1>1, <1>3, AheadOrders
  <1>4. CASE d # e
    <2>1. Dominates(d, e) \/ Dominates(e, d) BY <1>4 DEF Steady
    <2>2. Dominates(d, e) => Ahead(d, e, st) /\ Ahead(d, e, OneDoc) BY <1>1, <1>2, <1>4
    <2>3. Dominates(e, d) => Ahead(e, d, st) /\ Ahead(e, d, OneDoc) BY <1>1, <1>2, <1>4
    <2> QED BY <1>1, <1>4, <2>1, <2>2, <2>3, AheadOrders
  <1> QED BY <1>3, <1>4

LEMMA SteadyRank ==
    ASSUME Steady, NEW st \in Stats, st.ndocs > 0, NEW S \in SUBSET Docs, NEW d \in Docs
    PROVE  Rank(d, S, st) = Rank(d, S, OneDoc)
  <1>1. {e \in S : Ahead(e, d, st)} = {e \in S : Ahead(e, d, OneDoc)} BY SteadyOrder
  <1> QED BY <1>1 DEF Rank

-----------------------------------------------------------------------------
(* Types, the corpus and the bound on the hits *)

LEMMA IndexedFinite ==
    /\ Indexed \in SUBSET Docs /\ IsFiniteSet(Indexed) /\ Cardinality(Indexed) \in Nat
  <1>1. Indexed \in SUBSET Docs BY DEF Indexed, With
  <1> QED BY <1>1, DocTypes, FS_Subset, FS_CardinalityType

\* A set of indexed documents has no more than N, and there is one only in a
\* collection that is not empty.
LEMMA SnapCounted ==
    ASSUME TypeOK, CorpusCounted, NEW S \in SUBSET Indexed
    PROVE  /\ S \in SUBSET Docs /\ IsFiniteSet(S) /\ Cardinality(S) \in Nat
           /\ Cardinality(S) <= stat.ndocs
           /\ S # {} => stat \in Stats /\ stat.ndocs > 0
  <1>1. IsFiniteSet(S) /\ Cardinality(S) <= Cardinality(Indexed) /\ S \in SUBSET Docs
    BY IndexedFinite, FS_Subset
  <1>2. Cardinality(S) \in Nat /\ (S # {} => Cardinality(S) # 0)
    BY <1>1, FS_CardinalityType, FS_EmptySet
  <1>3. stat \in [ndocs : Nat, sumdoclen : Nat] /\ stat.ndocs \in Nat BY DEF TypeOK
  <1>4. S # {} => stat.ndocs > 0 BY <1>1, <1>2, <1>3 DEF CorpusCounted
  <1> QED BY <1>1, <1>2, <1>3, <1>4 DEF CorpusCounted, Stats

\* The writers leave the scan alone and keep what is not dead or is seen.
LEMMA WritersKeep ==
    ASSUME OrderedInv, scan' = scan, TypeOK', RowsIndexed', CorpusCounted', SnapIndexed'
    PROVE  OrderedInv'
  BY DEF OrderedInv, NothingYet, BoundHolds, NoScan

LEMMA InsertKeeps ==
    ASSUME OrderedInv, NEW d \in Docs, Insert(d)
    PROVE  OrderedInv'
  <1>1. TypeOK /\ RowsIndexed /\ SnapIndexed /\ CorpusCounted BY DEF OrderedInv
  <1>2. /\ row[d] = "none" /\ row' = [row EXCEPT ![d] = "live"]
        /\ posting' = [posting EXCEPT ![d] = "pending"] /\ scan' = scan
        /\ stat' = [ndocs |-> stat.ndocs + 1, sumdoclen |-> stat.sumdoclen + DocLen[d]]
    BY DEF Insert
  <1>3. stat.ndocs \in Nat /\ stat.sumdoclen \in Nat /\ DocLen[d] \in Nat /\ DocLen[d] > 0
    BY <1>1, DocTypes DEF TypeOK
  <1>4. TypeOK' BY <1>1, <1>2, <1>3 DEF TypeOK
  <1>5. posting[d] = "none" BY <1>1, <1>2 DEF RowsIndexed
  <1>6. Indexed' = Indexed \cup {d} /\ d \notin Indexed
    BY <1>1, <1>2, <1>5 DEF Indexed, With, TypeOK
  <1>7. Cardinality(Indexed') = Cardinality(Indexed) + 1 BY <1>6, IndexedFinite, FS_AddElement
  <1>8. CorpusCounted'
    <2>1. stat'.ndocs = stat.ndocs + 1 /\ stat'.sumdoclen = stat.sumdoclen + DocLen[d] BY <1>2
    <2>2. stat'.sumdoclen > 0 BY <2>1, <1>3
    <2> QED BY <2>1, <2>2, <1>1, <1>7 DEF CorpusCounted
  <1>9. RowsIndexed' /\ SnapIndexed'
    BY <1>1, <1>2, <1>6 DEF RowsIndexed, SnapIndexed, TypeOK
  <1> QED BY <1>2, <1>4, <1>8, <1>9, WritersKeep

LEMMA DeleteKeeps ==
    ASSUME OrderedInv, NEW d \in Docs, Delete(d)
    PROVE  OrderedInv'
  <1>1. TypeOK /\ RowsIndexed /\ SnapIndexed /\ CorpusCounted BY DEF OrderedInv
  <1>2. /\ row[d] = "live" /\ row' = [row EXCEPT ![d] = "dead"]
        /\ posting' = posting /\ stat' = stat /\ scan' = scan
    BY DEF Delete
  <1>3. TypeOK' BY <1>1, <1>2 DEF TypeOK
  <1>4. Indexed' = Indexed BY <1>2 DEF Indexed, With
  <1>5. CorpusCounted' BY <1>1, <1>2, <1>4 DEF CorpusCounted
  <1>6. RowsIndexed' /\ SnapIndexed'
    BY <1>1, <1>2, <1>4 DEF RowsIndexed, SnapIndexed, TypeOK
  <1> QED BY <1>2, <1>3, <1>5, <1>6, WritersKeep

\* A change of postings that keeps all documents indexed but those in D,
\* which are dead and not seen.
LEMMA PostingsKeep ==
    ASSUME OrderedInv, row' = row, scan' = scan, NEW D \in SUBSET Indexed,
           \A d \in D : row[d] = "dead" /\ d \notin scan.snap,
           posting' \in [Docs -> {"none", "pending", "segment", "tombstoned"}],
           \A d \in Docs : posting[d] = "none" => posting'[d] = "none",
           Indexed' = Indexed \ D,
           stat' = [stat EXCEPT !.ndocs = @ - Cardinality(D)]
    PROVE  OrderedInv'
  <1>1. TypeOK /\ RowsIndexed /\ SnapIndexed /\ CorpusCounted BY DEF OrderedInv
  <1>2. /\ IsFiniteSet(D) /\ Cardinality(D) \in Nat /\ Cardinality(D) <= stat.ndocs
    BY <1>1, SnapCounted
  <1>3. stat \in [ndocs : Nat, sumdoclen : Nat] /\ stat.ndocs \in Nat /\ stat.sumdoclen \in Nat
    BY <1>1 DEF TypeOK
  <1>4. /\ stat'.ndocs = stat.ndocs - Cardinality(D) /\ stat'.sumdoclen = stat.sumdoclen
        /\ stat' = [ndocs |-> stat.ndocs - Cardinality(D), sumdoclen |-> stat.sumdoclen]
    BY <1>3
  <1>5. stat.ndocs - Cardinality(D) \in Nat BY <1>2, <1>3
  <1>6. stat' \in [ndocs : Nat, sumdoclen : Nat] BY <1>3, <1>4, <1>5
  <1>7. TypeOK' BY <1>1, <1>6 DEF TypeOK
  <1>8. Cardinality(Indexed \ D) = Cardinality(Indexed) - Cardinality(D)
    <2>1. (Indexed \ D) \cup D = Indexed /\ (Indexed \ D) \cap D = {} OBVIOUS
    <2>2. IsFiniteSet(Indexed \ D) /\ Cardinality(Indexed \ D) \in Nat
      BY IndexedFinite, FS_Subset, FS_CardinalityType
    <2>3. Cardinality((Indexed \ D) \cup D) =
            Cardinality(Indexed \ D) + Cardinality(D) - Cardinality((Indexed \ D) \cap D)
      BY <2>2, <1>2, FS_Union
    <2>4. Cardinality((Indexed \ D) \cap D) = 0 BY <2>1, FS_EmptySet
    <2>5. Cardinality(Indexed) = Cardinality(Indexed \ D) + Cardinality(D) - 0
      BY <2>1, <2>3, <2>4
    <2> QED BY <2>2, <2>5, <1>2
  <1>9. CorpusCounted'
    <2>1. Cardinality(Indexed') = stat.ndocs - Cardinality(D) BY <1>1, <1>8 DEF CorpusCounted
    <2>2. stat'.ndocs > 0 => stat.ndocs > 0 BY <1>2, <1>3, <1>4
    <2> QED BY <2>1, <2>2, <1>1, <1>4 DEF CorpusCounted
  <1>10. RowsIndexed' /\ SnapIndexed' BY <1>1 DEF RowsIndexed, SnapIndexed
  <1> QED BY <1>7, <1>9, <1>10, WritersKeep

LEMMA MaintenanceKeeps ==
    ASSUME OrderedInv, Flush \/ Vacuum \/ Merge
    PROVE  OrderedInv'
  <1>1. TypeOK BY DEF OrderedInv
  <1>s. stat \in [ndocs : Nat, sumdoclen : Nat] /\ stat.ndocs \in Nat BY <1>1 DEF TypeOK
  <1>2. [stat EXCEPT !.ndocs = @ - Cardinality({})] = stat
    <2>1. stat.ndocs - Cardinality({}) = stat.ndocs BY <1>s, FS_EmptySet
    <2> QED BY <2>1, <1>s
  <1>3. CASE Flush
    <2>1. /\ row' = row /\ scan' = scan /\ stat' = stat
          /\ posting' = [d \in Docs |-> IF posting[d] = "pending" THEN "segment" ELSE posting[d]]
      BY <1>3 DEF Flush, Flushed
    <2>2. Indexed' = Indexed \ {} BY <2>1 DEF Indexed, With
    <2>3. /\ posting' \in [Docs -> {"none", "pending", "segment", "tombstoned"}]
          /\ \A d \in Docs : posting[d] = "none" => posting'[d] = "none"
      BY <1>1, <2>1 DEF TypeOK
    <2>4. {} \in SUBSET Indexed /\ \A d \in {} : row[d] = "dead" /\ d \notin scan.snap OBVIOUS
    <2> QED BY <1>2, <2>1, <2>2, <2>3, <2>4, PostingsKeep
  <1>4. CASE Merge
    <2>1. /\ row' = row /\ scan' = scan /\ stat' = stat
          /\ posting' = [d \in Docs |-> IF posting[d] = "tombstoned" THEN "none" ELSE posting[d]]
      BY <1>4 DEF Merge
    <2>2. Indexed' = Indexed \ {} BY <2>1 DEF Indexed, With
    <2>3. /\ posting' \in [Docs -> {"none", "pending", "segment", "tombstoned"}]
          /\ \A d \in Docs : posting[d] = "none" => posting'[d] = "none"
      BY <1>1, <2>1 DEF TypeOK
    <2>4. {} \in SUBSET Indexed /\ \A d \in {} : row[d] = "dead" /\ d \notin scan.snap OBVIOUS
    <2> QED BY <1>2, <2>1, <2>2, <2>3, <2>4, PostingsKeep
  <1>5. CASE Vacuum
    <2>1. /\ row' = row /\ scan' = scan /\ stat' = [stat EXCEPT !.ndocs = @ - Cardinality(Gone)]
          /\ posting' = [d \in Docs |-> IF d \in Gone THEN "tombstoned"
                                        ELSE IF posting[d] = "pending" THEN "segment" ELSE posting[d]]
      BY <1>5 DEF Vacuum, Flushed
    <2>2. /\ Gone \in SUBSET Indexed
          /\ \A d \in Gone : row[d] = "dead" /\ d \notin scan.snap /\ posting[d] # "none"
      BY DEF Gone, Indexed, With
    <2>3. Indexed' = Indexed \ Gone
      <3>1. \A d \in Docs : d \in Indexed' <=> posting'[d] \in {"pending", "segment"}
        BY DEF Indexed, With
      <3>2. \A d \in Docs : d \in Indexed <=> posting[d] \in {"pending", "segment"}
        BY DEF Indexed, With
      <3>3. \A d \in Docs : d \in Indexed' <=> d \in Indexed /\ d \notin Gone
        <4> TAKE d \in Docs
        <4>1. CASE d \in Gone BY <4>1, <2>1, <3>1
        <4>2. CASE d \notin Gone BY <4>2, <2>1, <3>1, <3>2
        <4> QED BY <4>1, <4>2
      <3>4. Indexed' \in SUBSET Docs /\ Indexed \in SUBSET Docs BY DEF Indexed, With
      <3> QED BY <3>3, <3>4
    <2>4. /\ posting' \in [Docs -> {"none", "pending", "segment", "tombstoned"}]
          /\ \A d \in Docs : posting[d] = "none" => posting'[d] = "none"
      BY <1>1, <2>1, <2>2 DEF TypeOK
    <2> QED BY <2>1, <2>2, <2>3, <2>4, PostingsKeep
  <1> QED BY <1>3, <1>4, <1>5

LEMMA ScanFields ==
    ASSUME TypeOK
    PROVE  /\ scan = [pc |-> scan.pc, snap |-> scan.snap, maxhits |-> scan.maxhits,
                      curk |-> scan.curk, wantk |-> scan.wantk, ordered |-> scan.ordered,
                      pos |-> scan.pos, returned |-> scan.returned]
           /\ scan.snap \in SUBSET Docs /\ scan.maxhits \in Nat /\ scan.curk \in Nat
           /\ scan.wantk \in Nat /\ scan.ordered \in Seq(Docs) /\ scan.pos \in Nat
           /\ scan.returned \in Seq(Docs)
  BY DEF TypeOK, Scans

\* The scan leaves the rest alone.
LEMMA ScansKeep ==
    ASSUME OrderedInv, row' = row, posting' = posting, stat' = stat,
           scan' \in Scans, scan'.snap = scan.snap, scan'.pc \in {"batch", "pull", "done"},
           Cardinality(scan.snap) <= scan'.maxhits
    PROVE  OrderedInv'
  <1>1. TypeOK /\ RowsIndexed /\ SnapIndexed /\ CorpusCounted BY DEF OrderedInv
  <1>2. Indexed' = Indexed BY DEF Indexed, With
  <1>3. TypeOK' BY <1>1 DEF TypeOK
  <1>4. RowsIndexed' /\ SnapIndexed' /\ CorpusCounted'
    BY <1>1, <1>2 DEF RowsIndexed, SnapIndexed, CorpusCounted
  <1>5. NothingYet' /\ BoundHolds' BY DEF NothingYet, BoundHolds
  <1> QED BY <1>3, <1>4, <1>5 DEF OrderedInv

LEMMA BeginKeeps ==
    ASSUME OrderedInv, Begin
    PROVE  OrderedInv'
  <1>1. TypeOK /\ RowsIndexed /\ SnapIndexed /\ CorpusCounted /\ NothingYet BY DEF OrderedInv
  <1> DEFINE L == {d \in Docs : row[d] = "live"}
             n == Larger(stat.ndocs, 1)
  <1>2. /\ row' = row /\ posting' = posting /\ stat' = stat /\ scan = NoScan
        /\ scan' = [scan EXCEPT !.pc = "bound", !.snap = L, !.maxhits = n]
    BY <1>1 DEF Begin, NothingYet
  <1>3. L \in SUBSET Indexed /\ L \in SUBSET Docs /\ \A d \in L : row[d] # "none"
    BY <1>1 DEF RowsIndexed
  <1>4. stat.ndocs \in Nat /\ n \in Nat /\ n >= stat.ndocs BY <1>1 DEF TypeOK, Larger
  <1> HIDE DEF L, n
  <1>5. Cardinality(L) \in Nat /\ Cardinality(L) <= n
    BY <1>1, <1>3, <1>4, SnapCounted
  <1>6. scan' = [pc |-> "bound", snap |-> L, maxhits |-> n, curk |-> 0, wantk |-> 0,
                 ordered |-> <<>>, pos |-> 0, returned |-> <<>>]
    BY <1>2 DEF NoScan
  <1>7. /\ scan'.pc = "bound" /\ scan'.snap = L /\ scan'.maxhits = n /\ scan'.ordered = <<>>
        /\ scan'.pos = 0 /\ scan'.returned = <<>> /\ scan' \in Scans
    BY <1>3, <1>4, <1>6 DEF Scans
  <1>8. Indexed' = Indexed BY <1>2 DEF Indexed, With
  <1>9. TypeOK' BY <1>1, <1>2, <1>7 DEF TypeOK
  <1>10. RowsIndexed' /\ SnapIndexed' /\ CorpusCounted'
    BY <1>1, <1>2, <1>3, <1>7, <1>8 DEF RowsIndexed, SnapIndexed, CorpusCounted
  <1>11. NothingYet' /\ BoundHolds' BY <1>5, <1>7 DEF NothingYet, BoundHolds
  <1> QED BY <1>9, <1>10, <1>11 DEF OrderedInv

LEMMA BoundKeeps ==
    ASSUME OrderedInv, Bound
    PROVE  OrderedInv' /\ scan'.curk > 0 /\ scan'.pos = 0 /\ scan'.returned = <<>>
                       /\ scan'.pc = "batch" /\ scan'.snap = scan.snap
  <1>1. TypeOK /\ SnapIndexed /\ CorpusCounted /\ NothingYet BY DEF OrderedInv
  <1> DEFINE hits == MaxHits(scan.maxhits)
             k == Capped(FirstK, hits)
             T == With("segment") \cup With("tombstoned")
  <1>2. PICK w \in FirstWant(k) :
            scan' = [scan EXCEPT !.pc = "batch", !.maxhits = hits, !.curk = k, !.wantk = w]
    BY DEF Bound
  <1>3. scan.pc = "bound" /\ row' = row /\ posting' = posting /\ stat' = stat BY DEF Bound
  <1>4. Cardinality(scan.snap) <= scan.maxhits /\ scan.pos = 0 /\ scan.returned = <<>>
    BY <1>1, <1>3 DEF NothingYet
  <1>5. scan.maxhits \in Nat /\ scan.snap \in SUBSET Docs BY <1>1, ScanFields
  <1>6. IsFiniteSet(T) /\ Cardinality(T) \in Nat
    <2>1. T \in SUBSET Docs BY DEF With
    <2> HIDE DEF T
    <2> QED BY <2>1, DocTypes, FS_Subset, FS_CardinalityType
  <1>7. With("pending") = {} => scan.snap \in SUBSET T BY <1>1 DEF SnapIndexed, Indexed
  <1>8. With("pending") = {} => Cardinality(scan.snap) <= Cardinality(T)
    <2> HIDE DEF T
    <2> QED BY <1>6, <1>7, FS_Subset
  <1>9. hits \in Nat /\ Cardinality(scan.snap) <= hits
    <2>1. hits = IF With("pending") # {} THEN scan.maxhits
                 ELSE Smaller(Cardinality(T), scan.maxhits)
      BY DEF MaxHits
    <2> HIDE DEF T, hits
    <2> QED BY <2>1, <1>4, <1>5, <1>6, <1>8 DEF Smaller
  <1> HIDE DEF hits, T
  <1>10. k \in Nat /\ k > 0 BY <1>9, FactorsAssumption DEF Capped, Larger
  <1> HIDE DEF k
  <1>11. w \in Nat BY <1>10, FactorsAssumption DEF FirstWant, Larger
  <1>12. /\ scan'.pc = "batch" /\ scan'.maxhits = hits /\ scan'.curk = k /\ scan'.snap = scan.snap
         /\ scan'.pos = scan.pos /\ scan'.returned = scan.returned
    BY <1>1, <1>2 DEF TypeOK, Scans
  <1>13. scan' \in Scans BY <1>1, <1>2, <1>9, <1>10, <1>11 DEF TypeOK, Scans
  <1>14. OrderedInv' BY <1>3, <1>9, <1>12, <1>13, ScansKeep
  <1> QED BY <1>4, <1>10, <1>12, <1>14

\* What a finished round settles on.
Visible == Best(Candidates(scan.wantk) \cap scan.snap, scan.curk, stat)

LEMMA VisibleSequence ==
    ASSUME OrderedInv
    PROVE  /\ Ranked(Visible, stat) \in Seq(Docs)
           /\ scan.snap = {} => Ranked(Visible, stat) = <<>>
  <1>1. TypeOK /\ SnapIndexed /\ CorpusCounted BY DEF OrderedInv
  <1> DEFINE S == Candidates(scan.wantk) \cap scan.snap
  <1>2. S \in SUBSET scan.snap /\ scan.snap \in SUBSET Docs /\ S \in SUBSET Docs
    BY <1>1, ScanFields
  <1>3. scan.snap \in SUBSET Indexed BY <1>1 DEF SnapIndexed
  <1>4. scan.curk \in Nat BY <1>1, ScanFields
  <1>5. Visible = Best(S, scan.curk, stat) BY DEF Visible
  <1> HIDE DEF S
  <1>6. CASE scan.snap = {}
    <2>1. Visible = {} BY <1>2, <1>5, <1>6 DEF Best
    <2>2. Cardinality(Visible) = 0 BY <2>1, FS_EmptySet
    <2>3. Ranked(Visible, stat) = [i \in 1..0 |-> CHOOSE d \in Visible : Rank(d, Visible, stat) = i - 1]
      BY <2>2 DEF Ranked
    <2>4. Ranked(Visible, stat) = <<>> BY <2>3
    <2> QED BY <2>4
  <1>7. CASE scan.snap # {}
    <2>1. stat \in Stats BY <1>1, <1>3, <1>7, SnapCounted
    <2>2. Ranked(Visible, stat) \in Seq(S) BY <1>2, <1>4, <1>5, <2>1, RankedBest
    <2>3. Seq(S) \subseteq Seq(Docs) BY <1>2
    <2> QED BY <1>7, <2>2, <2>3
  <1> QED BY <1>6, <1>7

LEMMA GenerateKeeps ==
    ASSUME OrderedInv, Generate
    PROVE  /\ OrderedInv' /\ scan'.snap = scan.snap /\ scan'.curk = scan.curk
           /\ scan'.pos = scan.pos /\ scan'.returned = scan.returned
           /\ \/ scan'.pc = "batch"
              \/ /\ scan'.pc = "pull" /\ scan'.ordered = Ranked(Visible, stat)
                 /\ ~Short(Cardinality(Visible), Cardinality(Candidates(scan.wantk)))
  <1>1. TypeOK /\ BoundHolds BY DEF OrderedInv
  <1>2. scan.pc = "batch" /\ row' = row /\ posting' = posting /\ stat' = stat BY DEF Generate
  <1>3. Cardinality(scan.snap) <= scan.maxhits BY <1>1, <1>2 DEF BoundHolds
  <1>4. /\ scan.curk \in Nat /\ scan.wantk \in Nat /\ scan.maxhits \in Nat BY <1>1, ScanFields
  <1>5. ASSUME scan' = [scan EXCEPT !.wantk = Smaller(2 * @, WantCap(scan.curk))]
        PROVE  OrderedInv' /\ scan'.pc = "batch" /\ scan'.snap = scan.snap /\ scan'.curk = scan.curk
               /\ scan'.pos = scan.pos /\ scan'.returned = scan.returned
    <2> DEFINE w == Smaller(2 * scan.wantk, WantCap(scan.curk))
    <2>1. w \in Nat BY <1>4, FactorsAssumption DEF Smaller, WantCap, Larger
    <2>2. scan' = [scan EXCEPT !.wantk = w] BY <1>5
    <2> HIDE DEF w
    <2>3. /\ scan'.pc = scan.pc /\ scan'.snap = scan.snap /\ scan'.maxhits = scan.maxhits
          /\ scan'.curk = scan.curk /\ scan'.pos = scan.pos /\ scan'.returned = scan.returned
      BY <1>1, <2>2 DEF TypeOK, Scans
    <2>4. scan' \in Scans BY <1>1, <2>1, <2>2 DEF TypeOK, Scans
    <2> QED BY <1>2, <1>3, <2>3, <2>4, ScansKeep
  <1>6. ASSUME scan' = [scan EXCEPT !.pc = "pull", !.ordered = Ranked(Visible, stat)]
        PROVE  OrderedInv' /\ scan'.pc = "pull" /\ scan'.snap = scan.snap /\ scan'.curk = scan.curk
               /\ scan'.pos = scan.pos /\ scan'.returned = scan.returned
               /\ scan'.ordered = Ranked(Visible, stat)
    <2> DEFINE s == Ranked(Visible, stat)
    <2>1. s \in Seq(Docs) BY VisibleSequence
    <2>2. scan' = [scan EXCEPT !.pc = "pull", !.ordered = s] BY <1>6
    <2> HIDE DEF s
    <2>3. /\ scan'.pc = "pull" /\ scan'.snap = scan.snap /\ scan'.maxhits = scan.maxhits
          /\ scan'.curk = scan.curk /\ scan'.pos = scan.pos /\ scan'.returned = scan.returned
          /\ scan'.ordered = s
      BY <1>1, <2>2 DEF TypeOK, Scans
    <2>4. scan' \in Scans BY <1>1, <2>1, <2>2 DEF TypeOK, Scans
    <2> QED BY <1>2, <1>3, <2>3, <2>4, ScansKeep DEF s
  <1>7. \/ scan' = [scan EXCEPT !.wantk = Smaller(2 * @, WantCap(scan.curk))]
        \/ /\ scan' = [scan EXCEPT !.pc = "pull", !.ordered = Ranked(Visible, stat)]
           /\ ~Short(Cardinality(Visible), Cardinality(Candidates(scan.wantk)))
    BY DEF Generate, Visible
  <1> QED BY <1>5, <1>6, <1>7

LEMMA ReturnKeeps ==
    ASSUME OrderedInv, Return
    PROVE  /\ OrderedInv' /\ scan'.snap = scan.snap /\ scan'.curk = scan.curk /\ scan'.pc = "pull"
           /\ scan'.pos = scan.pos + 1 /\ scan'.ordered = scan.ordered
           /\ scan'.returned = Append(scan.returned, scan.ordered[scan.pos + 1])
  <1>1. TypeOK /\ BoundHolds BY DEF OrderedInv
  <1>2. /\ scan.pc = "pull" /\ row' = row /\ posting' = posting /\ stat' = stat
        /\ scan.pos < Len(scan.ordered)
        /\ scan' = [scan EXCEPT !.pos = scan.pos + 1,
                                !.returned = Append(scan.returned, scan.ordered[scan.pos + 1])]
    BY DEF Return
  <1>3. Cardinality(scan.snap) <= scan.maxhits BY <1>1, <1>2 DEF BoundHolds
  <1>4. scan.pos \in Nat /\ scan.ordered \in Seq(Docs) /\ scan.returned \in Seq(Docs)
    BY <1>1, ScanFields
  <1>5. scan.ordered[scan.pos + 1] \in Docs BY <1>2, <1>4
  <1> DEFINE r == Append(scan.returned, scan.ordered[scan.pos + 1])
  <1>6. r \in Seq(Docs) BY <1>4, <1>5
  <1>7. scan' = [scan EXCEPT !.pos = scan.pos + 1, !.returned = r] BY <1>2
  <1> HIDE DEF r
  <1>8. /\ scan'.pc = scan.pc /\ scan'.snap = scan.snap /\ scan'.maxhits = scan.maxhits
        /\ scan'.curk = scan.curk /\ scan'.pos = scan.pos + 1 /\ scan'.returned = r
        /\ scan'.ordered = scan.ordered
    BY <1>1, <1>7 DEF TypeOK, Scans
  <1>9. scan' \in Scans
    <2>1. scan.pos + 1 \in Nat BY <1>4
    <2>2. scan' = [pc |-> scan.pc, snap |-> scan.snap, maxhits |-> scan.maxhits,
                   curk |-> scan.curk, wantk |-> scan.wantk, ordered |-> scan.ordered,
                   pos |-> scan.pos + 1, returned |-> r]
      BY <1>1, <1>7 DEF TypeOK, Scans
    <2> QED BY <1>1, <1>6, <2>1, <2>2 DEF TypeOK, Scans
  <1> QED BY <1>2, <1>3, <1>8, <1>9, ScansKeep DEF r

LEMMA GrowKeeps ==
    ASSUME OrderedInv, Grow
    PROVE  /\ OrderedInv' /\ scan'.snap = scan.snap /\ scan'.pc = "batch"
           /\ scan'.pos = scan.pos /\ scan'.returned = scan.returned
           /\ scan'.curk \in Nat /\ scan'.curk >= scan.curk
  <1>1. TypeOK /\ BoundHolds BY DEF OrderedInv
  <1> DEFINE k == Capped(scan.curk * Growth, scan.maxhits)
  <1>2. PICK w \in FirstWant(k) :
            scan' = [scan EXCEPT !.pc = "batch", !.curk = k, !.wantk = w, !.pos = Resume]
    BY DEF Grow
  <1>3. /\ scan.pc = "pull" /\ row' = row /\ posting' = posting /\ stat' = stat
        /\ scan.curk < scan.maxhits
    BY DEF Grow, More
  <1>4. Cardinality(scan.snap) <= scan.maxhits BY <1>1, <1>3 DEF BoundHolds
  <1>5. scan.curk \in Nat /\ scan.maxhits \in Nat /\ scan.pos \in Nat BY <1>1, ScanFields
  <1>6. scan.curk * Growth \in Nat /\ scan.curk * Growth >= scan.curk
    <2>1. Growth \in Nat /\ Growth >= 1 BY FactorsAssumption
    <2>2. scan.curk * Growth = scan.curk * (Growth - 1) + scan.curk BY <2>1, <1>5
    <2>3. scan.curk * (Growth - 1) \in Nat BY <2>1, <1>5
    <2> QED BY <2>2, <2>3, <1>5
  <1>7. k \in Nat /\ k >= scan.curk BY <1>3, <1>5, <1>6 DEF Capped, Larger
  <1> HIDE DEF k
  <1>9. w \in Nat BY <1>7, FactorsAssumption DEF FirstWant, Larger
  <1>10. /\ scan'.pc = "batch" /\ scan'.maxhits = scan.maxhits /\ scan'.curk = k
         /\ scan'.snap = scan.snap /\ scan'.pos = scan.pos /\ scan'.returned = scan.returned
    BY <1>1, <1>2 DEF TypeOK, Scans, Resume
  <1>11. scan' \in Scans BY <1>1, <1>2, <1>5, <1>7, <1>9 DEF TypeOK, Scans, Resume
  <1>12. OrderedInv' BY <1>3, <1>4, <1>10, <1>11, ScansKeep
  <1> QED BY <1>7, <1>10, <1>12

LEMMA StopKeeps ==
    ASSUME OrderedInv, Stop
    PROVE  /\ OrderedInv' /\ scan'.snap = scan.snap /\ scan'.pc = "done"
           /\ scan'.pos = scan.pos /\ scan'.returned = scan.returned /\ scan'.curk = scan.curk
  <1>1. TypeOK /\ BoundHolds BY DEF OrderedInv
  <1>2. /\ scan.pc = "pull" /\ row' = row /\ posting' = posting /\ stat' = stat
        /\ scan' = [scan EXCEPT !.pc = "done"]
    BY DEF Stop
  <1>3. Cardinality(scan.snap) <= scan.maxhits BY <1>1, <1>2 DEF BoundHolds
  <1>4. /\ scan'.pc = "done" /\ scan'.snap = scan.snap /\ scan'.maxhits = scan.maxhits
        /\ scan'.pos = scan.pos /\ scan'.returned = scan.returned /\ scan'.curk = scan.curk
    BY <1>1, <1>2 DEF TypeOK, Scans
  <1>5. scan' \in Scans BY <1>1, <1>2 DEF TypeOK, Scans
  <1> QED BY <1>2, <1>3, <1>4, <1>5, ScansKeep

LEMMA OrderedStart == Init => OrderedInv
  <1> SUFFICES ASSUME Init PROVE OrderedInv OBVIOUS
  <1>1. TypeOK
    <2>1. NoScan \in Scans BY DEF NoScan, Scans
    <2> QED BY <2>1 DEF Init, TypeOK
  <1>2. Indexed = {} BY DEF Init, Indexed, With
  <1>3. RowsIndexed BY DEF Init, RowsIndexed
  <1>4. SnapIndexed /\ NothingYet /\ BoundHolds
    BY DEF Init, NoScan, SnapIndexed, NothingYet, BoundHolds
  <1>5. CorpusCounted BY <1>2, FS_EmptySet DEF Init, CorpusCounted
  <1> QED BY <1>1, <1>3, <1>4, <1>5 DEF OrderedInv

LEMMA OrderedStep == OrderedInv /\ [Next]_vars => OrderedInv'
  <1> SUFFICES ASSUME OrderedInv, [Next]_vars PROVE OrderedInv' OBVIOUS
  <1>1. CASE UNCHANGED vars
    BY <1>1 DEF vars, OrderedInv, TypeOK, RowsIndexed, SnapIndexed, CorpusCounted, NothingYet,
                BoundHolds, Indexed, With
  <1>2. ASSUME NEW d \in Docs, Insert(d) \/ Delete(d) PROVE OrderedInv'
    BY <1>2, InsertKeeps, DeleteKeeps
  <1>3. CASE Flush \/ Vacuum \/ Merge BY <1>3, MaintenanceKeeps
  <1>4. CASE Scan
    BY <1>4, BeginKeeps, BoundKeeps, GenerateKeeps, ReturnKeeps, GrowKeeps, StopKeeps DEF Scan
  <1> QED BY <1>1, <1>2, <1>3, <1>4 DEF Next

LEMMA OrderedHolds == Spec => []OrderedInv
  BY OrderedStart, OrderedStep, PTL DEF Spec

\* Every variable of the ordering scan and of the writers beside it keeps its
\* type, for any documents, statistics and factors: what a round ranks is a
\* sequence of documents (bm25_gettuple, bm25_topk_visible).
THEOREM OrderedTypes == Spec => []TypeOK
  <1>1. OrderedInv => TypeOK BY DEF OrderedInv
  <1> QED BY <1>1, OrderedHolds, PTL

\* The bound that ends the scan counts every row of its snapshot, whatever
\* inserts, flushes, merges and bulkdeletes come between the snapshot and the
\* two reads of the metapage (bm25_query_maxhits).
THEOREM HitsAreBounded == Spec => []BoundHolds
  <1>1. OrderedInv => BoundHolds BY DEF OrderedInv
  <1> QED BY <1>1, OrderedHolds, PTL

-----------------------------------------------------------------------------
(* Batches are prefixes, and the scan returns every row *)

\* Sequences of the first documents agree where both are defined.
LEMMA FirstsAgree ==
    ASSUME TypeOK, NEW s \in Seq(Docs), NEW t \in Seq(Docs), FirstOf(s), FirstOf(t),
           NEW i \in 1..Len(s), i <= Len(t)
    PROVE  s[i] = t[i]
  <1>1. scan.snap \in SUBSET Docs BY ScanFields
  <1>2. i \in 1..Len(t) OBVIOUS
  <1>3. /\ s[i] \in scan.snap /\ t[i] \in scan.snap
        /\ Rank(s[i], scan.snap, OneDoc) = Rank(t[i], scan.snap, OneDoc)
    BY <1>2 DEF FirstOf, Place
  <1>4. OneDoc \in Stats BY DEF OneDoc, Stats
  <1> QED BY <1>1, <1>3, <1>4, RankAhead

\* A finished round has the first documents of the snapshot, all those of the
\* batch or of the snapshot.
LEMMA RoundExact ==
    ASSUME Steady, NDocs <= CapFloor, OrderedInv,
           ~Short(Cardinality(Visible), Cardinality(Candidates(scan.wantk)))
    PROVE  LET s == Ranked(Visible, stat)
           IN  FirstOf(s) /\ Len(s) = Smaller(scan.curk, Cardinality(scan.snap))
  <1>1. TypeOK /\ SnapIndexed /\ CorpusCounted BY DEF OrderedInv
  <1>2. scan.snap \in SUBSET Docs /\ scan.snap \in SUBSET Indexed BY <1>1, ScanFields DEF SnapIndexed
  <1>3. scan.curk \in Nat /\ scan.wantk \in Nat BY <1>1, ScanFields
  <1>4. CASE scan.snap = {}
    <2>1. Ranked(Visible, stat) = <<>> BY <1>4, VisibleSequence
    <2>2. Smaller(scan.curk, Cardinality(scan.snap)) = 0 BY <1>3, <1>4, FS_EmptySet DEF Smaller
    <2> QED BY <2>1, <2>2 DEF FirstOf
  <1>5. CASE scan.snap # {}
    <2>1. stat \in Stats /\ stat.ndocs > 0 BY <1>1, <1>2, <1>5, SnapCounted
    <2>2. Candidates(scan.wantk) = Best(Indexed, scan.wantk, stat)
      BY DEF Candidates, Indexed
    <2>3. Indexed \in SUBSET Docs /\ Cardinality(Indexed) \in Nat BY IndexedFinite
    <2>4. Cardinality(Indexed) <= CapFloor
      <3>1. Cardinality(Indexed) <= Cardinality(Docs) BY <2>3, DocTypes, FS_Subset
      <3>2. Cardinality(Docs) = NDocs BY DocsAssumption, FS_Interval DEF Docs
      <3> QED BY <2>3, <3>1, <3>2, DocsAssumption, FactorsAssumption
    <2>5. Cardinality(Visible) \in Nat /\ Cardinality(Visible) <= scan.curk
      <3>1. Candidates(scan.wantk) \cap scan.snap \in SUBSET Docs BY <1>2
      <3> DEFINE S == Candidates(scan.wantk) \cap scan.snap
      <3>2. Visible = Best(S, scan.curk, stat) BY DEF Visible
      <3>3. S \in SUBSET Docs BY <1>2
      <3> HIDE DEF S
      <3>4. Cardinality(S) \in Nat BY <3>3, DocTypes, FS_Subset, FS_CardinalityType
      <3>5. Cardinality(Visible) = Smaller(scan.curk, Cardinality(S))
        BY <1>3, <2>1, <3>2, <3>3, BestSize
      <3> QED BY <1>3, <3>4, <3>5 DEF Smaller
    <2>6. Cardinality(Candidates(scan.wantk)) = Smaller(scan.wantk, Cardinality(Indexed))
      BY <1>3, <2>1, <2>2, <2>3, BestSize
    <2>7. Cardinality(Visible) = scan.curk \/ scan.wantk >= Cardinality(Indexed)
      <3>1. \/ ~(Cardinality(Visible) < scan.curk)
            \/ Cardinality(Candidates(scan.wantk)) # scan.wantk
            \/ ~(scan.wantk < WantCap(scan.curk))
        BY DEF Short
      <3>2. WantCap(scan.curk) \in Nat /\ WantCap(scan.curk) >= CapFloor
        BY <1>3, FactorsAssumption DEF WantCap, Larger
      <3>3. CASE ~(Cardinality(Visible) < scan.curk) BY <3>3, <1>3, <2>5
      <3>4. CASE Cardinality(Candidates(scan.wantk)) # scan.wantk
        BY <3>4, <1>3, <2>3, <2>6 DEF Smaller
      <3>5. CASE ~(scan.wantk < WantCap(scan.curk))
        BY <3>2, <3>5, <1>3, <2>3, <2>4, FactorsAssumption
      <3> QED BY <3>1, <3>3, <3>4, <3>5
    <2>8. Visible = Best(Best(Indexed, scan.wantk, stat) \cap scan.snap, scan.curk, stat)
      BY <2>2 DEF Visible
    <2>9. Visible = Best(scan.snap, scan.curk, stat)
      BY <1>2, <1>3, <2>1, <2>3, <2>7, <2>8, BatchIsBest
    <2> DEFINE s == Ranked(Visible, stat)
    <2>10. /\ Len(s) = Smaller(scan.curk, Cardinality(scan.snap))
           /\ \A i \in 1..Len(s) : s[i] \in scan.snap /\ Rank(s[i], scan.snap, stat) = i - 1
      BY <1>2, <1>3, <2>1, <2>9, RankedBest
    <2>11. \A i \in 1..Len(s) : s[i] \in scan.snap /\ Rank(s[i], scan.snap, OneDoc) = i - 1
      <3> HIDE DEF s
      <3> QED BY <1>2, <2>1, <2>10, SteadyRank
    <2> QED BY <2>10, <2>11 DEF FirstOf, Place
  <1> QED BY <1>4, <1>5

LEMMA SnapSize == TypeOK => Cardinality(scan.snap) \in Nat /\ IsFiniteSet(scan.snap)
  BY ScanFields, DocTypes, FS_Subset, FS_CardinalityType

LEMMA BatchingNext ==
    ASSUME scan'.snap = scan.snap, scan'.returned = scan.returned, scan'.pos = scan.pos,
           scan'.curk > 0, Batching, scan.pc \in {"batch", "pull", "done"}
    PROVE  Batching'
  BY DEF Batching, FirstOf, Place

LEMMA ExactStep ==
    ASSUME Steady, NDocs <= CapFloor, OrderedInv, ExactInv, [Next]_vars
    PROVE  ExactInv'
  <1>1. TypeOK /\ NothingYet /\ BoundHolds BY DEF OrderedInv
  <1>2. /\ scan.curk \in Nat /\ scan.pos \in Nat /\ scan.ordered \in Seq(Docs) /\ scan.maxhits \in Nat
        /\ scan.returned \in Seq(Docs)
    BY <1>1, ScanFields
  <1>3. Cardinality(scan.snap) \in Nat BY <1>1, SnapSize
  <1>4. ASSUME scan' = scan PROVE ExactInv'
    BY <1>4 DEF ExactInv, Batching, Resumable, Pulling, Finished, FirstOf, Place
  <1>5. CASE Begin
    <2>1. scan'.pc = "bound" BY <1>1, <1>5 DEF Begin, NothingYet, NoScan
    <2> QED BY <2>1 DEF ExactInv, Batching, Resumable, Pulling, Finished
  <1>6. CASE Bound
    <2>1. /\ scan'.curk > 0 /\ scan'.pos = 0 /\ scan'.returned = <<>> /\ scan'.pc = "batch"
          /\ scan'.snap = scan.snap /\ OrderedInv'
      BY <1>6, BoundKeeps
    <2>2. scan'.curk \in Nat /\ Cardinality(scan'.snap) \in Nat
      BY <1>3, <2>1 DEF OrderedInv, TypeOK, Scans
    <2>3. Batching' BY <2>1 DEF Batching, FirstOf
    <2>4. Resumable' BY <2>1, <2>2 DEF Resumable, Smaller
    <2> QED BY <2>1, <2>3, <2>4 DEF ExactInv, Pulling, Finished
  <1>7. CASE Generate
    <2>1. scan.pc = "batch" BY <1>7 DEF Generate
    <2>2. /\ scan'.snap = scan.snap /\ scan'.curk = scan.curk
          /\ scan'.pos = scan.pos /\ scan'.returned = scan.returned
          /\ \/ scan'.pc = "batch"
             \/ /\ scan'.pc = "pull" /\ scan'.ordered = Ranked(Visible, stat)
                /\ ~Short(Cardinality(Visible), Cardinality(Candidates(scan.wantk)))
      BY <1>7, GenerateKeeps
    <2>3. Batching' BY <2>1, <2>2, BatchingNext DEF ExactInv, Batching
    <2>4. CASE scan'.pc = "batch"
      BY <2>1, <2>2, <2>3, <2>4 DEF ExactInv, Resumable, Pulling, Finished
    <2>5. CASE scan'.pc = "pull"
      <3> DEFINE s == Ranked(Visible, stat)
      <3>1. scan'.ordered = s BY <2>2, <2>5
      <3>2. FirstOf(s) /\ Len(s) = Smaller(scan.curk, Cardinality(scan.snap))
        BY <2>2, <2>5, RoundExact
      <3> HIDE DEF s
      <3>3. scan.pos <= Len(s) BY <2>1, <3>2 DEF ExactInv, Resumable
      <3>4. Pulling' BY <2>2, <3>1, <3>2, <3>3 DEF Pulling, FirstOf, Place
      <3> QED BY <2>3, <2>5, <3>4 DEF ExactInv, Resumable, Finished
    <2> QED BY <2>2, <2>4, <2>5
  <1>8. CASE Return
    <2>1. scan.pc = "pull" /\ scan.pos < Len(scan.ordered) BY <1>8 DEF Return
    <2> DEFINE r == Append(scan.returned, scan.ordered[scan.pos + 1])
    <2>2. /\ scan'.snap = scan.snap /\ scan'.curk = scan.curk /\ scan'.pc = "pull"
          /\ scan'.pos = scan.pos + 1 /\ scan'.ordered = scan.ordered
          /\ scan'.returned = r
      BY <1>8, ReturnKeeps
    <2>3. /\ FirstOf(scan.ordered) /\ FirstOf(scan.returned) /\ Len(scan.returned) = scan.pos
          /\ scan.curk > 0 /\ Len(scan.ordered) = Smaller(scan.curk, Cardinality(scan.snap))
      BY <2>1 DEF ExactInv, Pulling, Batching
    <2>4. Len(r) = scan.pos + 1 BY <1>2, <2>3
    <2>5. \A i \in 1..Len(r) : r[i] = IF i <= scan.pos THEN scan.returned[i]
                                      ELSE scan.ordered[scan.pos + 1]
      BY <1>2, <2>3, <2>4
    <2> HIDE DEF r
    <2>6. FirstOf(r)
      <3> SUFFICES ASSUME NEW i \in 1..Len(r)
                   PROVE  r[i] \in scan.snap /\ Place(r[i]) = i - 1
        BY DEF FirstOf
      <3>1. CASE i <= scan.pos BY <3>1, <2>3, <2>4, <2>5, <1>2 DEF FirstOf
      <3>2. CASE ~(i <= scan.pos)
        <4>1. i = scan.pos + 1 /\ i \in 1..Len(scan.ordered) BY <3>2, <2>1, <2>4, <1>2
        <4> QED BY <4>1, <3>2, <2>3, <2>5 DEF FirstOf
      <3> QED BY <3>1, <3>2
    <2>7. Batching' BY <2>2, <2>3, <2>4, <2>6 DEF Batching, FirstOf, Place
    <2>8. scan.pos + 1 <= Len(scan.ordered) BY <2>1, <1>2
    <2>9. Pulling' BY <2>2, <2>3, <2>8 DEF Pulling, FirstOf, Place
    <2> QED BY <2>2, <2>7, <2>9 DEF ExactInv, Resumable, Finished
  <1>9. CASE Grow
    <2>1. scan.pc = "pull" /\ scan.pos >= Len(scan.ordered) BY <1>9 DEF Grow, Exhausted
    <2>2. /\ scan'.snap = scan.snap /\ scan'.pc = "batch"
          /\ scan'.pos = scan.pos /\ scan'.returned = scan.returned
          /\ scan'.curk \in Nat /\ scan'.curk >= scan.curk
      BY <1>9, GrowKeeps
    <2>3. /\ scan.pos <= Len(scan.ordered) /\ scan.curk > 0
          /\ Len(scan.ordered) = Smaller(scan.curk, Cardinality(scan.snap))
      BY <2>1 DEF ExactInv, Pulling, Batching
    <2>4. scan'.curk > 0 BY <2>2, <2>3, <1>2
    <2>5. Batching' BY <2>1, <2>2, <2>4, BatchingNext DEF ExactInv
    <2>6. Len(scan.ordered) \in Nat BY <1>2
    <2>7. scan.pos <= Smaller(scan'.curk, Cardinality(scan.snap))
      BY <2>2, <2>3, <2>6, <1>2, <1>3 DEF Smaller
    <2>8. Resumable' BY <2>2, <2>7 DEF Resumable
    <2> QED BY <2>2, <2>5, <2>8 DEF ExactInv, Pulling, Finished
  <1>10. CASE Stop
    <2>1. /\ scan.pc = "pull" /\ scan.pos >= Len(scan.ordered)
          /\ Len(scan.ordered) # scan.curk \/ ~(scan.curk < scan.maxhits)
      BY <1>10 DEF Stop, Exhausted, More
    <2>2. /\ scan'.snap = scan.snap /\ scan'.pc = "done" /\ scan'.curk = scan.curk
          /\ scan'.pos = scan.pos /\ scan'.returned = scan.returned
      BY <1>10, StopKeeps
    <2>3. /\ scan.pos <= Len(scan.ordered) /\ scan.curk > 0
          /\ Len(scan.ordered) = Smaller(scan.curk, Cardinality(scan.snap))
      BY <2>1 DEF ExactInv, Pulling, Batching
    <2>4. Cardinality(scan.snap) <= scan.maxhits BY <1>1, <2>1 DEF BoundHolds
    <2>5. Len(scan.ordered) \in Nat BY <1>2
    <2>6. scan.pos = Cardinality(scan.snap)
      BY <2>1, <2>3, <2>4, <2>5, <1>2, <1>3 DEF Smaller
    <2>7. Batching' BY <2>1, <2>2, <2>3, BatchingNext DEF ExactInv
    <2> QED BY <2>2, <2>6, <2>7 DEF ExactInv, Resumable, Pulling, Finished
  <1>11. \/ scan' = scan
         \/ Begin \/ Bound \/ Generate \/ Return \/ Grow \/ Stop
    BY DEF Next, Scan, Insert, Delete, Flush, Vacuum, Merge, vars
  <1> QED BY <1>4, <1>5, <1>6, <1>7, <1>8, <1>9, <1>10, <1>11

LEMMA ExactHolds ==
    ASSUME Steady, NDocs <= CapFloor
    PROVE  Spec => [](OrderedInv /\ ExactInv)
  <1>1. Init => ExactInv
    BY DEF Init, NoScan, ExactInv, Batching, Resumable, Pulling, Finished
  <1>2. OrderedInv /\ ExactInv /\ [Next]_vars => ExactInv' BY ExactStep
  <1> QED BY <1>1, <1>2, OrderedStart, OrderedStep, PTL DEF Spec

\* While one document does not overtake another as the collection changes,
\* and no more documents match than a round may ask for, a batch begins with
\* the rows already returned: resuming by position repeats and skips none
\* (bm25_gettuple, "grow-and-resume"), whatever is written between batches.
THEOREM BatchesArePrefixes ==
    ASSUME Steady, NDocs <= CapFloor
    PROVE  Spec => []BatchPrefix
  <1>1. OrderedInv /\ ExactInv => BatchPrefix
    <2> SUFFICES ASSUME OrderedInv, ExactInv, scan.pc = "pull"
                 PROVE  /\ scan.pos <= Len(scan.ordered)
                        /\ scan.returned = SubSeq(scan.ordered, 1, scan.pos)
      BY DEF BatchPrefix
    <2>1. TypeOK BY DEF OrderedInv
    <2>2. scan.ordered \in Seq(Docs) /\ scan.returned \in Seq(Docs) /\ scan.pos \in Nat
      BY <2>1, ScanFields
    <2>3. /\ FirstOf(scan.ordered) /\ FirstOf(scan.returned) /\ Len(scan.returned) = scan.pos
          /\ scan.pos <= Len(scan.ordered)
      BY DEF ExactInv, Pulling, Batching
    <2> DEFINE t == SubSeq(scan.ordered, 1, scan.pos)
    <2>4. \A i \in 1..scan.pos : scan.ordered[i] \in Docs BY <2>2, <2>3
    <2>5. /\ t \in Seq(Docs) /\ Len(t) = scan.pos
          /\ \A i \in 1..scan.pos : t[i] = scan.ordered[i]
      BY <2>2, <2>4, SubSeqProperties
    <2>6. \A i \in 1..scan.pos : scan.returned[i] = scan.ordered[i]
      BY <2>1, <2>2, <2>3, FirstsAgree
    <2> HIDE DEF t
    <2>7. scan.returned = t BY <2>2, <2>3, <2>5, <2>6, SeqEqual
    <2> QED BY <2>3, <2>7 DEF t
  <1> QED BY <1>1, ExactHolds, PTL

\* Under the same conditions a scan that ends has returned every row of its
\* snapshot (bm25_gettuple: the last batch is short of k or reaches the bound).
THEOREM EveryRowReturned ==
    ASSUME Steady, NDocs <= CapFloor
    PROVE  Spec => []AllReturned
  <1>1. OrderedInv /\ ExactInv => AllReturned
    <2> SUFFICES ASSUME OrderedInv, ExactInv, scan.pc = "done", NEW d \in scan.snap
                 PROVE  \E i \in DOMAIN scan.returned : scan.returned[i] = d
      BY DEF AllReturned
    <2>1. TypeOK BY DEF OrderedInv
    <2>2. scan.snap \in SUBSET Docs /\ scan.returned \in Seq(Docs) /\ scan.pos \in Nat
      BY <2>1, ScanFields
    <2>3. /\ FirstOf(scan.returned) /\ Len(scan.returned) = scan.pos
          /\ scan.pos = Cardinality(scan.snap)
      BY DEF ExactInv, Finished, Batching
    <2>4. OneDoc \in Stats BY DEF OneDoc, Stats
    <2> DEFINE i == Place(d) + 1
    <2>5. Place(d) \in Nat /\ Place(d) < Cardinality(scan.snap) BY <2>2, <2>4, RankType DEF Place
    <2>6. i \in 1..Len(scan.returned) /\ i - 1 = Place(d) BY <2>2, <2>3, <2>5
    <2> HIDE DEF i
    <2>7. scan.returned[i] \in scan.snap /\ Place(scan.returned[i]) = Place(d)
      BY <2>3, <2>6 DEF FirstOf
    <2>8. scan.returned[i] = d BY <2>2, <2>4, <2>7, RankAhead DEF Place
    <2>9. i \in DOMAIN scan.returned BY <2>2, <2>6
    <2> QED BY <2>8, <2>9
  <1> QED BY <1>1, ExactHolds, PTL

\* Under the same conditions no row is returned twice.
THEOREM NoRowTwice ==
    ASSUME Steady, NDocs <= CapFloor
    PROVE  Spec => []NoRepeat
  <1>1. OrderedInv /\ ExactInv => NoRepeat
    <2> SUFFICES ASSUME OrderedInv, ExactInv, NEW i \in DOMAIN scan.returned,
                        NEW j \in DOMAIN scan.returned, scan.returned[i] = scan.returned[j]
                 PROVE  i = j
      BY DEF NoRepeat
    <2>1. TypeOK BY DEF OrderedInv
    <2>2. i \in 1..Len(scan.returned) /\ j \in 1..Len(scan.returned) /\ i \in Nat /\ j \in Nat
      BY <2>1, ScanFields
    <2>3. scan.returned # <<>> BY <2>1, <2>2, ScanFields
    <2>4. FirstOf(scan.returned) BY <2>1, <2>3 DEF OrderedInv, NothingYet, NoScan, ExactInv, Batching, TypeOK, Scans
    <2>5. Place(scan.returned[i]) = i - 1 /\ Place(scan.returned[j]) = j - 1 BY <2>2, <2>4 DEF FirstOf
    <2> QED BY <2>2, <2>5
  <1> QED BY <1>1, ExactHolds, PTL
=============================================================================
