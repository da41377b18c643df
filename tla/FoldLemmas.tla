------------------------------ MODULE FoldLemmas ------------------------------
(***************************************************************************)
(* Lemmas about the operators of the community modules that the models use *)
(* and that are defined by recursion: concatenations, sums, and folds of   *)
(* sequences.  Induction over numbers and over finite sets is stated with  *)
(* sets in place of predicates, which the provers can instantiate.         *)
(***************************************************************************)
EXTENDS Integers, Sequences, FiniteSets, FiniteSetsExt, Functions, Folds, SequencesExt,
        FiniteSetTheorems, WellFoundedInduction, TLAPS

-----------------------------------------------------------------------------
(* Induction, and what FlattenSeq and SubSeq are for any sequences         *)

\* A set of numbers with 0 and the successor of each of its members has all of them.
LEMMA Induct ==
    ASSUME NEW T, 0 \in T, \A n \in Nat : n \in T => n + 1 \in T
    PROVE  Nat \subseteq T
<1>. DEFINE R == OpToRel(<, Nat)
            Bad == Nat \ T
<1>1. IsWellFoundedOn(R, Nat)
  BY NatLessThanWellFounded
<1>. SUFFICES ASSUME Bad # {} PROVE FALSE
  OBVIOUS
<1>2. R = {ss \in Nat \X Nat : ss[1] < ss[2]}
  BY DEF OpToRel
<1>. HIDE DEF R
<1>3. Bad \subseteq Nat
  OBVIOUS
<1>4. PICK x \in Bad : \A y \in Bad : ~(<<y, x>> \in R)
  BY <1>1, <1>3, WFMin
<1>5. x \in Nat /\ x # 0 /\ x \notin T
  OBVIOUS
<1>6. x - 1 \in Nat /\ x - 1 < x
  BY <1>5
<1>7. x - 1 \in Bad
  <2>1. (x - 1) + 1 = x
    BY <1>5
  <2>. QED  BY <1>5, <1>6, <2>1
<1>8. <<x - 1, x>> \in R
  BY <1>2, <1>5, <1>6
<1>. QED  BY <1>4, <1>7, <1>8

\* F has the concatenations of the first, the first two... of n sequences.
Heads(F, ss, n) == \A i \in 1..n : F[i] = IF i = 1 THEN ss[i] ELSE F[i - 1] \o ss[i]

LEMMA HeadsExist ==
    ASSUME NEW S, NEW n \in Nat, NEW ss \in [1..n -> Seq(S)]
    PROVE  \E F \in [1..n -> Seq(S)] : Heads(F, ss, n)
<1>. DEFINE T == {m \in Nat : m <= n => \E F \in [1..m -> Seq(S)] : Heads(F, ss, m)}
<1>1. 0 \in T
  <2>. DEFINE F == [i \in 1..0 |-> <<>>]
  <2>1. F \in [1..0 -> Seq(S)] /\ Heads(F, ss, 0)
    BY DEF Heads
  <2>. QED  BY <2>1
<1>2. ASSUME NEW m \in Nat, m \in T PROVE m + 1 \in T
  <2>. SUFFICES ASSUME m + 1 <= n
               PROVE  \E F \in [1..(m + 1) -> Seq(S)] : Heads(F, ss, m + 1)
    OBVIOUS
  <2>1. m <= n
    OBVIOUS
  <2>2. PICK F \in [1..m -> Seq(S)] : Heads(F, ss, m)
    BY <1>2, <2>1
  <2>. DEFINE G == [i \in 1..(m + 1) |-> IF i <= m THEN F[i]
                                       ELSE IF i = 1 THEN ss[i] ELSE F[m] \o ss[i]]
  <2>3. G \in [1..(m + 1) -> Seq(S)]
    <3>. SUFFICES ASSUME NEW i \in 1..(m + 1) PROVE G[i] \in Seq(S)
      OBVIOUS
    <3>1. ss[i] \in Seq(S)
      OBVIOUS
    <3>2. CASE i <= m
      BY <3>2
    <3>3. CASE ~(i <= m) /\ i # 1
      <4>1. m \in 1..m
        BY <3>3
      <4>2. F[m] \in Seq(S)
        BY <4>1
      <4>3. F[m] \o ss[i] \in Seq(S)
        BY <4>2, <3>1
      <4>. QED  BY <3>3, <4>3
    <3>. QED  BY <3>1, <3>2, <3>3
  <2>4. Heads(G, ss, m + 1)
    <3>. SUFFICES ASSUME NEW i \in 1..(m + 1)
                 PROVE  G[i] = IF i = 1 THEN ss[i] ELSE G[i - 1] \o ss[i]
      BY DEF Heads
    <3>1. CASE i <= m
      <4>1. i \in 1..m
        BY <3>1
      <4>2. F[i] = IF i = 1 THEN ss[i] ELSE F[i - 1] \o ss[i]
        BY <2>2, <4>1 DEF Heads
      <4>3. G[i] = F[i] /\ (i # 1 => G[i - 1] = F[i - 1])
        BY <3>1
      <4>. QED  BY <4>2, <4>3
    <3>2. CASE ~(i <= m)
      <4>1. i = m + 1
        BY <3>2
      <4>2. i # 1 => i - 1 \in 1..(m + 1) /\ i - 1 <= m /\ i - 1 = m
        BY <4>1
      <4>. QED  BY <3>2, <4>1, <4>2
    <3>. QED  BY <3>1, <3>2
  <2>. QED  BY <2>3, <2>4
<1>3. Nat \subseteq T
  <2>. HIDE DEF T
  <2>. QED  BY <1>1, <1>2, Induct
<1>. QED  BY <1>3

LEMMA HeadsAgree ==
    ASSUME NEW n \in Nat, NEW ss, NEW tt, NEW F, NEW G,
           Heads(F, ss, n), Heads(G, tt, n), \A i \in 1..n : ss[i] = tt[i], NEW k \in 1..n
    PROVE  F[k] = G[k]
<1>. DEFINE T == {m \in Nat : m \in 1..n => F[m] = G[m]}
<1>1. 0 \in T
  OBVIOUS
<1>2. ASSUME NEW m \in Nat, m \in T PROVE m + 1 \in T
  <2>. SUFFICES ASSUME m + 1 \in 1..n PROVE F[m + 1] = G[m + 1]
    OBVIOUS
  <2>1. /\ F[m + 1] = IF m + 1 = 1 THEN ss[m + 1] ELSE F[(m + 1) - 1] \o ss[m + 1]
        /\ G[m + 1] = IF m + 1 = 1 THEN tt[m + 1] ELSE G[(m + 1) - 1] \o tt[m + 1]
        /\ ss[m + 1] = tt[m + 1]
    BY DEF Heads
  <2>2. CASE m = 0
    BY <2>1, <2>2
  <2>3. CASE m # 0
    <3>1. m \in 1..n /\ (m + 1) - 1 = m /\ m + 1 # 1
      BY <2>3
    <3>2. F[m] = G[m]
      BY <1>2, <3>1
    <3>. QED  BY <2>1, <3>1, <3>2
  <2>. QED  BY <2>2, <2>3
<1>3. Nat \subseteq T
  <2>. HIDE DEF T
  <2>. QED  BY <1>1, <1>2, Induct
<1>4. k \in Nat /\ k \in T
  BY <1>3
<1>. QED  BY <1>4

LEMMA FlatEmpty == FlattenSeq(<<>>) = <<>>
BY DEF FlattenSeq

LEMMA FlatIs ==
    ASSUME NEW S, NEW n \in Nat \ {0}, NEW ss \in [1..n -> Seq(S)],
           NEW F \in [1..n -> Seq(S)], Heads(F, ss, n)
    PROVE  FlattenSeq(ss) = F[n]
<1>. DEFINE Is(X) == X = [i \in 1..n |-> IF i = 1 THEN ss[i] ELSE X[i - 1] \o ss[i]]
<1>1. Len(ss) = n
  OBVIOUS
<1>2. FlattenSeq(ss) = (CHOOSE X : Is(X))[n]
  BY <1>1 DEF FlattenSeq
<1>3. Is(F)
  BY DEF Heads
<1>. DEFINE C == CHOOSE X : Is(X)
<1>4. Is(C)
  <2>. HIDE DEF Is
  <2>. QED  BY <1>3
<1>5. Heads(C, ss, n)
  <2>. HIDE DEF C
  <2>. SUFFICES ASSUME NEW i \in 1..n
               PROVE  C[i] = IF i = 1 THEN ss[i] ELSE C[i - 1] \o ss[i]
    BY DEF Heads
  <2>. DEFINE B == [j \in 1..n |-> IF j = 1 THEN ss[j] ELSE C[j - 1] \o ss[j]]
  <2>1. C = B
    BY <1>4
  <2>2. B[i] = IF i = 1 THEN ss[i] ELSE C[i - 1] \o ss[i]
    OBVIOUS
  <2>. HIDE DEF B
  <2>. QED  BY <2>1, <2>2
<1>. HIDE DEF C
<1>6. C[n] = F[n]
  BY <1>5, HeadsAgree
<1>. QED  BY <1>2, <1>6 DEF C

LEMMA FlatType ==
    ASSUME NEW S, NEW n \in Nat, NEW ss \in [1..n -> Seq(S)]
    PROVE  FlattenSeq(ss) \in Seq(S)
<1>1. CASE n = 0
  <2>1. ss = <<>>
    BY <1>1
  <2>2. FlattenSeq(ss) = <<>>
    BY <2>1, FlatEmpty
  <2>3. <<>> \in Seq(S)
    OBVIOUS
  <2>. QED  BY <2>2, <2>3
<1>2. CASE n # 0
  <2>1. PICK F \in [1..n -> Seq(S)] : Heads(F, ss, n)
    BY HeadsExist
  <2>2. n \in Nat \ {0} /\ n \in 1..n
    BY <1>2
  <2>3. FlattenSeq(ss) = F[n]
    BY <2>1, <2>2, FlatIs
  <2>. QED  BY <2>2, <2>3
<1>. QED  BY <1>1, <1>2

\* One more sequence at the end.
LEMMA FlatNext ==
    ASSUME NEW S, NEW n \in Nat, NEW ss, ss \in [1..(n + 1) -> Seq(S)],
           NEW tt, tt \in [1..n -> Seq(S)], \A i \in 1..n : tt[i] = ss[i]
    PROVE  FlattenSeq(ss) = FlattenSeq(tt) \o ss[n + 1]
<1>. DEFINE last == ss[n + 1]
<1>0. last \in Seq(S)
  OBVIOUS
<1>1. PICK F : F \in [1..(n + 1) -> Seq(S)] /\ Heads(F, ss, n + 1)
  BY HeadsExist, SMTT(30)
<1>b. n \in Nat
  OBVIOUS
<1>a. n + 1 \in Nat \ {0} /\ n + 1 \in 1..(n + 1)
  OBVIOUS
<1>2. FlattenSeq(ss) = F[n + 1]
  BY <1>1, <1>a, FlatIs
<1>3. F[n + 1] = IF n + 1 = 1 THEN ss[n + 1] ELSE F[(n + 1) - 1] \o ss[n + 1]
  BY <1>1, <1>a DEF Heads
<1>4. CASE n = 0
  <2>1. tt = <<>>
    BY <1>4
  <2>2. FlattenSeq(tt) = <<>>
    BY <2>1, FlatEmpty
  <2>3. <<>> \o last = last
    BY <1>0
  <2>. QED  BY <1>2, <1>3, <1>4, <2>2, <2>3
<1>5. CASE n # 0
  <2>1. PICK G : G \in [1..n -> Seq(S)] /\ Heads(G, tt, n)
    BY HeadsExist
  <2>2. FlattenSeq(tt) = G[n]
    BY <1>5, <2>1, FlatIs
  <2>3. Heads(F, ss, n)
    <3>. SUFFICES ASSUME NEW i \in 1..n
                 PROVE  F[i] = IF i = 1 THEN ss[i] ELSE F[i - 1] \o ss[i]
      BY DEF Heads
    <3>1. i \in 1..(n + 1)
      OBVIOUS
    <3>. QED  BY <1>1, <3>1 DEF Heads
  <2>4. n \in 1..n /\ (n + 1) - 1 = n /\ n + 1 # 1
    BY <1>5
  <2>5. \A i \in 1..n : ss[i] = tt[i]
    OBVIOUS
  <2>6. Heads(G, tt, n)
    BY <2>1
  <2>7. F[n] = G[n]
    BY ONLY <1>b, <2>3, <2>4, <2>5, <2>6, HeadsAgree
  <2>. QED  BY <1>2, <1>3, <2>2, <2>4, <2>7
<1>. QED  BY <1>4, <1>5

LEMMA SubHead ==
    ASSUME NEW S, NEW s \in Seq(S), NEW t \in Seq(S), NEW a \in Nat \ {0}, NEW b \in Nat, b <= Len(s)
    PROVE  SubSeq(s \o t, a, b) = SubSeq(s, a, b)
<1>. DEFINE st == s \o t
<1>1. st \in Seq(S) /\ Len(st) = Len(s) + Len(t)
  OBVIOUS
<1>2. \A i \in 1..Len(s) : st[i] = s[i]
  OBVIOUS
<1>3. SubSeq(st, a, b) = [i \in 1..(b - a + 1) |-> st[i + a - 1]]
  OBVIOUS
<1>4. SubSeq(s, a, b) = [i \in 1..(b - a + 1) |-> s[i + a - 1]]
  OBVIOUS
<1>5. \A i \in 1..(b - a + 1) : i + a - 1 \in 1..Len(s)
  OBVIOUS
<1>. QED  BY <1>2, <1>3, <1>4, <1>5

LEMMA SubHeadMore ==
    ASSUME NEW S, NEW s \in Seq(S), NEW t \in Seq(S), NEW a \in Nat, NEW b \in Nat, b <= Len(s)
    PROVE  b <= Len(s \o t) /\ SubSeq(s \o t, a + 1, b) = SubSeq(s, a + 1, b)
<1>1. a + 1 \in Nat \ {0}
  OBVIOUS
<1>2. Len(s \o t) = Len(s) + Len(t) /\ Len(s) \in Nat /\ Len(t) \in Nat
  OBVIOUS
<1>. QED  BY <1>1, <1>2, SubHead

LEMMA SubTail ==
    ASSUME NEW S, NEW s \in Seq(S), NEW t \in Seq(S)
    PROVE  SubSeq(s \o t, Len(s) + 1, Len(s) + Len(t)) = t
<1>. DEFINE st == s \o t
            a == Len(s) + 1
            b == Len(s) + Len(t)
<1>1. st \in Seq(S) /\ Len(st) = b /\ a \in Nat /\ b \in Nat /\ b - a + 1 = Len(t)
  OBVIOUS
<1>2. SubSeq(st, a, b) = [i \in 1..Len(t) |-> st[i + a - 1]]
  BY <1>1
<1>3. \A i \in 1..Len(t) : st[i + a - 1] = t[i]
  OBVIOUS
<1>4. t = [i \in 1..Len(t) |-> t[i]]
  OBVIOUS
<1>. QED  BY <1>2, <1>3, <1>4

\* Where the k-th sequence starts in the concatenation with the heads F.
StartOf(F, k) == IF k = 1 THEN 0 ELSE Len(F[k - 1])

\* In the concatenation each sequence is where the ones before it end.
LEMMA FlatBlock ==
    ASSUME NEW S, NEW n \in Nat, NEW ss, ss \in [1..n -> Seq(S)], NEW F, F \in [1..n -> Seq(S)],
           Heads(F, ss, n), NEW k \in 1..n
    PROVE  /\ SubSeq(FlattenSeq(ss), StartOf(F, k) + 1, StartOf(F, k) + Len(ss[k])) = ss[k]
           /\ StartOf(F, k) \in Nat
<1>. DEFINE a == StartOf(F, k)
<1>d. a \in Nat /\ a = IF k = 1 THEN 0 ELSE Len(F[k - 1])
  <2>1. k # 1 => k - 1 \in 1..n
    OBVIOUS
  <2>2. k # 1 => F[k - 1] \in Seq(S)
    BY <2>1
  <2>. QED  BY <2>2 DEF StartOf
<1>. HIDE DEF a
<1>. DEFINE b == a + Len(ss[k])
            Has(m) == b <= Len(F[m]) /\ SubSeq(F[m], a + 1, b) = ss[k]
            T == {m \in Nat : m \in k..n => Has(m)}
<1>a. k \in Nat /\ k \in 1..n /\ ss[k] \in Seq(S)
  OBVIOUS
<1>b. Len(ss[k]) \in Nat
  BY <1>a
<1>c. b \in Nat
  BY <1>b, <1>d
<1>1. 0 \in T
  <2>. HIDE DEF Has
  <2>. QED  BY <1>a
<1>2. Has(k)
  <2>1. F[k] = IF k = 1 THEN ss[k] ELSE F[k - 1] \o ss[k]
    BY DEF Heads
  <2>2. CASE k = 1
    <3>1. F[k] = ss[k] /\ a = 0 /\ b = Len(ss[k])
      BY <1>b, <1>d, <2>1, <2>2
    <3>2. SubSeq(ss[k], 1, Len(ss[k])) = ss[k]
      BY <1>a
    <3>3. b <= Len(F[k])
      BY <1>b, <3>1
    <3>4. SubSeq(F[k], a + 1, b) = ss[k]
      <4>. HIDE DEF b
      <4>1. a + 1 = 1
        BY <3>1
      <4>. QED  BY <3>1, <3>2, <4>1
    <3>. QED  BY <3>3, <3>4
  <2>3. CASE k # 1
    <3>1. k - 1 \in 1..n
      BY <2>3
    <3>2. F[k - 1] \in Seq(S) /\ a = Len(F[k - 1]) /\ F[k] = F[k - 1] \o ss[k]
      BY <1>d, <2>1, <2>3, <3>1
    <3>3. SubSeq(F[k - 1] \o ss[k], Len(F[k - 1]) + 1, Len(F[k - 1]) + Len(ss[k])) = ss[k]
      BY <1>a, <3>2, SubTail
    <3>4. SubSeq(F[k], a + 1, b) = ss[k]
      BY <3>2, <3>3
    <3>5. Len(F[k]) = b
      BY <1>a, <3>2
    <3>6. b <= Len(F[k])
      BY <1>c, <3>5
    <3>. QED  BY <3>4, <3>6
  <2>. QED  BY <2>2, <2>3
<1>3. ASSUME NEW m \in Nat, m \in T PROVE m + 1 \in T
  <2>. SUFFICES ASSUME m + 1 \in k..n PROVE Has(m + 1)
    <3>. HIDE DEF Has
    <3>. QED  OBVIOUS
  <2>1. CASE m + 1 = k
    <3>. HIDE DEF Has
    <3>. QED  BY <1>2, <2>1
  <2>2. CASE m + 1 # k
    <3>1. m \in k..n /\ m \in 1..n /\ m + 1 \in 1..n /\ (m + 1) - 1 = m /\ m + 1 # 1
      BY <1>a, <2>2
    <3>2. Has(m)
      <4>. HIDE DEF Has
      <4>. QED  BY <1>3, <3>1
    <3>3. F[m + 1] = F[m] \o ss[m + 1]
      BY <3>1 DEF Heads
    <3>4. F[m] \in Seq(S) /\ ss[m + 1] \in Seq(S)
      BY <3>1
    <3>. HIDE DEF b
    <3>5. b <= Len(F[m])
      BY <3>2
    <3>6. b <= Len(F[m] \o ss[m + 1]) /\ SubSeq(F[m] \o ss[m + 1], a + 1, b) = SubSeq(F[m], a + 1, b)
      <4>1. PICK s \in Seq(S) : s = F[m]
        BY <3>4
      <4>2. PICK t \in Seq(S) : t = ss[m + 1]
        BY <3>4
      <4>3. b <= Len(s \o t) /\ SubSeq(s \o t, a + 1, b) = SubSeq(s, a + 1, b)
        BY ONLY s \in Seq(S), t \in Seq(S), <1>c, <1>d, <3>5, <4>1, SubHeadMore
      <4>. QED  BY <4>1, <4>2, <4>3
    <3>. QED  BY <3>2, <3>3, <3>6
  <2>. QED  BY <2>1, <2>2
<1>4. Nat \subseteq T
  <2>. HIDE DEF T
  <2>. QED  BY <1>1, <1>3, Induct
<1>5. n \in k..n /\ n \in Nat \ {0}
  BY <1>a
<1>6. Has(n)
  <2>. HIDE DEF Has
  <2>. QED  BY <1>4, <1>5
<1>7. FlattenSeq(ss) = F[n]
  BY <1>5, FlatIs
<1>. QED  BY <1>d, <1>6, <1>7 DEF a

BlocksAt(at, ss, n) ==
    \A j \in 1..n :
        /\ at[j] = IF j = 1 THEN 0 ELSE at[j - 1] + Len(ss[j - 1])
        /\ SubSeq(FlattenSeq(ss), at[j] + 1, at[j] + Len(ss[j])) = ss[j]

LEMMA FlatBlocks ==
    ASSUME NEW S, NEW n, n \in Nat, NEW ss, ss \in [1..n -> Seq(S)]
    PROVE  \E at : at \in [1..n -> Nat] /\ BlocksAt(at, ss, n)
<1>1. PICK F : F \in [1..n -> Seq(S)] /\ Heads(F, ss, n)
  BY HeadsExist
<1>. DEFINE at == [j \in 1..n |-> StartOf(F, j)]
<1>2. ASSUME NEW j \in 1..n
      PROVE  SubSeq(FlattenSeq(ss), StartOf(F, j) + 1, StartOf(F, j) + Len(ss[j])) = ss[j]
             /\ StartOf(F, j) \in Nat
  <2>. HIDE DEF at
  <2>. QED  BY <1>1, <1>2, FlatBlock
<1>3. at \in [1..n -> Nat]
  BY <1>2
<1>4. ASSUME NEW j \in 1..n
      PROVE  at[j] = IF j = 1 THEN 0 ELSE at[j - 1] + Len(ss[j - 1])
  <2>1. CASE j = 1
    BY <2>1 DEF StartOf
  <2>2. CASE j # 1
    <3>1. j - 1 \in 1..n /\ at[j] = Len(F[j - 1]) /\ at[j - 1] = StartOf(F, j - 1)
      BY <2>2 DEF StartOf
    <3>2. F[j - 1] = IF j - 1 = 1 THEN ss[j - 1] ELSE F[(j - 1) - 1] \o ss[j - 1]
      BY <1>1, <3>1 DEF Heads
    <3>3. ss[j - 1] \in Seq(S)
      BY <3>1
    <3>4. CASE j - 1 = 1
      <4>1. at[j - 1] = 0
        BY <3>1, <3>4 DEF StartOf
      <4>. QED  BY <2>2, <3>1, <3>2, <3>3, <3>4, <4>1
    <3>5. CASE j - 1 # 1
      <4>1. (j - 1) - 1 \in 1..n
        BY <3>1, <3>5
      <4>2. F[(j - 1) - 1] \in Seq(S)
        BY <1>1, <4>1
      <4>3. at[j - 1] = Len(F[(j - 1) - 1])
        BY <3>1, <3>5 DEF StartOf
      <4>4. Len(F[j - 1]) = Len(F[(j - 1) - 1]) + Len(ss[j - 1])
        BY <3>2, <3>3, <3>5, <4>2
      <4>. QED  BY <2>2, <3>1, <4>3, <4>4
    <3>. QED  BY <3>4, <3>5
  <2>. QED  BY <2>1, <2>2
<1>5. BlocksAt(at, ss, n)
  <2>1. ASSUME NEW j \in 1..n PROVE at[j] = StartOf(F, j)
    OBVIOUS
  <2>. HIDE DEF at
  <2>. QED  BY <1>2, <1>4, <2>1 DEF BlocksAt
<1>. QED  BY <1>3, <1>5

-----------------------------------------------------------------------------
(* Finite sets                                                             *)

\* A family with {} that has, with a set, what is one element larger has S.
LEMMA FiniteInduct ==
    ASSUME NEW S, IsFiniteSet(S), NEW F, {} \in F,
           \A T \in SUBSET S : T \in F => \A x \in S \ T : T \cup {x} \in F
    PROVE  \A T \in SUBSET S : T \in F
<1>. DEFINE Q == {n \in Nat : \A T \in SUBSET S : Cardinality(T) = n => T \in F}
<1>1. \A T \in SUBSET S : IsFiniteSet(T) /\ Cardinality(T) \in Nat
  BY FS_Subset, FS_CardinalityType
<1>2. 0 \in Q
  <2>. SUFFICES ASSUME NEW T \in SUBSET S, Cardinality(T) = 0 PROVE T \in F
    OBVIOUS
  <2>1. T = {}
    BY <1>1, FS_EmptySet
  <2>. QED  BY <2>1
<1>3. ASSUME NEW n \in Nat, n \in Q PROVE n + 1 \in Q
  <2>. SUFFICES ASSUME NEW T \in SUBSET S, Cardinality(T) = n + 1 PROVE T \in F
    OBVIOUS
  <2>1. T # {}
    BY FS_EmptySet
  <2>2. PICK x \in T : TRUE
    BY <2>1
  <2>3. IsFiniteSet(T)
    BY <1>1
  <2>4. Cardinality(T \ {x}) = Cardinality(T) - 1
    BY <2>2, <2>3, FS_RemoveElement
  <2>5. T \ {x} \in SUBSET S /\ Cardinality(T \ {x}) = n
    BY <2>4
  <2>6. T \ {x} \in F
    BY <1>3, <2>5
  <2>7. x \in S \ (T \ {x}) /\ T = (T \ {x}) \cup {x}
    BY <2>2
  <2>. QED  BY <2>5, <2>6, <2>7
<1>4. Nat \subseteq Q
  <2>. HIDE DEF Q
  <2>. QED  BY <1>2, <1>3, Induct
<1>. QED  BY <1>1, <1>4

LEMMA MaxIs ==
    ASSUME NEW S, S \subseteq Int, NEW m, m \in S, \A y \in S : y <= m
    PROVE  Max(S) = m
<1>1. m \in S /\ \A y \in S : m >= y
  OBVIOUS
<1>2. \A x \in S : (\A y \in S : x >= y) => x = m
  OBVIOUS
<1>. QED  BY <1>1, <1>2, Zenon DEF Max

LEMMA FiniteMax ==
    ASSUME NEW S, S \subseteq Int, IsFiniteSet(S), S # {}
    PROVE  Max(S) \in S /\ \A y \in S : y <= Max(S)
<1>. DEFINE F == {T \in SUBSET S : T # {} => \E m \in T : \A y \in T : y <= m}
<1>1. {} \in F
  OBVIOUS
<1>2. ASSUME NEW T \in SUBSET S, T \in F, NEW x \in S \ T PROVE T \cup {x} \in F
  <2>1. CASE T = {}
    BY <2>1
  <2>2. CASE T # {}
    <3>1. PICK m \in T : \A y \in T : y <= m
      BY <1>2, <2>2
    <3>2. CASE x <= m
      BY <3>1, <3>2
    <3>3. CASE m <= x
      <4>1. \A y \in T \cup {x} : y <= x
        BY <3>1, <3>3
      <4>. QED  BY <4>1
    <3>. QED  BY <3>1, <3>2, <3>3
  <2>. QED  BY <2>1, <2>2
<1>3. S \in F
  <2>. HIDE DEF F
  <2>. QED  BY <1>1, <1>2, FiniteInduct
<1>4. PICK m \in S : \A y \in S : y <= m
  BY <1>3
<1>. QED  BY <1>4, MaxIs

LEMMA Larger == ASSUME NEW a \in Int, NEW b \in Int PROVE Max({a, b}) = IF a >= b THEN a ELSE b
<1>1. CASE a >= b
  BY <1>1, MaxIs
<1>2. CASE ~(a >= b)
  BY <1>2, MaxIs
<1>. QED  BY <1>1, <1>2

LEMMA Smaller == ASSUME NEW a \in Int, NEW b \in Int PROVE Min({a, b}) = IF a <= b THEN a ELSE b
<1>. DEFINE m == IF a <= b THEN a ELSE b
<1>1. m \in {a, b} /\ \A y \in {a, b} : m <= y
  OBVIOUS
<1>2. \A x \in {a, b} : (\A y \in {a, b} : x <= y) => x = m
  OBVIOUS
<1>. HIDE DEF m
<1>3. Min({a, b}) = m
  BY <1>1, <1>2, Zenon DEF Min
<1>. QED  BY <1>3 DEF m

-----------------------------------------------------------------------------
(* Sums                                                                    *)

\* h has the sum of f over every subset of S.
Sums(h, f, S) ==
    h = [s \in SUBSET S |-> IF s = {} THEN 0
                            ELSE f[CHOOSE x \in s : TRUE] + h[s \ {CHOOSE x \in s : TRUE}]]

LEMMA SumIs == ASSUME NEW f, NEW S PROVE SumFunctionOnSet(f, S) = (CHOOSE h : Sums(h, f, S))[S]
BY DEF SumFunctionOnSet, FoldFunctionOnSet, MapThenFoldSet, Sums

LEMMA ChosenOne ==
    ASSUME NEW S, IsFiniteSet(S), NEW s \in SUBSET S, s # {}, NEW x, x = CHOOSE y \in s : TRUE
    PROVE  /\ x \in s /\ s \ {x} \in SUBSET S
           /\ Cardinality(s) \in Nat /\ Cardinality(s \ {x}) + 1 = Cardinality(s)
<1>1. x \in s
  OBVIOUS
<1>2. IsFiniteSet(s) /\ Cardinality(s) \in Nat
  BY FS_Subset, FS_CardinalityType
<1>3. Cardinality(s \ {x}) = Cardinality(s) - 1
  BY <1>1, <1>2, FS_RemoveElement
<1>. QED  BY <1>1, <1>2, <1>3

\* What Sums says of s.
SumStep(h, f, s) == IF s = {} THEN 0
                    ELSE f[CHOOSE x \in s : TRUE] + h[s \ {CHOOSE x \in s : TRUE}]
SumsUpTo(h, f, S, n) == \A s \in SUBSET S : Cardinality(s) <= n => h[s] = SumStep(h, f, s)

LEMMA SumsExist ==
    ASSUME NEW f, NEW S, IsFiniteSet(S)
    PROVE  \E h : Sums(h, f, S)
<1>. DEFINE Q == {n \in Nat : \E h : SumsUpTo(h, f, S, n)}
            Next(h) == [s \in SUBSET S |-> SumStep(h, f, s)]
<1>1. \A s \in SUBSET S : Cardinality(s) \in Nat /\ IsFiniteSet(s)
  BY FS_Subset, FS_CardinalityType
<1>2. 0 \in Q
  <2>. DEFINE h == [s \in SUBSET S |-> 0]
  <2>1. ASSUME NEW s \in SUBSET S, Cardinality(s) <= 0 PROVE h[s] = SumStep(h, f, s)
    <3>1. s = {}
      BY <1>1, <2>1, FS_EmptySet
    <3>. QED  BY <3>1 DEF SumStep
  <2>2. SumsUpTo(h, f, S, 0)
    BY <2>1 DEF SumsUpTo
  <2>. QED  BY <2>2
<1>3. ASSUME NEW n \in Nat, n \in Q PROVE n + 1 \in Q
  <2>1. PICK h : SumsUpTo(h, f, S, n)
    BY <1>3
  <2>. DEFINE g == Next(h)
  <2>2. \A s \in SUBSET S : g[s] = SumStep(h, f, s)
    OBVIOUS
  <2>. HIDE DEF g
  <2>3. ASSUME NEW s \in SUBSET S, Cardinality(s) <= n + 1 PROVE g[s] = SumStep(g, f, s)
    <3>1. CASE s = {}
      BY <2>2, <3>1 DEF SumStep
    <3>2. CASE s # {}
      <4>. DEFINE x == CHOOSE y \in s : TRUE
                  t == s \ {x}
      <4>1. t \in SUBSET S /\ Cardinality(t) + 1 = Cardinality(s) /\ Cardinality(t) \in Nat
        BY <1>1, <3>2, ChosenOne
      <4>2. Cardinality(t) <= n
        BY <2>3, <4>1
      <4>3. h[t] = SumStep(h, f, t)
        BY <2>1, <4>1, <4>2 DEF SumsUpTo
      <4>4. g[t] = h[t]
        BY <2>2, <4>1, <4>3
      <4>5. g[s] = f[x] + h[t] /\ SumStep(g, f, s) = f[x] + g[t]
        BY <2>2, <3>2 DEF SumStep
      <4>. QED  BY <4>4, <4>5
    <3>. QED  BY <3>1, <3>2
  <2>4. SumsUpTo(g, f, S, n + 1)
    BY <2>3 DEF SumsUpTo
  <2>. QED  BY <2>4
<1>4. Nat \subseteq Q
  <2>. HIDE DEF Q
  <2>. QED  BY <1>2, <1>3, Induct
<1>5. PICK h : SumsUpTo(h, f, S, Cardinality(S))
  BY <1>1, <1>4
<1>6. \A s \in SUBSET S : h[s] = SumStep(h, f, s)
  <2>1. \A s \in SUBSET S : Cardinality(s) <= Cardinality(S)
    BY FS_Subset
  <2>. QED  BY <1>5, <2>1 DEF SumsUpTo
<1>. DEFINE g == Next(h)
<1>7. \A s \in SUBSET S : g[s] = h[s]
  BY <1>6
<1>8. ASSUME NEW s \in SUBSET S PROVE SumStep(h, f, s) = SumStep(g, f, s)
  <2>1. CASE s = {}
    BY <2>1 DEF SumStep
  <2>2. CASE s # {}
    <3>. DEFINE t == s \ {CHOOSE y \in s : TRUE}
    <3>1. g[t] = h[t]
      BY <1>7
    <3>. HIDE DEF g
    <3>. QED  BY <2>2, <3>1 DEF SumStep
  <2>. QED  BY <2>1, <2>2
<1>9. g = [s \in SUBSET S |-> SumStep(g, f, s)]
  <2>1. g = [s \in SUBSET S |-> SumStep(h, f, s)]
    OBVIOUS
  <2>. HIDE DEF g
  <2>. QED  BY <1>8, <2>1
<1>10. Sums(g, f, S)
  <2>. HIDE DEF g
  <2>. QED  BY <1>9 DEF Sums, SumStep
<1>. QED  BY <1>10

\* The table of the sums over the subsets of S.
Table(f, S) == CHOOSE h : Sums(h, f, S)

LEMMA TableIs ==
    ASSUME NEW f, NEW S, IsFiniteSet(S), NEW s \in SUBSET S
    PROVE  Table(f, S)[s] = SumStep(Table(f, S), f, s)
<1>. DEFINE h == Table(f, S)
<1>1. Sums(h, f, S)
  BY SumsExist DEF Table
<1>. HIDE DEF h
<1>2. h = [r \in SUBSET S |-> SumStep(h, f, r)]
  BY <1>1 DEF Sums, SumStep
<1>. DEFINE g == [r \in SUBSET S |-> SumStep(h, f, r)]
<1>3. g[s] = SumStep(h, f, s)
  OBVIOUS
<1>. HIDE DEF g
<1>4. h = g
  BY <1>2 DEF g
<1>. QED  BY <1>3, <1>4 DEF h

\* Two functions that agree on s have the same sum over it, in whichever table.
LEMMA TablesAgree ==
    ASSUME NEW f, NEW g, NEW S, IsFiniteSet(S), NEW R, IsFiniteSet(R),
           NEW s \in SUBSET S, s \in SUBSET R, \A x \in s : f[x] = g[x]
    PROVE  Table(f, S)[s] = Table(g, R)[s]
<1>. DEFINE h == Table(f, S)
            k == Table(g, R)
            Q == {n \in Nat : \A r \in SUBSET s : Cardinality(r) = n => h[r] = k[r]}
<1>1. \A r \in SUBSET s : /\ h[r] = SumStep(h, f, r) /\ k[r] = SumStep(k, g, r)
                          /\ IsFiniteSet(r) /\ Cardinality(r) \in Nat /\ r \in SUBSET S
  BY TableIs, FS_Subset, FS_CardinalityType
<1>. HIDE DEF h, k
<1>2. 0 \in Q
  <2>. SUFFICES ASSUME NEW r \in SUBSET s, Cardinality(r) = 0 PROVE h[r] = k[r]
    OBVIOUS
  <2>1. r = {}
    BY <1>1, FS_EmptySet
  <2>. QED  BY <1>1, <2>1 DEF SumStep
<1>3. ASSUME NEW n \in Nat, n \in Q PROVE n + 1 \in Q
  <2>. SUFFICES ASSUME NEW r \in SUBSET s, Cardinality(r) = n + 1 PROVE h[r] = k[r]
    OBVIOUS
  <2>. DEFINE x == CHOOSE y \in r : TRUE
              t == r \ {x}
  <2>1. r # {}
    BY FS_EmptySet
  <2>2. x \in r /\ t \in SUBSET s /\ Cardinality(t) + 1 = Cardinality(r) /\ Cardinality(t) \in Nat
    BY <1>1, <2>1, ChosenOne
  <2>3. Cardinality(t) = n
    BY <2>2
  <2>4. h[t] = k[t]
    BY <1>3, <2>2, <2>3
  <2>5. h[r] = f[x] + h[t] /\ k[r] = g[x] + k[t]
    BY <1>1, <2>1 DEF SumStep
  <2>6. f[x] = g[x]
    BY <2>2
  <2>. QED  BY <2>4, <2>5, <2>6
<1>4. Nat \subseteq Q
  <2>. HIDE DEF Q
  <2>. QED  BY <1>2, <1>3, Induct
<1>5. s \in SUBSET s
  OBVIOUS
<1>. QED  BY <1>1, <1>4, <1>5 DEF h, k

LEMMA SumEmpty == ASSUME NEW f PROVE SumFunctionOnSet(f, {}) = 0
<1>1. IsFiniteSet({})
  BY FS_EmptySet
<1>. QED  BY <1>1, SumIs, TableIs DEF Table, SumStep

LEMMA SumSame ==
    ASSUME NEW f, NEW g, NEW S, IsFiniteSet(S), \A x \in S : f[x] = g[x]
    PROVE  SumFunctionOnSet(f, S) = SumFunctionOnSet(g, S)
<1>1. S \in SUBSET S
  OBVIOUS
<1>2. Table(f, S)[S] = Table(g, S)[S]
  BY <1>1, TablesAgree
<1>3. SumFunctionOnSet(f, S) = Table(f, S)[S] /\ SumFunctionOnSet(g, S) = Table(g, S)[S]
  BY SumIs DEF Table
<1>. QED  BY <1>2, <1>3

\* The sum over s is in the table of every larger set.
LEMMA SumInTable ==
    ASSUME NEW f, NEW S, IsFiniteSet(S), NEW s \in SUBSET S
    PROVE  Table(f, S)[s] = SumFunctionOnSet(f, s)
<1>1. IsFiniteSet(s)
  BY FS_Subset
<1>2. s \in SUBSET s /\ \A x \in s : f[x] = f[x]
  OBVIOUS
<1>3. Table(f, S)[s] = Table(f, s)[s]
  BY <1>1, <1>2, TablesAgree
<1>4. SumFunctionOnSet(f, s) = Table(f, s)[s]
  BY SumIs DEF Table
<1>. QED  BY <1>3, <1>4

LEMMA SumTakes ==
    ASSUME NEW f, NEW S, IsFiniteSet(S), S # {}
    PROVE  \E x \in S : SumFunctionOnSet(f, S) = f[x] + SumFunctionOnSet(f, S \ {x})
<1>. DEFINE x == CHOOSE y \in S : TRUE
<1>1. x \in S
  OBVIOUS
<1>2. SumFunctionOnSet(f, S) = Table(f, S)[S]
  BY SumIs DEF Table
<1>3. Table(f, S)[S] = f[x] + Table(f, S)[S \ {x}]
  <2>1. S \in SUBSET S
    OBVIOUS
  <2>2. Table(f, S)[S] = SumStep(Table(f, S), f, S)
    BY <2>1, TableIs
  <2>. DEFINE h == Table(f, S)
  <2>. HIDE DEF h
  <2>3. h[S] = SumStep(h, f, S)
    BY <2>2 DEF h
  <2>4. SumStep(h, f, S) = f[x] + h[S \ {x}]
    BY DEF SumStep
  <2>. QED  BY <2>3, <2>4 DEF h
<1>4. S \ {x} \in SUBSET S
  OBVIOUS
<1>5. Table(f, S)[S \ {x}] = SumFunctionOnSet(f, S \ {x})
  BY <1>4, SumInTable
<1>. QED  BY <1>1, <1>2, <1>3, <1>5

LEMMA SumInt ==
    ASSUME NEW f, NEW S, IsFiniteSet(S), \A x \in S : f[x] \in Int
    PROVE  SumFunctionOnSet(f, S) \in Int
<1>. DEFINE Q == {n \in Nat : \A T \in SUBSET S : Cardinality(T) = n => SumFunctionOnSet(f, T) \in Int}
<1>1. \A T \in SUBSET S : IsFiniteSet(T) /\ Cardinality(T) \in Nat
  BY FS_Subset, FS_CardinalityType
<1>2. 0 \in Q
  <2>. SUFFICES ASSUME NEW T \in SUBSET S, Cardinality(T) = 0 PROVE SumFunctionOnSet(f, T) \in Int
    OBVIOUS
  <2>1. T = {}
    BY <1>1, FS_EmptySet
  <2>. QED  BY <2>1, SumEmpty
<1>3. ASSUME NEW n \in Nat, n \in Q PROVE n + 1 \in Q
  <2>. SUFFICES ASSUME NEW T \in SUBSET S, Cardinality(T) = n + 1 PROVE SumFunctionOnSet(f, T) \in Int
    OBVIOUS
  <2>1. T # {} /\ IsFiniteSet(T)
    BY <1>1, FS_EmptySet
  <2>2. PICK x \in T : SumFunctionOnSet(f, T) = f[x] + SumFunctionOnSet(f, T \ {x})
    BY <2>1, SumTakes
  <2>3. Cardinality(T \ {x}) = Cardinality(T) - 1 /\ T \ {x} \in SUBSET S
    BY <2>1, FS_RemoveElement
  <2>4. Cardinality(T \ {x}) = n
    BY <2>3
  <2>5. SumFunctionOnSet(f, T \ {x}) \in Int
    BY <1>3, <2>3, <2>4
  <2>6. f[x] \in Int
    OBVIOUS
  <2>. QED  BY <2>2, <2>5, <2>6
<1>4. Nat \subseteq Q
  <2>. HIDE DEF Q
  <2>. QED  BY <1>2, <1>3, Induct
<1>. QED  BY <1>1, <1>4

\* It does not matter which element is taken first.
LEMMA SumWithout ==
    ASSUME NEW f, NEW S, IsFiniteSet(S), \A x \in S : f[x] \in Int, NEW y, y \in S
    PROVE  SumFunctionOnSet(f, S) = f[y] + SumFunctionOnSet(f, S \ {y})
<1>. DEFINE Sum(T) == SumFunctionOnSet(f, T)
            Q == {n \in Nat : \A T \in SUBSET S : Cardinality(T) = n =>
                                \A x \in T : Sum(T) = f[x] + Sum(T \ {x})}
<1>1. \A T \in SUBSET S : IsFiniteSet(T) /\ Cardinality(T) \in Nat
  BY FS_Subset, FS_CardinalityType
<1>a. \A T \in SUBSET S : Sum(T) \in Int
  BY <1>1, SumInt
<1>b. \A T \in SUBSET S : T # {} => \E x \in T : Sum(T) = f[x] + Sum(T \ {x})
  BY <1>1, SumTakes
<1>. HIDE DEF Sum
<1>2. 0 \in Q
  <2>. SUFFICES ASSUME NEW T \in SUBSET S, Cardinality(T) = 0, NEW x \in T PROVE FALSE
    OBVIOUS
  <2>. QED  BY <1>1, FS_EmptySet
<1>3. ASSUME NEW n \in Nat, n \in Q PROVE n + 1 \in Q
  <2>. SUFFICES ASSUME NEW T \in SUBSET S, Cardinality(T) = n + 1, NEW x \in T
               PROVE  Sum(T) = f[x] + Sum(T \ {x})
    OBVIOUS
  <2>1. PICK z \in T : Sum(T) = f[z] + Sum(T \ {z})
    BY <1>b
  <2>2. CASE x = z
    BY <2>1, <2>2
  <2>3. CASE x # z
    <3>1. /\ T \ {z} \in SUBSET S /\ T \ {x} \in SUBSET S /\ IsFiniteSet(T)
          /\ x \in T \ {z} /\ z \in T \ {x}
      BY <1>1, <2>3
    <3>2. Cardinality(T \ {z}) = n /\ Cardinality(T \ {x}) = n
      <4>1. Cardinality(T \ {z}) = Cardinality(T) - 1 /\ Cardinality(T \ {x}) = Cardinality(T) - 1
        BY <3>1, FS_RemoveElement
      <4>. QED  BY <4>1
    <3>3. Sum(T \ {z}) = f[x] + Sum((T \ {z}) \ {x})
      BY <1>3, <3>1, <3>2
    <3>4. Sum(T \ {x}) = f[z] + Sum((T \ {x}) \ {z})
      BY <1>3, <3>1, <3>2
    <3>5. (T \ {x}) \ {z} = (T \ {z}) \ {x} /\ (T \ {x}) \ {z} \in SUBSET S
      OBVIOUS
    <3>6. Sum((T \ {x}) \ {z}) \in Int /\ f[x] \in Int /\ f[z] \in Int
      BY <1>a, <3>5
    <3>. DEFINE c == Sum((T \ {x}) \ {z})
    <3>7. Sum(T) = f[z] + (f[x] + c) /\ Sum(T \ {x}) = f[z] + c
      BY <2>1, <3>3, <3>4, <3>5
    <3>8. c \in Int
      BY <3>6
    <3>. HIDE DEF c
    <3>9. f[z] + (f[x] + c) = f[x] + (f[z] + c)
      BY <3>6, <3>8
    <3>. QED  BY <3>7, <3>9
  <2>. QED  BY <2>2, <2>3
<1>4. Nat \subseteq Q
  <2>. HIDE DEF Q
  <2>. QED  BY <1>2, <1>3, Induct
<1>5. S \in SUBSET S
  OBVIOUS
<1>6. Sum(S) = f[y] + Sum(S \ {y})
  BY <1>1, <1>4, <1>5
<1>. QED  BY <1>6 DEF Sum

\* One more element.
LEMMA SumMore ==
    ASSUME NEW f, NEW S, IsFiniteSet(S), NEW y, y \notin S, \A x \in S \cup {y} : f[x] \in Int
    PROVE  SumFunctionOnSet(f, S \cup {y}) = f[y] + SumFunctionOnSet(f, S)
<1>1. IsFiniteSet(S \cup {y}) /\ y \in S \cup {y} /\ (S \cup {y}) \ {y} = S
  BY FS_AddElement
<1>2. SumFunctionOnSet(f, S \cup {y}) = f[y] + SumFunctionOnSet(f, (S \cup {y}) \ {y})
  BY <1>1, SumWithout
<1>. QED  BY <1>1, <1>2

\* What is smaller everywhere has a smaller sum.
LEMMA SumLe ==
    ASSUME NEW f, NEW g, NEW S, IsFiniteSet(S),
           \A x \in S : f[x] \in Int /\ g[x] \in Int /\ f[x] <= g[x]
    PROVE  SumFunctionOnSet(f, S) <= SumFunctionOnSet(g, S)
<1>. DEFINE F == {T \in SUBSET S : SumFunctionOnSet(f, T) <= SumFunctionOnSet(g, T)}
<1>1. {} \in F
  BY SumEmpty
<1>2. ASSUME NEW T \in SUBSET S, T \in F, NEW x \in S \ T PROVE T \cup {x} \in F
  <2>. DEFINE a == SumFunctionOnSet(f, T)
              b == SumFunctionOnSet(g, T)
  <2>1. IsFiniteSet(T)
    BY FS_Subset
  <2>2. a \in Int /\ b \in Int
    BY <2>1, SumInt
  <2>3. SumFunctionOnSet(f, T \cup {x}) = f[x] + a /\ SumFunctionOnSet(g, T \cup {x}) = g[x] + b
    BY <2>1, SumMore
  <2>4. f[x] \in Int /\ g[x] \in Int /\ f[x] <= g[x] /\ a <= b
    BY <1>2
  <2>. HIDE DEF a, b
  <2>5. f[x] + a <= g[x] + b
    BY <2>2, <2>4
  <2>. QED  BY <2>3, <2>5
<1>. HIDE DEF F
<1>3. S \in F
  BY <1>1, <1>2, FiniteInduct
<1>. QED  BY <1>3 DEF F

\* The mean is not larger than every value.
LEMMA SumAtMost ==
    ASSUME NEW f, NEW S, IsFiniteSet(S), NEW c \in Int, \A x \in S : f[x] \in Int /\ f[x] <= c
    PROVE  SumFunctionOnSet(f, S) <= c * Cardinality(S)
<1>. DEFINE F == {T \in SUBSET S : SumFunctionOnSet(f, T) <= c * Cardinality(T)}
<1>1. {} \in F
  BY SumEmpty, FS_EmptySet
<1>2. ASSUME NEW T \in SUBSET S, T \in F, NEW x \in S \ T PROVE T \cup {x} \in F
  <2>. DEFINE a == SumFunctionOnSet(f, T)
              n == Cardinality(T)
  <2>1. IsFiniteSet(T)
    BY FS_Subset
  <2>2. a \in Int /\ n \in Nat
    BY <2>1, SumInt, FS_CardinalityType
  <2>3. SumFunctionOnSet(f, T \cup {x}) = f[x] + a /\ Cardinality(T \cup {x}) = n + 1
    BY <2>1, SumMore, FS_AddElement
  <2>4. f[x] \in Int /\ f[x] <= c /\ a <= c * n
    BY <1>2
  <2>. HIDE DEF a, n
  <2>5. f[x] + a <= c * (n + 1)
    BY <2>2, <2>4
  <2>. QED  BY <2>3, <2>5
<1>. HIDE DEF F
<1>3. S \in F
  BY <1>1, <1>2, FiniteInduct
<1>. QED  BY <1>3 DEF F

\* A sum over disjoint sets.
LEMMA SumUnion ==
    ASSUME NEW f, NEW R, IsFiniteSet(R), NEW S, IsFiniteSet(S), R \cap S = {},
           \A x \in R \cup S : f[x] \in Int
    PROVE  SumFunctionOnSet(f, R \cup S) = SumFunctionOnSet(f, R) + SumFunctionOnSet(f, S)
<1>. DEFINE r == SumFunctionOnSet(f, R)
            F == {T \in SUBSET S : SumFunctionOnSet(f, R \cup T) = r + SumFunctionOnSet(f, T)}
<1>1. {} \in F
  <2>1. R \cup {} = R /\ r \in Int
    BY SumInt
  <2>. QED  BY <2>1, SumEmpty
<1>2. ASSUME NEW T \in SUBSET S, T \in F, NEW x \in S \ T PROVE T \cup {x} \in F
  <2>. DEFINE a == SumFunctionOnSet(f, T)
  <2>1. IsFiniteSet(T) /\ IsFiniteSet(R \cup T)
    BY FS_Subset, FS_Union
  <2>2. a \in Int /\ r \in Int
    BY <2>1, SumInt
  <2>3. R \cup (T \cup {x}) = (R \cup T) \cup {x} /\ x \notin R \cup T
    OBVIOUS
  <2>4. SumFunctionOnSet(f, (R \cup T) \cup {x}) = f[x] + SumFunctionOnSet(f, R \cup T)
    BY <2>1, <2>3, SumMore
  <2>5. SumFunctionOnSet(f, T \cup {x}) = f[x] + a
    BY <2>1, SumMore
  <2>6. f[x] \in Int /\ SumFunctionOnSet(f, R \cup T) = r + a
    BY <1>2
  <2>7. T \cup {x} \in SUBSET S
    OBVIOUS
  <2>8. SumFunctionOnSet(f, R \cup (T \cup {x})) = f[x] + (r + a)
    BY <2>3, <2>4, <2>6
  <2>. HIDE DEF a, r
  <2>9. f[x] + (r + a) = r + (f[x] + a)
    BY <2>2, <2>6
  <2>. QED  BY <2>5, <2>7, <2>8, <2>9
<1>. HIDE DEF F
<1>3. S \in F
  BY <1>1, <1>2, FiniteInduct
<1>. QED  BY <1>3 DEF F

\* A part of a sum of natural numbers.
LEMMA SumPart ==
    ASSUME NEW f, NEW S, IsFiniteSet(S), \A x \in S : f[x] \in Nat, NEW R \in SUBSET S
    PROVE  /\ SumFunctionOnSet(f, R) \in Nat /\ SumFunctionOnSet(f, S) \in Nat
           /\ SumFunctionOnSet(f, R) <= SumFunctionOnSet(f, S)
<1>1. ASSUME NEW T \in SUBSET S PROVE SumFunctionOnSet(f, T) \in Nat
  <2>. DEFINE z == [x \in T |-> 0]
  <2>1. IsFiniteSet(T)
    BY FS_Subset
  <2>2. SumFunctionOnSet(z, T) <= SumFunctionOnSet(f, T)
    BY <2>1, SumLe
  <2>3. SumFunctionOnSet(f, T) \in Int /\ SumFunctionOnSet(z, T) \in Int
    BY <2>1, SumInt
  <2>4. SumFunctionOnSet(z, T) >= 0
    <3>. DEFINE F == {U \in SUBSET T : SumFunctionOnSet(z, U) = 0}
    <3>1. {} \in F
      BY SumEmpty
    <3>2. ASSUME NEW U \in SUBSET T, U \in F, NEW x \in T \ U PROVE U \cup {x} \in F
      <4>1. IsFiniteSet(U)
        BY <2>1, FS_Subset
      <4>2. SumFunctionOnSet(z, U \cup {x}) = z[x] + SumFunctionOnSet(z, U)
        BY <4>1, SumMore
      <4>3. z[x] = 0 /\ SumFunctionOnSet(z, U) = 0
        BY <3>2
      <4>. QED  BY <4>2, <4>3
    <3>. HIDE DEF F
    <3>3. T \in F
      BY <2>1, <3>1, <3>2, FiniteInduct
    <3>. QED  BY <3>3 DEF F
  <2>. HIDE DEF z
  <2>. QED  BY <2>2, <2>3, <2>4
<1>2. S \ R \in SUBSET S /\ S \in SUBSET S /\ S = R \cup (S \ R) /\ R \cap (S \ R) = {}
  OBVIOUS
<1>3. IsFiniteSet(R) /\ IsFiniteSet(S \ R)
  BY <1>2, FS_Subset
<1>4. SumFunctionOnSet(f, R \cup (S \ R)) = SumFunctionOnSet(f, R) + SumFunctionOnSet(f, S \ R)
  BY <1>2, <1>3, SumUnion
<1>5. SumFunctionOnSet(f, S) = SumFunctionOnSet(f, R) + SumFunctionOnSet(f, S \ R)
  BY <1>2, <1>4
<1>6. SumFunctionOnSet(f, R) \in Nat /\ SumFunctionOnSet(f, S \ R) \in Nat
  BY <1>1, <1>2
<1>7. SumFunctionOnSet(f, S) \in Nat
  BY <1>1, <1>2
<1>. QED  BY <1>5, <1>6, <1>7

\* One value grows by d, and so does the sum.
LEMMA SumGrows ==
    ASSUME NEW f, NEW g, NEW S, IsFiniteSet(S), NEW y \in S, NEW d \in Int,
           \A x \in S : f[x] \in Int, g[y] = f[y] + d, \A x \in S \ {y} : g[x] = f[x]
    PROVE  SumFunctionOnSet(g, S) = SumFunctionOnSet(f, S) + d
<1>. DEFINE a == SumFunctionOnSet(f, S \ {y})
<1>1. IsFiniteSet(S \ {y})
  BY FS_Subset
<1>2. a \in Int
  BY <1>1, SumInt
<1>3. SumFunctionOnSet(g, S \ {y}) = a
  BY <1>1, SumSame
<1>4. f[y] \in Int /\ \A x \in S : g[x] \in Int
  OBVIOUS
<1>5. SumFunctionOnSet(f, S) = f[y] + a
  BY SumWithout
<1>6. SumFunctionOnSet(g, S) = g[y] + SumFunctionOnSet(g, S \ {y})
  BY <1>4, SumWithout
<1>7. SumFunctionOnSet(g, S) = (f[y] + d) + a
  BY <1>3, <1>6
<1>. HIDE DEF a
<1>8. (f[y] + d) + a = (f[y] + a) + d
  BY <1>2, <1>4
<1>. QED  BY <1>5, <1>7, <1>8

\* Added up group by group.
LEMMA SumGroups ==
    ASSUME NEW f, NEW S, IsFiniteSet(S), \A x \in S : f[x] \in Int,
           NEW K, IsFiniteSet(K), NEW key, \A x \in S : key[x] \in K
    PROVE  SumFunctionOnSet([k \in K |-> SumFunctionOnSet(f, {x \in S : key[x] = k})], K)
             = SumFunctionOnSet(f, S)
<1>. DEFINE Of(T, k) == {x \in T : key[x] = k}
            By(T) == [k \in K |-> SumFunctionOnSet(f, Of(T, k))]
            F == {T \in SUBSET S : SumFunctionOnSet(By(T), K) = SumFunctionOnSet(f, T)}
<1>1. {} \in F
  <2>1. \A k \in K : Of({}, k) = {}
    OBVIOUS
  <2>2. \A k \in K : By({})[k] = 0
    BY <2>1, SumEmpty
  <2>. DEFINE b == By({})
              G == {U \in SUBSET K : SumFunctionOnSet(b, U) = 0}
  <2>. HIDE DEF b
  <2>3. {} \in G
    BY SumEmpty
  <2>4. ASSUME NEW U \in SUBSET K, U \in G, NEW x \in K \ U PROVE U \cup {x} \in G
    <3>1. IsFiniteSet(U) /\ \A k \in U \cup {x} : b[k] = 0
      BY <2>2, FS_Subset DEF b
    <3>2. SumFunctionOnSet(b, U \cup {x}) = b[x] + SumFunctionOnSet(b, U)
      BY <3>1, SumMore
    <3>3. b[x] = 0 /\ SumFunctionOnSet(b, U) = 0
      BY <2>4, <3>1
    <3>. QED  BY <3>2, <3>3
  <2>. HIDE DEF G
  <2>5. K \in G
    BY <2>3, <2>4, FiniteInduct
  <2>. QED  BY <2>5, SumEmpty DEF b, G
<1>2. ASSUME NEW T \in SUBSET S, T \in F, NEW y \in S \ T PROVE T \cup {y} \in F
  <2>. DEFINE b == By(T)
              c == By(T \cup {y})
              q == key[y]
  <2>0. IsFiniteSet(T) /\ q \in K /\ f[y] \in Int
    BY FS_Subset
  <2>1. ASSUME NEW k \in K PROVE IsFiniteSet(Of(T, k)) /\ b[k] \in Int
    <3>1. IsFiniteSet(Of(T, k)) /\ \A x \in Of(T, k) : f[x] \in Int
      BY <2>0, FS_Subset
    <3>. QED  BY <3>1, SumInt
  <2>2. ASSUME NEW k \in K \ {q} PROVE c[k] = b[k]
    <3>1. Of(T \cup {y}, k) = Of(T, k)
      OBVIOUS
    <3>. QED  BY <3>1
  <2>3. c[q] = b[q] + f[y]
    <3>1. Of(T \cup {y}, q) = Of(T, q) \cup {y} /\ y \notin Of(T, q)
      OBVIOUS
    <3>2. IsFiniteSet(Of(T, q)) /\ b[q] \in Int
      BY <2>0, <2>1
    <3>3. SumFunctionOnSet(f, Of(T, q) \cup {y}) = f[y] + SumFunctionOnSet(f, Of(T, q))
      BY <3>1, <3>2, SumMore
    <3>4. c[q] = f[y] + b[q]
      BY <2>0, <3>1, <3>3
    <3>. HIDE DEF b, c
    <3>. QED  BY <2>0, <3>2, <3>4
  <2>. HIDE DEF b, c
  <2>4. SumFunctionOnSet(c, K) = SumFunctionOnSet(b, K) + f[y]
    <3>1. \A k \in K : b[k] \in Int
      BY <2>1
    <3>2. \A k \in K \ {q} : c[k] = b[k]
      BY <2>2
    <3>. DEFINE d == f[y]
    <3>3. d \in Int /\ c[q] = b[q] + d
      BY <2>0, <2>3
    <3>. HIDE DEF d, q
    <3>4. SumFunctionOnSet(c, K) = SumFunctionOnSet(b, K) + d
      BY <2>0, <3>1, <3>2, <3>3, SumGrows
    <3>. QED  BY <3>4 DEF d
  <2>5. SumFunctionOnSet(f, T \cup {y}) = f[y] + SumFunctionOnSet(f, T)
    BY <2>0, SumMore
  <2>6. SumFunctionOnSet(b, K) = SumFunctionOnSet(f, T)
    BY <1>2 DEF b
  <2>7. SumFunctionOnSet(f, T) \in Int
    BY <2>0, SumInt
  <2>8. SumFunctionOnSet(c, K) = SumFunctionOnSet(f, T \cup {y})
    BY <2>0, <2>4, <2>5, <2>6, <2>7
  <2>9. T \cup {y} \in SUBSET S
    OBVIOUS
  <2>. QED  BY <2>8, <2>9 DEF c
<1>. HIDE DEF F
<1>3. S \in F
  BY <1>1, <1>2, FiniteInduct
<1>. QED  BY <1>3 DEF F

LEMMA SumOne ==
    ASSUME NEW f, NEW y, f[y] \in Int
    PROVE  SumFunctionOnSet(f, {y}) = f[y]
<1>1. IsFiniteSet({}) /\ {} \cup {y} = {y}
  BY FS_EmptySet
<1>2. SumFunctionOnSet(f, {} \cup {y}) = f[y] + SumFunctionOnSet(f, {})
  BY <1>1, SumMore
<1>. QED  BY <1>1, <1>2, SumEmpty

-----------------------------------------------------------------------------
(* Folds from the left                                                     *)

\* h has what step makes of the elements of every set of numbers, the
\* smallest first.
Folds(h, step, b, n) ==
    \A s \in SUBSET (1..n) :
        h[s] = IF s = {} THEN b ELSE step[<<h[s \ {Max(s)}], Max(s)>>]

LEMMA MaxOf ==
    ASSUME NEW n \in Nat, NEW s \in SUBSET (1..n), s # {}
    PROVE  Max(s) \in s /\ s \ {Max(s)} \in SUBSET (1..n) /\ \A y \in s : y <= Max(s)
<1>1. IsFiniteSet(s) /\ s \subseteq Int
  <2>1. 1 \in Int /\ n \in Int
    OBVIOUS
  <2>2. IsFiniteSet(1..n)
    BY <2>1, FS_Interval
  <2>3. IsFiniteSet(s)
    BY <2>2, FS_Subset
  <2>. QED  BY <2>3
<1>2. Max(s) \in s /\ \A y \in s : y <= Max(s)
  BY <1>1, FiniteMax
<1>. QED  BY <1>2

LEMMA FoldExists ==
    ASSUME NEW A, NEW n \in Nat, NEW step \in [A \X (1..n) -> A], NEW b \in A
    PROVE  \E h \in [SUBSET (1..n) -> A] : Folds(h, step, b, n)
<1>. DEFINE Some(m) == \E h \in [SUBSET (1..m) -> A] : Folds(h, step, b, m)
            Q == {m \in Nat : m <= n => Some(m)}
<1>1. 0 \in Q
  <2>. DEFINE h == [s \in SUBSET (1..0) |-> b]
  <2>1. \A s \in SUBSET (1..0) : s = {}
    OBVIOUS
  <2>2. h \in [SUBSET (1..0) -> A] /\ Folds(h, step, b, 0)
    BY <2>1 DEF Folds
  <2>. QED  BY <2>2
<1>2. ASSUME NEW m \in Nat, m \in Q PROVE m + 1 \in Q
  <2>. SUFFICES ASSUME m + 1 <= n PROVE Some(m + 1)
    <3>. HIDE DEF Some
    <3>. QED  OBVIOUS
  <2>0. Some(m)
    <3>. HIDE DEF Some
    <3>. QED  BY <1>2
  <2>1. PICK h \in [SUBSET (1..m) -> A] : Folds(h, step, b, m)
    BY <2>0
  <2>. DEFINE g == [s \in SUBSET (1..(m + 1)) |->
                        IF m + 1 \in s THEN step[<<h[s \ {m + 1}], m + 1>>] ELSE h[s]]
  <2>2. ASSUME NEW s \in SUBSET (1..(m + 1)), m + 1 \in s
        PROVE  /\ s \ {m + 1} \in SUBSET (1..m) /\ s # {} /\ Max(s) = m + 1
               /\ g[s] = step[<<h[s \ {m + 1}], m + 1>>] /\ g[s \ {m + 1}] = h[s \ {m + 1}]
    <3>1. s \ {m + 1} \in SUBSET (1..m) /\ s # {}
      BY <2>2
    <3>2. s \subseteq Int /\ \A y \in s : y <= m + 1
      OBVIOUS
    <3>3. Max(s) = m + 1
      BY <2>2, <3>2, MaxIs
    <3>4. s \ {m + 1} \in SUBSET (1..(m + 1)) /\ m + 1 \notin s \ {m + 1}
      OBVIOUS
    <3>. QED  BY <2>2, <3>1, <3>3, <3>4
  <2>3. ASSUME NEW s \in SUBSET (1..(m + 1)), m + 1 \notin s
        PROVE  s \in SUBSET (1..m) /\ g[s] = h[s]
    <3>1. s \in SUBSET (1..m)
      BY <2>3
    <3>. QED  BY <2>3, <3>1
  <2>4. g \in [SUBSET (1..(m + 1)) -> A]
    <3>. SUFFICES ASSUME NEW s \in SUBSET (1..(m + 1)) PROVE g[s] \in A
      OBVIOUS
    <3>1. CASE m + 1 \in s
      <4>1. h[s \ {m + 1}] \in A /\ m + 1 \in 1..n
        BY <2>2, <3>1
      <4>. QED  BY <2>2, <3>1, <4>1
    <3>2. CASE m + 1 \notin s
      BY <2>3, <3>2
    <3>. QED  BY <3>1, <3>2
  <2>. HIDE DEF g
  <2>5. ASSUME NEW s \in SUBSET (1..(m + 1))
        PROVE  g[s] = IF s = {} THEN b ELSE step[<<g[s \ {Max(s)}], Max(s)>>]
    <3>1. CASE m + 1 \in s
      BY <2>2, <3>1
    <3>2. CASE m + 1 \notin s
      <4>1. s \in SUBSET (1..m) /\ g[s] = h[s]
        BY <2>3, <3>2
      <4>2. h[s] = IF s = {} THEN b ELSE step[<<h[s \ {Max(s)}], Max(s)>>]
        BY <2>1, <4>1 DEF Folds
      <4>3. g[s \ {Max(s)}] = h[s \ {Max(s)}]
        <5>1. s \ {Max(s)} \in SUBSET (1..(m + 1)) /\ m + 1 \notin s \ {Max(s)}
          BY <3>2
        <5>. QED  BY <2>3, <5>1
      <4>. QED  BY <4>1, <4>2, <4>3
    <3>. QED  BY <3>1, <3>2
  <2>6. Folds(g, step, b, m + 1)
    BY <2>5 DEF Folds
  <2>. QED  BY <2>4, <2>6
<1>3. Nat \subseteq Q
  <2>. HIDE DEF Q
  <2>. QED  BY <1>1, <1>2, Induct
<1>4. Some(n)
  <2>. HIDE DEF Some
  <2>. QED  BY <1>3
<1>. QED  BY <1>4

\* The numbers up to k, without the last.
LEMMA UpTo ==
    ASSUME NEW n \in Nat, NEW k \in 1..n
    PROVE  /\ 1..k \in SUBSET (1..n) /\ 1..k # {} /\ Max(1..k) = k
           /\ (1..k) \ {k} = 1..(k - 1) /\ 1..(k - 1) \in SUBSET (1..n)
<1>1. k \in 1..k /\ 1..k \subseteq Int /\ \A y \in 1..k : y <= k
  OBVIOUS
<1>2. Max(1..k) = k
  BY <1>1, MaxIs
<1>. QED  BY <1>1, <1>2
=============================================================================
