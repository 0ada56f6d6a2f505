--------------------------- MODULE Ranking_proofs ---------------------------
(***************************************************************************)
(* Lemmas about Ranking: the members of a finite set of integers have the  *)
(* ranks 1 .. Cardinality(K), each rank one member.  With them the least   *)
(* and the greatest of a set, and some facts about sequences.              *)
(***************************************************************************)
EXTENDS Ranking, Sequences, FiniteSetsExt, Functions, FiniteSetTheorems, SequenceTheorems, TLAPS

\* The numbers from 1 to n are n in number.
LEMMA UpTo ==
  ASSUME NEW n \in Nat
  PROVE  IsFiniteSet(1 .. n) /\ Cardinality(1 .. n) = n
<1>1. IsFiniteSet(1 .. n) /\ Cardinality(1 .. n) = IF 1 > n THEN 0 ELSE n - 1 + 1
  BY FS_Interval
<1>2. (IF 1 > n THEN 0 ELSE n - 1 + 1) = n
  OBVIOUS
<1> QED
  BY <1>1, <1>2

\* The rank of a member counts at least the member and at most the set.
LEMMA RankType ==
  ASSUME NEW K \in SUBSET Int, IsFiniteSet(K), NEW k \in K
  PROVE  Rank(K, k) \in 1 .. Cardinality(K)
<1> DEFINE below == {j \in K : j <= k}
<1>1. IsFiniteSet(below) /\ Cardinality(below) <= Cardinality(K)
  BY FS_Subset
<1>2. Cardinality(below) \in Nat /\ Cardinality(K) \in Nat
  BY <1>1, FS_CardinalityType
<1>3. Cardinality(below) # 0
  <2>1. k \in below
    OBVIOUS
  <2> QED
    BY <1>1, <2>1, FS_EmptySet
<1> QED
  BY <1>1, <1>2, <1>3 DEF Rank

\* A greater member has a greater rank.
LEMMA RankMonotone ==
  ASSUME NEW K \in SUBSET Int, IsFiniteSet(K), NEW k \in K, NEW l \in K, k < l
  PROVE  Rank(K, k) < Rank(K, l)
<1> DEFINE upTo(m) == {j \in K : j <= m}
<1>1. IsFiniteSet(upTo(l))
  BY FS_Subset
<1>2. upTo(k) \in SUBSET upTo(l)
  <2>1. \A j \in K : j <= k => j <= l
    OBVIOUS
  <2> QED
    BY <2>1
<1>3. upTo(k) # upTo(l)
  <2>1. l \in upTo(l) /\ l \notin upTo(k)
    OBVIOUS
  <2> QED
    BY <2>1
<1>4. Cardinality(upTo(k)) <= Cardinality(upTo(l)) /\ Cardinality(upTo(k)) # Cardinality(upTo(l))
  <2> HIDE DEF upTo
  <2> QED
    BY <1>1, <1>2, <1>3, FS_Subset
<1>5. Cardinality(upTo(k)) \in Nat /\ Cardinality(upTo(l)) \in Nat
  <2>1. IsFiniteSet(upTo(k))
    BY FS_Subset
  <2> QED
    BY <1>1, <2>1, FS_CardinalityType
<1> QED
  BY <1>4, <1>5 DEF Rank

\* Two members never share a rank.
LEMMA RankInjective ==
  ASSUME NEW K \in SUBSET Int, IsFiniteSet(K), NEW k \in K, NEW l \in K, Rank(K, k) = Rank(K, l)
  PROVE  k = l
<1>1. Rank(K, k) \in Nat /\ Rank(K, l) \in Nat
  <2>1. Rank(K, k) \in 1 .. Cardinality(K) /\ Rank(K, l) \in 1 .. Cardinality(K)
    BY RankType
  <2> QED
    BY <2>1
<1>2. CASE k < l
  BY <1>1, <1>2, RankMonotone
<1>3. CASE l < k
  BY <1>1, <1>3, RankMonotone
<1> QED
  BY <1>2, <1>3

\* Every rank is taken: there are as many ranks as members.
LEMMA RankSurjective ==
  ASSUME NEW K \in SUBSET Int, IsFiniteSet(K), NEW n \in 1 .. Cardinality(K)
  PROVE  \E k \in K : Rank(K, k) = n
<1> DEFINE T == 1 .. Cardinality(K)
           f == [k \in K |-> Rank(K, k)]
<1>1. Cardinality(K) \in Nat
  BY FS_CardinalityType
<1>2. IsFiniteSet(T) /\ Cardinality(T) = Cardinality(K)
  BY <1>1, UpTo
<1>3. f \in Injection(K, T)
  <2>1. f \in [K -> T]
    BY RankType
  <2>2. \A k, l \in K : f[k] = f[l] => k = l
    BY RankInjective
  <2> QED
    BY <2>1, <2>2 DEF Injection, IsInjective
<1>4. f \in Surjection(K, T)
  <2> HIDE DEF f, T
  <2> QED
    BY <1>2, <1>3, FS_Injection
<1> QED
  BY <1>4 DEF Surjection

\* NthOf is the inverse of Rank.
LEMMA NthOfRank ==
  ASSUME NEW K \in SUBSET Int, IsFiniteSet(K)
  PROVE  /\ \A n \in 1 .. Cardinality(K) : NthOf(K, n) \in K /\ Rank(K, NthOf(K, n)) = n
         /\ \A k \in K : NthOf(K, Rank(K, k)) = k
<1>1. ASSUME NEW n \in 1 .. Cardinality(K)
      PROVE  NthOf(K, n) \in K /\ Rank(K, NthOf(K, n)) = n
  BY RankSurjective DEF NthOf
<1>2. ASSUME NEW k \in K
      PROVE  NthOf(K, Rank(K, k)) = k
  <2>1. Rank(K, k) \in 1 .. Cardinality(K)
    BY RankType
  <2>2. NthOf(K, Rank(K, k)) \in K /\ Rank(K, NthOf(K, Rank(K, k))) = Rank(K, k)
    BY <1>1, <2>1
  <2>3. \A l \in K : Rank(K, l) = Rank(K, k) => l = k
    BY RankInjective
  <2> QED
    BY <2>2, <2>3
<1> QED
  BY <1>1, <1>2

\* In 1 .. n every number is its own rank.
LEMMA NthOfInterval ==
  ASSUME NEW n \in Nat, NEW k \in 1 .. n
  PROVE  NthOf(1 .. n, k) = k
<1>1. {j \in 1 .. n : j <= k} = 1 .. k
  OBVIOUS
<1>2. Rank(1 .. n, k) = k
  <2>1. k \in Nat
    OBVIOUS
  <2>2. Cardinality(1 .. k) = k
    BY <2>1, UpTo
  <2> QED
    BY <1>1, <2>2 DEF Rank
<1>3. 1 .. n \in SUBSET Int /\ IsFiniteSet(1 .. n)
  BY UpTo
<1>4. NthOf(1 .. n, Rank(1 .. n, k)) = k
  BY <1>3, NthOfRank
<1> QED
  BY <1>2, <1>4

\* A finite set of integers that is not empty has a greatest member.
LEMMA Greatest ==
  ASSUME NEW K \in SUBSET Int, IsFiniteSet(K), K # {}
  PROVE  \E k \in K : \A j \in K : j <= k
<1> DEFINE k == NthOf(K, Cardinality(K))
           upTo == {j \in K : j <= k}
<1>1. Cardinality(K) \in Nat /\ Cardinality(K) # 0
  BY FS_CardinalityType, FS_EmptySet
<1>2. k \in K /\ Cardinality(upTo) = Cardinality(K)
  <2>1. Cardinality(K) \in 1 .. Cardinality(K)
    BY <1>1
  <2>2. k \in K /\ Rank(K, k) = Cardinality(K)
    BY <2>1, NthOfRank
  <2> QED
    BY <2>2 DEF Rank
<1>3. upTo = K
  <2>1. upTo \in SUBSET K
    OBVIOUS
  <2> HIDE DEF upTo
  <2> QED
    BY <1>2, <2>1, FS_Subset
<1> QED
  BY <1>2, <1>3

\* ... and a least one.
LEMMA Least ==
  ASSUME NEW K \in SUBSET Int, IsFiniteSet(K), K # {}
  PROVE  \E k \in K : \A j \in K : k <= j
<1> DEFINE k == NthOf(K, 1)
<1>1. Cardinality(K) \in Nat /\ Cardinality(K) # 0
  BY FS_CardinalityType, FS_EmptySet
<1>2. k \in K /\ Rank(K, k) = 1
  <2>1. 1 \in 1 .. Cardinality(K)
    BY <1>1
  <2> QED
    BY <2>1, NthOfRank
<1> HIDE DEF k
<1>3. ASSUME NEW j \in K, j < k PROVE FALSE
  <2>1. Rank(K, j) < 1
    BY <1>2, <1>3, RankMonotone
  <2>2. Rank(K, j) \in 1 .. Cardinality(K)
    BY RankType
  <2> QED
    BY <1>1, <2>1, <2>2
<1> QED
  BY <1>2, <1>3

\* The members at some places of a sequence, in their order, are a sequence.
LEMMA ChosenType ==
  ASSUME NEW S, NEW q \in Seq(S), NEW K \in SUBSET DOMAIN q
  PROVE  /\ [n \in 1 .. Cardinality(K) |-> q[NthOf(K, n)]] \in Seq(S)
         /\ K = DOMAIN q => [n \in 1 .. Cardinality(K) |-> q[NthOf(K, n)]] = q
<1>1. Len(q) \in Nat /\ DOMAIN q = 1 .. Len(q) /\ \A k \in DOMAIN q : q[k] \in S
  OBVIOUS
<1>2. IsFiniteSet(K) /\ K \in SUBSET Int /\ Cardinality(K) \in Nat
  BY <1>1, UpTo, FS_Subset, FS_CardinalityType
<1>3. \A n \in 1 .. Cardinality(K) : q[NthOf(K, n)] \in S
  BY <1>1, <1>2, NthOfRank
<1>4. [n \in 1 .. Cardinality(K) |-> q[NthOf(K, n)]] \in Seq(S)
  BY <1>2, <1>3
<1>5. ASSUME K = DOMAIN q
      PROVE  [n \in 1 .. Cardinality(K) |-> q[NthOf(K, n)]] = q
  <2>1. Cardinality(K) = Len(q) /\ K = 1 .. Len(q)
    BY <1>1, <1>5, UpTo
  <2>2. \A n \in 1 .. Len(q) : NthOf(K, n) = n
    BY <1>1, <2>1, NthOfInterval
  <2> QED
    BY <1>1, <2>1, <2>2
<1> QED
  BY <1>4, <1>5

\* The greatest and the least of finitely many.
LEMMA MaxIs ==
  ASSUME NEW K \in SUBSET Int, IsFiniteSet(K), K # {}
  PROVE  Max(K) \in K /\ \A j \in K : j <= Max(K)
<1>1. \E k \in K : \A j \in K : k >= j
  BY Greatest
<1> QED
  BY <1>1 DEF Max

LEMMA MinIs ==
  ASSUME NEW K \in SUBSET Int, IsFiniteSet(K), K # {}
  PROVE  Min(K) \in K /\ \A j \in K : Min(K) <= j
<1>1. \E k \in K : \A j \in K : k <= j
  BY Least
<1> QED
  BY <1>1 DEF Min

\* Natural numbers have a least one, however many they are.
LEMMA MinOfNat ==
  ASSUME NEW K \in SUBSET Nat, K # {}
  PROVE  Min(K) \in K /\ \A j \in K : Min(K) <= j
<1>1. PICK n \in K : TRUE
  OBVIOUS
<1> DEFINE J == {j \in K : j <= n}
<1>2. J \in SUBSET Int /\ IsFiniteSet(J) /\ J # {}
  <2>1. n \in Nat /\ \A j \in J : j \in 0 .. n
    OBVIOUS
  <2>2. IsFiniteSet(0 .. n)
    BY <2>1, FS_Interval
  <2>3. J \in SUBSET (0 .. n)
    BY <2>1
  <2>4. IsFiniteSet(J)
    BY <2>2, <2>3, FS_Subset
  <2>5. n <= n /\ n \in J
    BY <2>1
  <2>6. \A j \in J : j \in Int
    BY <2>1
  <2> HIDE DEF J
  <2> QED
    BY <2>4, <2>5, <2>6
<1>3. PICK k \in J : \A j \in J : k <= j
  <2> HIDE DEF J
  <2> QED
    BY <1>2, Least
<1>4. \E i \in K : \A j \in K : i <= j
  BY <1>3
<1> QED
  BY <1>4 DEF Min

\* In increasing order a set is a sequence of its members.
LEMMA AscendingIs ==
  ASSUME NEW K \in SUBSET Int, IsFiniteSet(K)
  PROVE  /\ Ascending(K) \in Seq(K) /\ (Ascending(K) = <<>> <=> K = {})
         /\ Range(Ascending(K)) = K
<1> DEFINE n == Cardinality(K)
<1>1. n \in Nat /\ (n = 0 <=> K = {})
  BY FS_CardinalityType, FS_EmptySet
<1>2. \A i \in 1 .. n : NthOf(K, i) \in K
  BY NthOfRank
<1>3. Ascending(K) \in [1 .. n -> K]
  BY <1>2 DEF Ascending
<1>4. Ascending(K) \in Seq(K) /\ Len(Ascending(K)) = n
  BY <1>1, <1>3
<1>5. \A k \in K : Rank(K, k) \in 1 .. n /\ NthOf(K, Rank(K, k)) = k
  BY RankType, NthOfRank
<1>6. Range(Ascending(K)) = K
  BY <1>3, <1>5 DEF Range, Ascending
<1>7. Ascending(K) = <<>> <=> K = {}
  BY <1>1, <1>4
<1> QED
  BY <1>4, <1>6, <1>7

\* A sequence over a set is one over every larger set.
LEMMA SeqGrows ==
  ASSUME NEW S, NEW T, S \subseteq T, NEW q \in Seq(S)
  PROVE  q \in Seq(T)
<1>1. Len(q) \in Nat /\ DOMAIN q = 1 .. Len(q) /\ q = [i \in 1 .. Len(q) |-> q[i]]
  OBVIOUS
<1>2. \A i \in 1 .. Len(q) : q[i] \in T
  <2>1. \A i \in 1 .. Len(q) : q[i] \in S
    OBVIOUS
  <2> QED
    BY <2>1
<1> QED
  BY <1>1, <1>2

\* A sequence without its i-th member.
LEMMA Removed ==
  ASSUME NEW S, NEW q \in Seq(S), NEW i \in DOMAIN q
  PROVE  LET r == SubSeq(q, 1, i - 1) \o SubSeq(q, i + 1, Len(q))
         IN /\ r \in Seq(S) /\ Len(r) = Len(q) - 1 /\ Len(q) - 1 \in Nat
            /\ \A k \in 1 .. Len(q) - 1 : r[k] = q[IF k < i THEN k ELSE k + 1]
<1> DEFINE n == Len(q)
           a == SubSeq(q, 1, i - 1)
           b == SubSeq(q, i + 1, n)
<1>1. n \in Nat /\ i \in 1 .. n /\ i \in Nat /\ n - 1 \in Nat /\ \A k \in 1 .. n : q[k] \in S
  OBVIOUS
<1> HIDE DEF n
<1>3. a \in Seq(S) /\ Len(a) = i - 1 /\ \A k \in 1 .. i - 1 : a[k] = q[k]
  <2>1. 1 \in Int /\ i - 1 \in Int /\ \A k \in 1 .. i - 1 : q[k] \in S
    BY <1>1
  <2>2. /\ a \in Seq(S) /\ Len(a) = IF 1 <= i - 1 THEN (i - 1) - 1 + 1 ELSE 0
        /\ \A k \in 1 .. (i - 1) - 1 + 1 : a[k] = q[1 + k - 1]
    BY <2>1, SubSeqProperties
  <2> HIDE DEF a
  <2>3. (i - 1) - 1 + 1 = i - 1 /\ \A k \in 1 .. i - 1 : 1 + k - 1 = k
    BY <1>1
  <2> QED
    BY <1>1, <2>2, <2>3
<1>4. b \in Seq(S) /\ Len(b) = n - i /\ \A k \in 1 .. n - i : b[k] = q[k + i]
  <2>1. i + 1 \in Int /\ n \in Int /\ \A k \in i + 1 .. n : q[k] \in S
    BY <1>1
  <2>2. /\ b \in Seq(S) /\ Len(b) = IF i + 1 <= n THEN n - (i + 1) + 1 ELSE 0
        /\ \A k \in 1 .. n - (i + 1) + 1 : b[k] = q[(i + 1) + k - 1]
    BY <2>1, SubSeqProperties
  <2> HIDE DEF b
  <2>3. n - (i + 1) + 1 = n - i /\ \A k \in 1 .. n - i : (i + 1) + k - 1 = k + i
    BY <1>1
  <2> QED
    BY <1>1, <2>2, <2>3
<1> HIDE DEF a, b
<1>5. /\ a \o b \in Seq(S) /\ Len(a \o b) = n - 1
      /\ \A k \in 1 .. n - 1 : (a \o b)[k] = IF k <= i - 1 THEN a[k] ELSE b[k - (i - 1)]
  <2>1. /\ a \o b \in Seq(S) /\ Len(a \o b) = Len(a) + Len(b)
        /\ \A k \in 1 .. Len(a) + Len(b) : (a \o b)[k] = IF k <= Len(a) THEN a[k] ELSE b[k - Len(a)]
    BY <1>3, <1>4, ConcatProperties
  <2>2. Len(a) + Len(b) = n - 1
    BY <1>1, <1>3, <1>4
  <2> QED
    BY <1>3, <2>1, <2>2
<1>6. ASSUME NEW k \in 1 .. n - 1 PROVE (a \o b)[k] = q[IF k < i THEN k ELSE k + 1]
  <2>0. k \in Nat /\ (a \o b)[k] = IF k <= i - 1 THEN a[k] ELSE b[k - (i - 1)]
    BY <1>1, <1>5
  <2>1. CASE k < i
    <3>1. k \in 1 .. i - 1 /\ k <= i - 1
      BY <1>1, <2>0, <2>1
    <3> QED
      BY <1>3, <2>0, <2>1, <3>1
  <2>2. CASE ~(k < i)
    <3>1. ~(k <= i - 1) /\ k - (i - 1) \in 1 .. n - i /\ (k - (i - 1)) + i = k + 1
      BY <1>1, <2>0, <2>2
    <3> QED
      BY <1>4, <2>0, <2>2, <3>1
  <2> QED
    BY <2>1, <2>2
<1> QED
  BY <1>1, <1>5, <1>6 DEF a, b, n
=============================================================================
