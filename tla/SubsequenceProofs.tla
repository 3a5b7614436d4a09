------------------------- MODULE SubsequenceProofs -------------------------
(***************************************************************************)
(* What the operators of Subsequences return, for finite sets of positions *)
(* of any size.  The library's induction theorems are not needed:*)
(* the rank of a member in a finite set of integers is a bijection, by the *)
(* pigeonhole principle.                                                   *)
(***************************************************************************)
EXTENDS Integers, Sequences, FiniteSets, Subsequences, FiniteSetTheorems, SequenceTheorems, TLAPS

Rank(K) == [i \in K |-> Cardinality({j \in K : j <= i})]

\* Members of a finite set of integers are numbered by Rank without gaps and
\* without repetition.
LEMMA RankIsBijection ==
    ASSUME NEW K \in SUBSET Int, IsFiniteSet(K)
    PROVE  /\ Cardinality(K) \in Nat
           /\ Rank(K) \in Injection(K, 1 .. Cardinality(K))
           /\ Rank(K) \in Surjection(K, 1 .. Cardinality(K))
<1> DEFINE Upto(i) == {j \in K : j <= i}
           N == Cardinality(K)
<1>1. N \in Nat
  BY FS_CardinalityType
<1>2. ASSUME NEW i \in K
      PROVE  /\ IsFiniteSet(Upto(i))
             /\ Cardinality(Upto(i)) \in 1 .. N
  <2>1. Upto(i) \in SUBSET K /\ i \in Upto(i)
    OBVIOUS
  <2>2. IsFiniteSet(Upto(i)) /\ Cardinality(Upto(i)) <= N
    BY <2>1, FS_Subset
  <2>3. Cardinality(Upto(i)) \in Nat
    BY <2>2, FS_CardinalityType
  <2>4. Cardinality(Upto(i)) # 0
    BY <2>1, <2>2, FS_EmptySet
  <2> QED
    BY <1>1, <2>2, <2>3, <2>4
<1>3. ASSUME NEW i \in K, NEW j \in K, i < j
      PROVE  Cardinality(Upto(i)) # Cardinality(Upto(j))
  <2>1. Upto(i) \subseteq Upto(j)
    <3> SUFFICES ASSUME NEW x \in Upto(i) PROVE x \in Upto(j)
      OBVIOUS
    <3>1. x \in Int /\ i \in Int /\ j \in Int
      OBVIOUS
    <3> QED
      BY <1>3, <3>1
  <2>2. j \in Upto(j) /\ j \notin Upto(i)
    BY <1>3
  <2> QED
    BY <1>2, <2>1, <2>2, FS_Subset
<1>4. Rank(K) \in [K -> 1 .. N]
  BY <1>2 DEF Rank
<1>5. ASSUME NEW i \in K, NEW j \in K, Rank(K)[i] = Rank(K)[j]
      PROVE  i = j
  <2>1. Cardinality(Upto(i)) = Cardinality(Upto(j))
    BY <1>5 DEF Rank
  <2>2. ~(i < j) /\ ~(j < i)
    BY <2>1, <1>3
  <2> QED
    BY <2>2
<1>6. Rank(K) \in Injection(K, 1 .. N)
  BY <1>4, <1>5 DEF Injection, IsInjective
<1>7. IsFiniteSet(1 .. N) /\ Cardinality(1 .. N) = N
  BY <1>1, FS_Interval
<1>8. Rank(K) \in Surjection(K, 1 .. N)
  BY <1>6, <1>7, FS_Injection
<1> QED
  BY <1>1, <1>6, <1>8

\* Nth enumerates a finite set of integers: every value it takes is a member
\* and every member is one of its values.
LEMMA NthEnumerates ==
    ASSUME NEW K \in SUBSET Int, IsFiniteSet(K)
    PROVE  /\ Cardinality(K) \in Nat
           /\ \A k \in 1 .. Cardinality(K) :
                 Nth(K, k) \in K /\ Cardinality({j \in K : j <= Nth(K, k)}) = k
           /\ \A i \in K : \E k \in 1 .. Cardinality(K) : Nth(K, k) = i
<1> DEFINE N == Cardinality(K)
<1>1. /\ N \in Nat
      /\ Rank(K) \in Injection(K, 1 .. N)
      /\ Rank(K) \in Surjection(K, 1 .. N)
  BY RankIsBijection
<1>2. ASSUME NEW k \in 1 .. N
      PROVE  Nth(K, k) \in K /\ Cardinality({j \in K : j <= Nth(K, k)}) = k
  <2>1. PICK i \in K : Rank(K)[i] = k
    BY <1>1 DEF Surjection
  <2>2. Cardinality({j \in K : j <= i}) = k
    BY <2>1 DEF Rank
  <2> QED
    BY <2>2 DEF Nth
<1>3. ASSUME NEW i \in K
      PROVE  \E k \in 1 .. N : Nth(K, k) = i
  <2> DEFINE k == Rank(K)[i]
  <2>1. k \in 1 .. N
    BY <1>1 DEF Injection, IsInjective
  <2>2. Nth(K, k) \in K /\ Cardinality({j \in K : j <= Nth(K, k)}) = k
    BY <1>2, <2>1
  <2>3. Rank(K)[Nth(K, k)] = k
    BY <2>2 DEF Rank
  <2>4. Nth(K, k) = i
    BY <1>1, <2>2, <2>3 DEF Injection, IsInjective
  <2> QED
    BY <2>1, <2>4
<1> QED
  BY <1>1, <1>2, <1>3

\* A non-empty finite set of integers has a least member.
LEMMA LeastMember ==
    ASSUME NEW K \in SUBSET Int, IsFiniteSet(K), K # {}
    PROVE  \E i \in K : \A j \in K : i <= j
<1>1. Cardinality(K) \in Nat /\ Cardinality(K) # 0
  BY FS_CardinalityType, FS_EmptySet
<1>2. 1 \in 1 .. Cardinality(K)
  BY <1>1
<1>3. PICK i \in K : Cardinality({j \in K : j <= i}) = 1
  BY <1>2, NthEnumerates
<1> DEFINE low == {j \in K : j <= i}
<1>4. i \in low
  OBVIOUS
<1>5. IsFiniteSet(low)
  BY FS_Subset
<1>6. PICK x : low = {x}
  BY <1>3, <1>5, FS_Singleton
<1>7. ASSUME NEW j \in K
      PROVE  i <= j
  <2>1. i \in Int /\ j \in Int
    OBVIOUS
  <2>2. j < i => j \in low
    BY <2>1
  <2> QED
    BY <1>4, <1>6, <2>1, <2>2
<1> QED
  BY <1>7

\* Select returns a sequence of q's entries and keeps every selected one.
LEMMA SelectProperties ==
    ASSUME NEW S, NEW q \in Seq(S), NEW K \in SUBSET DOMAIN q
    PROVE  /\ Select(q, K) \in Seq(S)
           /\ \A i \in K : \E k \in DOMAIN Select(q, K) : Select(q, K)[k] = q[i]
<1>1. Len(q) \in Nat /\ DOMAIN q = 1 .. Len(q)
  BY LenProperties
<1>2. IsFiniteSet(1 .. Len(q))
  BY <1>1, FS_Interval
<1>3. K \in SUBSET Int /\ IsFiniteSet(K)
  <2>1. K \in SUBSET (1 .. Len(q))
    BY <1>1
  <2> QED
    BY <1>2, <2>1, FS_Subset, <1>1
<1>4. /\ Cardinality(K) \in Nat
      /\ \A k \in 1 .. Cardinality(K) : Nth(K, k) \in K
      /\ \A i \in K : \E k \in 1 .. Cardinality(K) : Nth(K, k) = i
  BY <1>3, NthEnumerates
<1>5. \A k \in 1 .. Cardinality(K) : q[Nth(K, k)] \in S
  BY <1>1, <1>4
<1>6. Select(q, K) \in Seq(S)
  BY <1>4, <1>5 DEF Select
<1>7. DOMAIN Select(q, K) = 1 .. Cardinality(K)
  BY DEF Select
<1>8. ASSUME NEW i \in K
      PROVE  \E k \in DOMAIN Select(q, K) : Select(q, K)[k] = q[i]
  <2>1. PICK k \in 1 .. Cardinality(K) : Nth(K, k) = i
    BY <1>4
  <2>2. Select(q, K)[k] = q[i]
    BY <2>1 DEF Select
  <2> QED
    BY <1>7, <2>2
<1> QED
  BY <1>6, <1>8

\* What Select keeps is as long as the choice, and its entries are those chosen.
LEMMA SelectEntries ==
    ASSUME NEW S, NEW q \in Seq(S), NEW K \in SUBSET DOMAIN q
    PROVE  /\ Len(Select(q, K)) = Cardinality(K)
           /\ {Select(q, K)[k] : k \in DOMAIN Select(q, K)} = {q[i] : i \in K}
<1>1. Len(q) \in Nat /\ DOMAIN q = 1 .. Len(q)
  BY LenProperties
<1>2. K \in SUBSET Int /\ IsFiniteSet(K)
  <2>1. K \in SUBSET (1 .. Len(q)) /\ IsFiniteSet(1 .. Len(q))
    BY <1>1, FS_Interval
  <2> QED
    BY <1>1, <2>1, FS_Subset
<1>3. /\ Cardinality(K) \in Nat
      /\ \A k \in 1 .. Cardinality(K) : Nth(K, k) \in K
  BY <1>2, NthEnumerates
<1>4. DOMAIN Select(q, K) = 1 .. Cardinality(K)
  BY DEF Select
<1>5. Select(q, K) \in Seq(S) /\ \A i \in K : \E k \in DOMAIN Select(q, K) : Select(q, K)[k] = q[i]
  BY SelectProperties
<1>6. \A k \in 1 .. Cardinality(K) : Select(q, K)[k] = q[Nth(K, k)]
  BY DEF Select
<1>7. Len(Select(q, K)) = Cardinality(K)
  BY <1>3, <1>4, <1>5, LenProperties
<1> HIDE DEF Select
<1> QED
  BY <1>3, <1>4, <1>5, <1>6, <1>7

\* InOrder lists every member of a finite set of integers.
LEMMA InOrderProperties ==
    ASSUME NEW S \in SUBSET Int, IsFiniteSet(S)
    PROVE  /\ InOrder(S) \in Seq(S)
           /\ \A u \in S : \E k \in DOMAIN InOrder(S) : InOrder(S)[k] = u
<1>1. /\ Cardinality(S) \in Nat
      /\ \A k \in 1 .. Cardinality(S) : Nth(S, k) \in S
      /\ \A i \in S : \E k \in 1 .. Cardinality(S) : Nth(S, k) = i
  BY NthEnumerates
<1>2. InOrder(S) \in Seq(S)
  BY <1>1 DEF InOrder
<1>3. DOMAIN InOrder(S) = 1 .. Cardinality(S)
  BY DEF InOrder
<1>4. ASSUME NEW u \in S
      PROVE  \E k \in DOMAIN InOrder(S) : InOrder(S)[k] = u
  <2>1. PICK k \in 1 .. Cardinality(S) : Nth(S, k) = u
    BY <1>1
  <2>2. InOrder(S)[k] = u
    BY <2>1 DEF InOrder
  <2> QED
    BY <1>3, <2>2
<1> QED
  BY <1>2, <1>4

\* The member of rank k is found under k.
LEMMA NthOfRank ==
    ASSUME NEW K \in SUBSET Int, IsFiniteSet(K), NEW x \in K
    PROVE  Nth(K, Cardinality({j \in K : j <= x})) = x
<1> DEFINE k == Cardinality({j \in K : j <= x})
<1>1. PICK l \in 1 .. Cardinality(K) : Nth(K, l) = x
  BY NthEnumerates
<1>2. Cardinality({j \in K : j <= Nth(K, l)}) = l
  BY NthEnumerates
<1> QED
  BY <1>1, <1>2

\* The members of K that are at most i.
Upto(K, i) == {j \in K : j <= i}

\* Going on by one position, Select appends its entry or leaves it out.
LEMMA SelectExtends ==
    ASSUME NEW S, NEW q \in Seq(S), NEW K \in SUBSET DOMAIN q, NEW i \in DOMAIN q
    PROVE  /\ i \in K => Select(q, Upto(K, i)) = Append(Select(q, Upto(K, i - 1)), q[i])
           /\ i \notin K => Select(q, Upto(K, i)) = Select(q, Upto(K, i - 1))
<1> DEFINE L == Upto(K, i - 1)
           M == Upto(K, i)
           c == Cardinality(L)
<1>1. Len(q) \in Nat /\ DOMAIN q = 1 .. Len(q)
  BY LenProperties
<1>2. i \in Int /\ \A j \in K : j \in Int
  BY <1>1
<1>3. CASE i \notin K
  <2>1. M = L
    BY <1>2, <1>3 DEF Upto
  <2> QED
    BY <1>3, <2>1
<1>4. CASE i \in K
  <2>1. M = L \cup {i} /\ i \notin L /\ \A j \in L : j < i
    BY <1>2, <1>4 DEF Upto
  <2>2. IsFiniteSet(L) /\ L \in SUBSET Int /\ M \in SUBSET Int /\ L \in SUBSET DOMAIN q
    <3>1. IsFiniteSet(1 .. Len(q))
      BY <1>1, FS_Interval
    <3>2. L \in SUBSET (1 .. Len(q))
      BY <1>1 DEF Upto
    <3> QED
      BY <1>1, <1>2, <2>1, <3>1, <3>2, FS_Subset
  <2> HIDE DEF L, M
  <2>3. c \in Nat /\ IsFiniteSet(M) /\ Cardinality(M) = c + 1
    BY <2>1, <2>2, FS_AddElement, FS_CardinalityType
  <2>4. ASSUME NEW k \in 1 .. c
        PROVE  Nth(M, k) = Nth(L, k)
    <3> DEFINE x == Nth(L, k)
    <3>1. x \in L /\ Cardinality({j \in L : j <= x}) = k
      BY <2>2, NthEnumerates
    <3> HIDE DEF x
    <3>2. {j \in M : j <= x} = {j \in L : j <= x}
      <4>1. x < i /\ x \in Int
        BY <2>1, <2>2, <3>1
      <4> QED
        BY <1>2, <2>1, <4>1
    <3>3. Nth(M, Cardinality({j \in M : j <= x})) = x
      BY <2>1, <2>2, <2>3, <3>1, NthOfRank
    <3> QED
      BY <3>1, <3>2, <3>3 DEF x
  <2>5. Nth(M, c + 1) = i
    <3>1. {j \in M : j <= i} = M
      BY <1>2, <2>1, <2>2
    <3>2. Nth(M, Cardinality({j \in M : j <= i})) = i
      BY <2>1, <2>2, <2>3, NthOfRank
    <3> QED
      BY <2>3, <3>1, <3>2
  <2> HIDE DEF c
  <2> DEFINE s == Select(q, L)
  <2>6. s \in Seq(S) /\ Len(s) = c
    <3>1. s \in Seq(S)
      BY <2>2, SelectProperties
    <3>2. DOMAIN s = 1 .. c
      BY DEF Select, c
    <3> QED
      BY <2>3, <3>1, <3>2, LenProperties
  <2>7. \A k \in 1 .. c : s[k] = q[Nth(L, k)]
    BY DEF Select, c
  <2> HIDE DEF s
  <2> DEFINE t == Append(s, q[i])
             r == Select(q, M)
  <2>8. /\ t \in Seq(S) /\ Len(t) = c + 1
        /\ \A k \in 1 .. c : t[k] = s[k]
        /\ t[c + 1] = q[i]
    <3>1. q[i] \in S
      BY <1>1
    <3> QED
      BY <2>6, <3>1, AppendProperties
  <2>9. r \in Seq(S) /\ Len(r) = c + 1 /\ \A k \in 1 .. (c + 1) : r[k] = q[Nth(M, k)]
    <3>1. r \in Seq(S)
      <4>1. M \in SUBSET DOMAIN q
        BY <2>1, <2>2
      <4> QED
        BY <4>1, SelectProperties
    <3>2. DOMAIN r = 1 .. (c + 1)
      BY <2>3 DEF Select
    <3>3. \A k \in 1 .. (c + 1) : r[k] = q[Nth(M, k)]
      BY <2>3 DEF Select
    <3> QED
      BY <2>3, <3>1, <3>2, <3>3, LenProperties
  <2> HIDE DEF t, r
  <2>10. ASSUME NEW k \in 1 .. (c + 1)
         PROVE  r[k] = t[k]
    <3>1. CASE k \in 1 .. c
      BY <2>4, <2>7, <2>8, <2>9, <3>1
    <3>2. CASE k = c + 1
      BY <2>5, <2>8, <2>9, <3>2
    <3> QED
      BY <2>3, <3>1, <3>2
  <2>11. r = t
    BY <2>8, <2>9, <2>10, SeqEqual
  <2> QED
    BY <1>4, <2>11 DEF r, t, s, L, M
<1> QED
  BY <1>3, <1>4

\* A sequence split after its k-th entry.
LEMMA SplitProperties ==
    ASSUME NEW S, NEW q \in Seq(S), NEW k \in 0 .. Len(q)
    PROVE  LET s == SubSeq(q, 1, k)
               t == SubSeq(q, k + 1, Len(q))
           IN  /\ s \in Seq(S) /\ Len(s) = k /\ DOMAIN s = 1 .. k
               /\ \A i \in 1 .. k : s[i] = q[i]
               /\ t \in Seq(S) /\ Len(t) = Len(q) - k /\ DOMAIN t = 1 .. (Len(q) - k)
               /\ \A i \in 1 .. (Len(q) - k) : t[i] = q[k + i]
<1> DEFINE N == Len(q)
           s == SubSeq(q, 1, k)
           t == SubSeq(q, k + 1, N)
<1>1. N \in Nat /\ k \in Nat /\ k <= N /\ \A i \in 1 .. N : q[i] \in S
  BY LenProperties
<1>2. /\ s \in Seq(S) /\ Len(s) = (IF 1 <= k THEN k - 1 + 1 ELSE 0)
      /\ \A i \in 1 .. k - 1 + 1 : s[i] = q[1 + i - 1]
  <2>1. \A i \in 1 .. k : q[i] \in S
    BY <1>1
  <2> QED
    BY <1>1, <2>1, SubSeqProperties
<1>3. /\ t \in Seq(S) /\ Len(t) = (IF k + 1 <= N THEN N - (k + 1) + 1 ELSE 0)
      /\ \A i \in 1 .. N - (k + 1) + 1 : t[i] = q[(k + 1) + i - 1]
  <2> HIDE DEF N
  <2>1. \A i \in (k + 1) .. N : q[i] \in S
    BY <1>1
  <2>2. k + 1 \in Int /\ N \in Int
    BY <1>1
  <2> QED
    BY <2>1, <2>2, SubSeqProperties
<1> HIDE DEF N, s, t
<1>4. Len(s) = k /\ k - 1 + 1 = k
  BY <1>1, <1>2
<1>5. Len(t) = N - k /\ N - (k + 1) + 1 = N - k
  BY <1>1, <1>3
<1>6. \A i \in 1 .. k : s[i] = q[i]
  <2>1. \A i \in 1 .. k : 1 + i - 1 = i
    BY <1>1
  <2> QED
    BY <1>2, <1>4, <2>1
<1>7. \A i \in 1 .. (N - k) : t[i] = q[k + i]
  <2>1. \A i \in 1 .. (N - k) : (k + 1) + i - 1 = k + i
    BY <1>1
  <2> QED
    BY <1>3, <1>5, <2>1
<1>8. DOMAIN s = 1 .. k /\ DOMAIN t = 1 .. (N - k)
  BY <1>2, <1>3, <1>4, <1>5, LenProperties
<1> QED
  BY <1>2, <1>3, <1>4, <1>5, <1>6, <1>7, <1>8 DEF N, s, t
=============================================================================
