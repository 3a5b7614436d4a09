--------------------------- MODULE PlantingProofs ---------------------------
(***************************************************************************)
(* What the placement of create_batch and canary_count return, for batches *)
(* of any size.  BatchStore takes the placement as a parameter, of which   *)
(* PlantAssumption says what it has to be; Spread is that.                 *)
(*                                                                         *)
(* Planted, the recursive function of Spread, is defined by CHOOSE.  That  *)
(* there is a function to choose, and that each of its values is an        *)
(* arrangement, are both shown by the least number of canaries for which   *)
(* it fails.                                                               *)
(***************************************************************************)
EXTENDS Planting, SubsequenceProofs

\* The smaller and the larger of two numbers.
LEMMA MinMaxOfTwo ==
    ASSUME NEW x \in Nat, NEW y \in Nat
    PROVE  /\ Min({x, y}) = IF x <= y THEN x ELSE y
           /\ Max({x, y}) = IF x <= y THEN y ELSE x
<1> DEFINE Least(m) == m \in {x, y} /\ \A z \in {x, y} : m <= z
           Most(m) == m \in {x, y} /\ \A z \in {x, y} : m >= z
           a == IF x <= y THEN x ELSE y
           b == IF x <= y THEN y ELSE x
<1>1. Least(a) /\ Most(b)
  OBVIOUS
<1>2. \A m : (Least(m) => m = a) /\ (Most(m) => m = b)
  OBVIOUS
<1>3. Min({x, y}) = CHOOSE m : Least(m)
  BY DEF Min
<1>4. Max({x, y}) = CHOOSE m : Most(m)
  BY DEF Max
<1> QED
  BY <1>1, <1>2, <1>3, <1>4

\* A canary is never inserted before the first unit, nor behind the last one if
\* the batch has two requests or more.
LEMMA PlantIndexInside ==
    ASSUME NEW n \in Nat \ {0}, NEW j \in Nat \ {0}
    PROVE  /\ PlantIndex(n + j - 1, j) \in 1 .. (n + j - 1)
           /\ n >= 2 => PlantIndex(n + j - 1, j) < n + j - 1
<1> DEFINE len == n + j - 1
           z == len \div (j + 1)
           stride == Max({1, z})
<1>1. len \in Nat /\ len >= 1 /\ len >= j /\ (n >= 2 => len >= j + 1)
  OBVIOUS
<1>2. z \in Nat /\ z * (j + 1) <= len
  <2> HIDE DEF len
  <2> QED
    BY <1>1
<1>3. len >= j + 1 => z >= 1
  <2> HIDE DEF len
  <2> QED
    BY <1>1
<1>4. PlantIndex(len, j) = Min({len, stride * j})
  BY DEF PlantIndex
<1> HIDE DEF len, z
<1>5. stride = IF 1 <= z THEN z ELSE 1
  BY <1>2, MinMaxOfTwo
<1>6. stride \in Nat /\ stride >= 1
  BY <1>2, <1>5
<1> HIDE DEF stride
<1>7. stride * j \in Nat /\ stride * j >= 1
  <2>1. stride * j \in Nat
    BY <1>6
  <2>2. stride * j >= 1
    BY <1>6
  <2> QED
    BY <2>1, <2>2
<1>8. PlantIndex(len, j) = IF len <= stride * j THEN len ELSE stride * j
  BY <1>1, <1>4, <1>7, MinMaxOfTwo
<1>9. PlantIndex(len, j) \in 1 .. len
  BY <1>1, <1>7, <1>8
<1>10. ASSUME n >= 2
       PROVE  PlantIndex(len, j) < len
  <2>1. z >= 1 /\ stride = z
    BY <1>1, <1>2, <1>3, <1>5, <1>10
  <2>2. z * (j + 1) = z * j + z
    BY <1>2
  <2>3. z * j \in Nat
    BY <1>2
  <2>4. z * j < len
    BY <1>1, <1>2, <2>1, <2>2, <2>3
  <2> QED
    BY <1>1, <1>8, <2>1, <2>3, <2>4
<1> QED
  BY <1>9, <1>10 DEF len

\* r is q with e inserted behind its first i entries.
IsInserted(r, S, q, e, i) ==
    /\ r \in Seq(S)
    /\ Len(r) = Len(q) + 1
    /\ \A x \in 1 .. i : r[x] = q[x]
    /\ r[i + 1] = e
    /\ \A x \in (i + 2) .. (Len(q) + 1) : r[x] = q[x - 1]

\* That is what InsertAt does.
LEMMA Inserted ==
    ASSUME NEW S, NEW q \in Seq(S), NEW e \in S, NEW i \in 0 .. Len(q)
    PROVE  IsInserted(InsertAt(q, i + 1, e), S, q, e, i)
<1> DEFINE L == Len(q)
           a == SubSeq(q, 1, i)
           b == SubSeq(q, i + 1, L)
<1>1. L \in Nat /\ i \in Nat /\ i <= L
  BY LenProperties
<1>2. InsertAt(q, i + 1, e) = (a \o <<e>>) \o b
  <2>1. (i + 1) - 1 = i
    BY <1>1
  <2> QED
    BY <2>1 DEF InsertAt
<1>3. a \in Seq(S) /\ Len(a) = i /\ \A x \in 1 .. i : a[x] = q[x]
  BY <1>1
<1>4. b \in Seq(S) /\ Len(b) = L - i /\ \A x \in 1 .. (L - i) : b[x] = q[i + x]
  BY <1>1
<1> HIDE DEF a, b, L
<1> DEFINE c == a \o <<e>>
<1>5. c \in Seq(S) /\ Len(c) = i + 1 /\ (\A x \in 1 .. i : c[x] = q[x]) /\ c[i + 1] = e
  BY <1>1, <1>3
<1> HIDE DEF c
<1> DEFINE r == c \o b
<1>6. r \in Seq(S) /\ Len(r) = L + 1
  <2>1. r \in Seq(S) /\ Len(r) = Len(c) + Len(b)
    BY <1>4, <1>5, ConcatProperties
  <2> QED
    BY <1>1, <1>4, <1>5, <2>1
<1>7. /\ \A x \in 1 .. (i + 1) : r[x] = c[x]
      /\ \A x \in (i + 2) .. (L + 1) : r[x] = b[x - (i + 1)]
  BY <1>1, <1>4, <1>5
<1>8. \A x \in (i + 2) .. (L + 1) : r[x] = q[x - 1]
  <2> SUFFICES ASSUME NEW x \in (i + 2) .. (L + 1) PROVE r[x] = q[x - 1]
    OBVIOUS
  <2>1. x - (i + 1) \in 1 .. (L - i) /\ i + (x - (i + 1)) = x - 1
    BY <1>1
  <2> QED
    BY <1>4, <1>7, <2>1
<1>9. (\A x \in 1 .. i : r[x] = q[x]) /\ r[i + 1] = e
  <2>1. 1 .. i \subseteq 1 .. (i + 1) /\ i + 1 \in 1 .. (i + 1)
    BY <1>1
  <2> QED
    BY <1>5, <1>7, <2>1
<1>10. IsInserted(r, S, q, e, i)
  BY <1>6, <1>8, <1>9 DEF IsInserted, L
<1> QED
  BY <1>2, <1>10 DEF c

\* An arrangement of the positions 1 .. m in which the first n keep their order:
\* what PlantAssumption asks of a placement of m - n canaries.
Arranged(q, n, m) ==
    /\ q \in [1 .. m -> 1 .. m]
    /\ \A p \in 1 .. m : \E i \in 1 .. m : q[i] = p
    /\ \A i, j \in 1 .. m : i < j /\ q[i] <= n /\ q[j] <= n => q[i] < q[j]

\* One more canary, wherever it is inserted, leaves an arrangement.
LEMMA PlantOneMore ==
    ASSUME NEW n \in Nat, NEW m \in Nat, n <= m, NEW q, Arranged(q, n, m), NEW i \in 0 .. m
    PROVE  LET r == InsertAt(q, i + 1, m + 1)
           IN  /\ Arranged(r, n, m + 1)
               /\ i >= 1 => r[1] = q[1]
               /\ i < m => r[m + 1] = q[m]
<1> DEFINE r == InsertAt(q, i + 1, m + 1)
           S == 1 .. (m + 1)
<1>1. q \in Seq(S) /\ Len(q) = m /\ m + 1 \in S /\ i \in 0 .. Len(q)
  <2>1. q \in [1 .. m -> S] /\ m + 1 \in S
    BY DEF Arranged
  <2> HIDE DEF S
  <2>2. q \in Seq(S) /\ Len(q) = m
    BY <2>1
  <2> QED
    BY <2>1, <2>2
<1>2. /\ r \in Seq(S) /\ Len(r) = m + 1
      /\ \A x \in 1 .. i : r[x] = q[x]
      /\ r[i + 1] = m + 1
      /\ \A x \in (i + 2) .. (m + 1) : r[x] = q[x - 1]
  <2> DEFINE e == m + 1
  <2>1. e \in S
    BY <1>1
  <2> HIDE DEF S, e
  <2> DEFINE t == InsertAt(q, i + 1, e)
  <2>2. IsInserted(t, S, q, e, i)
    BY <1>1, <2>1, Inserted
  <2>3. r = t
    BY DEF e
  <2> HIDE DEF r, t
  <2> QED
    BY <1>1, <2>2, <2>3 DEF IsInserted, e
<1> HIDE DEF r
<1>3. /\ \A x \in 1 .. m : q[x] \in 1 .. m
      /\ \A p \in 1 .. m : \E x \in 1 .. m : q[x] = p
      /\ \A x, y \in 1 .. m : x < y /\ q[x] <= n /\ q[y] <= n => q[x] < q[y]
  BY DEF Arranged
<1> DEFINE From(x) == IF x <= i THEN x ELSE x - 1
<1>4. \A x \in S : x # i + 1 => /\ From(x) \in 1 .. m
                                /\ r[x] = q[From(x)]
  <2> SUFFICES ASSUME NEW x \in S, x # i + 1
               PROVE  From(x) \in 1 .. m /\ r[x] = q[From(x)]
    OBVIOUS
  <2>1. CASE x <= i
    <3>1. x \in 1 .. i /\ From(x) = x /\ x \in 1 .. m
      BY <2>1
    <3>2. r[x] = q[x]
      BY <1>2, <3>1
    <3> HIDE DEF From
    <3> QED
      BY <3>1, <3>2
  <2>2. CASE x >= i + 2
    <3>1. x \in (i + 2) .. (m + 1) /\ From(x) = x - 1 /\ x - 1 \in 1 .. m
      BY <2>2
    <3>2. r[x] = q[x - 1]
      BY <1>2, <3>1
    <3> HIDE DEF From
    <3> QED
      BY <3>1, <3>2
  <2> QED
    BY <2>1, <2>2
<1>5. r \in [S -> S]
  <2>1. r \in [1 .. Len(r) -> S]
    <3> HIDE DEF S
    <3> QED
      BY <1>2
  <2> QED
    BY <1>2, <2>1
<1>6. \A p \in S : \E x \in S : r[x] = p
  <2> SUFFICES ASSUME NEW p \in S PROVE \E x \in S : r[x] = p
    OBVIOUS
  <2>1. CASE p = m + 1
    BY <1>2, <2>1
  <2>2. CASE p \in 1 .. m
    <3>1. PICK y \in 1 .. m : q[y] = p
      BY <1>3, <2>2
    <3>2. CASE y <= i
      <4>1. y \in 1 .. i /\ y \in S
        BY <3>2
      <4>2. r[y] = p
        BY <1>2, <3>1, <4>1
      <4> QED
        BY <4>1, <4>2
    <3>3. CASE y > i
      <4>1. y + 1 \in (i + 2) .. (m + 1) /\ (y + 1) - 1 = y /\ y + 1 \in S
        BY <3>3
      <4>2. r[y + 1] = p
        BY <1>2, <3>1, <4>1
      <4> QED
        BY <4>1, <4>2
    <3> QED
      BY <3>2, <3>3
  <2> QED
    BY <2>1, <2>2
<1>7. \A x, y \in S : x < y /\ r[x] <= n /\ r[y] <= n => r[x] < r[y]
  <2> SUFFICES ASSUME NEW x \in S, NEW y \in S, x < y, r[x] <= n, r[y] <= n
               PROVE  r[x] < r[y]
    OBVIOUS
  <2>1. x # i + 1 /\ y # i + 1
    <3>1. ~(m + 1 <= n)
      OBVIOUS
    <3> QED
      BY <1>2, <3>1
  <2>2. /\ From(x) \in 1 .. m /\ From(y) \in 1 .. m
        /\ r[x] = q[From(x)] /\ r[y] = q[From(y)]
    BY <1>4, <2>1
  <2>3. From(x) < From(y)
    BY <2>1
  <2> QED
    BY <1>3, <2>2, <2>3
<1>8. i >= 1 => r[1] = q[1]
  BY <1>2
<1>9. i < m => r[m + 1] = q[m]
  <2> SUFFICES ASSUME i < m PROVE r[m + 1] = q[m]
    OBVIOUS
  <2>1. m + 1 \in (i + 2) .. (m + 1) /\ (m + 1) - 1 = m
    OBVIOUS
  <2> QED
    BY <1>2, <2>1
<1>10. Arranged(r, n, m + 1)
  BY <1>5, <1>6, <1>7 DEF Arranged
<1> QED
  BY <1>8, <1>9, <1>10 DEF r

\* g is the queue after each of the first m canaries, as Spread computes it.
PlantsUpTo(n, m, g) ==
    g = [j \in 0 .. m |->
            IF j = 0
            THEN [i \in 1 .. n |-> i]
            ELSE InsertAt(g[j - 1], PlantIndex(n + j - 1, j) + 1, n + j)]

\* There is such a function for every number of canaries.
LEMMA PlantingExists ==
    ASSUME NEW n \in Nat, NEW k \in Nat
    PROVE  \E g : PlantsUpTo(n, k, g)
<1> DEFINE missing == {m \in 0 .. k : ~ \E g : PlantsUpTo(n, m, g)}
<1> SUFFICES missing = {}
  OBVIOUS
<1> SUFFICES ASSUME missing # {} PROVE FALSE
  OBVIOUS
<1>1. missing \in SUBSET (0 .. k) /\ missing \in SUBSET Int
  OBVIOUS
<1>2. PICK m \in missing : \A x \in missing : m <= x
  <2>1. IsFiniteSet(0 .. k)
    BY FS_Interval
  <2> HIDE DEF missing
  <2>2. IsFiniteSet(missing)
    BY <1>1, <2>1, FS_Subset
  <2> QED
    BY <1>1, <2>2, LeastMember
<1>3. m \in 0 .. k /\ ~ \E g : PlantsUpTo(n, m, g)
  OBVIOUS
<1>4. CASE m = 0
  <2> DEFINE g == [j \in 0 .. 0 |-> [i \in 1 .. n |-> i]]
  <2>1. PlantsUpTo(n, 0, g)
    BY DEF PlantsUpTo
  <2> QED
    BY <1>3, <1>4, <2>1
<1>5. CASE m # 0
  <2>1. m - 1 \in 0 .. k /\ ~(m <= m - 1)
    BY <1>3, <1>5
  <2>2. PICK f : PlantsUpTo(n, m - 1, f)
    BY <1>2, <2>1
  <2> DEFINE Next(j, h) == IF j = 0
                           THEN [i \in 1 .. n |-> i]
                           ELSE InsertAt(h[j - 1], PlantIndex(n + j - 1, j) + 1, n + j)
             g == [j \in 0 .. m |-> IF j = m THEN Next(m, f) ELSE f[j]]
  <2>3. ASSUME NEW j \in 0 .. (m - 1) PROVE f[j] = Next(j, f)
    BY <2>2 DEF PlantsUpTo
  <2>4. ASSUME NEW j \in 0 .. m PROVE g[j] = Next(j, g)
    <3>1. CASE j = 0
      BY <1>3, <1>5, <2>3, <3>1
    <3>2. CASE j # 0
      <4>1. j - 1 \in 0 .. (m - 1) /\ j - 1 \in 0 .. m /\ j - 1 # m
        BY <1>3, <3>2
      <4>2. g[j - 1] = f[j - 1]
        BY <4>1
      <4>3. Next(j, g) = Next(j, f)
        BY <4>2
      <4>4. g[j] = Next(j, f)
        <5>1. CASE j = m
          BY <5>1
        <5>2. CASE j # m
          <6>1. j \in 0 .. (m - 1)
            BY <1>3, <5>2
          <6> QED
            BY <2>3, <5>2, <6>1
        <5> QED
          BY <5>1, <5>2
      <4> QED
        BY <4>3, <4>4
    <3> QED
      BY <3>1, <3>2
  <2>5. g = [j \in 0 .. m |-> g[j]]
    OBVIOUS
  <2> HIDE DEF g
  <2>6. PlantsUpTo(n, m, g)
    BY <2>4, <2>5 DEF PlantsUpTo
  <2> QED
    BY <1>3, <2>6
<1> QED
  BY <1>4, <1>5

\* The queue of a batch as create_batch leaves it: an arrangement that starts
\* and ends with the first and the last request, if there are two or more.
LEMMA SpreadArranged ==
    ASSUME NEW n \in Nat \ {0}, NEW k \in Nat
    PROVE  /\ Arranged(Spread(n, k), n, n + k)
           /\ Spread(n, k)[1] = 1
           /\ n >= 2 => Spread(n, k)[n + k] = n
<1> DEFINE Planted == CHOOSE g : PlantsUpTo(n, k, g)
           Good(j) == /\ Arranged(Planted[j], n, n + j)
                      /\ Planted[j][1] = 1
                      /\ n >= 2 => Planted[j][n + j] = n
           bad == {j \in 0 .. k : ~Good(j)}
<1>1. Spread(n, k) = Planted[k]
  BY DEF Spread, PlantsUpTo
<1>2. PlantsUpTo(n, k, Planted)
  BY PlantingExists
<1> HIDE DEF Planted
<1>3. Planted[0] = [i \in 1 .. n |-> i]
  BY <1>2 DEF PlantsUpTo
<1>4. \A j \in 1 .. k : Planted[j] =
         InsertAt(Planted[j - 1], PlantIndex(n + j - 1, j) + 1, n + j)
  BY <1>2 DEF PlantsUpTo
<1>5. Good(0)
  <2> DEFINE q == [i \in 1 .. n |-> i]
  <2>1. \A i \in 1 .. n : q[i] = i
    OBVIOUS
  <2>2. q \in [1 .. n -> 1 .. n]
    OBVIOUS
  <2> HIDE DEF q
  <2>3. Arranged(q, n, n)
    BY <2>1, <2>2 DEF Arranged
  <2>4. q[1] = 1 /\ q[n] = n
    BY <2>1
  <2>5. n + 0 = n
    OBVIOUS
  <2> QED
    BY <1>3, <2>3, <2>4, <2>5 DEF q
<1>6. ASSUME NEW j \in 1 .. k, Good(j - 1) PROVE Good(j)
  <2> DEFINE m == n + j - 1
             i == PlantIndex(m, j)
             q == Planted[j - 1]
  <2>1. i \in 1 .. m /\ (n >= 2 => i < m)
    <3>1. j \in Nat \ {0} /\ j - 1 \in 0 .. k
      OBVIOUS
    <3> QED
      BY <3>1, PlantIndexInside
  <2>2. m \in Nat /\ n <= m /\ n + (j - 1) = m /\ n + j = m + 1
    OBVIOUS
  <2>3. Arranged(q, n, m) /\ q[1] = 1 /\ (n >= 2 => q[m] = n)
    BY <1>6, <2>2
  <2>4. Planted[j] = InsertAt(q, i + 1, m + 1)
    BY <1>4, <2>2
  <2> HIDE DEF m, i, q
  <2>5. i \in 0 .. m /\ i >= 1
    BY <2>1, <2>2
  <2>6. /\ Arranged(Planted[j], n, m + 1)
        /\ Planted[j][1] = q[1]
        /\ i < m => Planted[j][m + 1] = q[m]
    BY <2>2, <2>3, <2>4, <2>5, PlantOneMore
  <2> QED
    BY <2>1, <2>2, <2>3, <2>6
<1>7. bad = {}
  <2> SUFFICES ASSUME bad # {} PROVE FALSE
    OBVIOUS
  <2>1. bad \in SUBSET (0 .. k) /\ bad \in SUBSET Int
    OBVIOUS
  <2>2. PICK j \in bad : \A x \in bad : j <= x
    <3>1. IsFiniteSet(0 .. k)
      BY FS_Interval
    <3> HIDE DEF bad
    <3>2. IsFiniteSet(bad)
      BY <2>1, <3>1, FS_Subset
    <3> QED
      BY <2>1, <3>2, LeastMember
  <2>3. j \in 0 .. k /\ ~Good(j)
    OBVIOUS
  <2> HIDE DEF Good
  <2>4. j \in 1 .. k /\ j - 1 \in 0 .. k /\ ~(j <= j - 1)
    BY <1>5, <2>3
  <2>5. Good(j - 1)
    BY <2>2, <2>4
  <2> QED
    BY <1>6, <2>3, <2>4, <2>5
<1>8. Good(k)
  <2> HIDE DEF Good
  <2> QED
    BY <1>7
<1> QED
  BY <1>1, <1>8

\* The placement of create_batch is what PlantAssumption takes it to be, for
\* every number of requests and canaries: nothing is lost or queued twice, and
\* the client's units keep their order.
THEOREM PlacementIsSound ==
    ASSUME NEW n \in Nat \ {0}, NEW k \in Nat
    PROVE  /\ Spread(n, k) \in [1 .. (n + k) -> 1 .. (n + k)]
           /\ \A p \in 1 .. (n + k) : \E i \in 1 .. (n + k) : Spread(n, k)[i] = p
           /\ \A i, j \in 1 .. (n + k) :
                 i < j /\ Spread(n, k)[i] <= n /\ Spread(n, k)[j] <= n
                     => Spread(n, k)[i] < Spread(n, k)[j]
<1> QED
  BY SpreadArranged DEF Arranged

\* "Spread through the batch rather than appended to it": however many canaries
\* there are, a batch of two requests or more begins and ends with a request.
THEOREM CanariesInside ==
    ASSUME NEW n \in Nat, n >= 2, NEW k \in Nat
    PROVE  Spread(n, k)[1] = 1 /\ Spread(n, k)[n + k] = n
<1>1. n \in Nat \ {0}
  OBVIOUS
<1> QED
  BY <1>1, SpreadArranged

\* canary_count at rate num/den: none of no requests, and otherwise the number
\* nearest to the rate times the size of the batch, but one at least.
THEOREM CanaryCountIsNearest ==
    ASSUME NEW n \in Nat \ {0}, NEW num \in Nat \ {0}, NEW den \in Nat \ {0}
    PROVE  LET k == CanaryCount(n, num, den)
           IN  /\ k \in Nat \ {0}
               /\ 2 * (n * num) <= 2 * (k * den) + den
               /\ k > 1 => 2 * (k * den) <= 2 * (n * num) + den
<1> DEFINE a == n * num
           q == a \div den
           r == a % den
           R == Round(a, den)
           k == CanaryCount(n, num, den)
<1>1. a \in Nat
  OBVIOUS
<1> HIDE DEF a
<1>2. q \in Nat /\ r \in Nat /\ r < den /\ a = q * den + r
  <2>1. q \in Nat /\ r \in 0 .. (den - 1)
    BY <1>1
  <2>2. a = den * q + r
    BY <1>1
  <2>3. den * q = q * den
    BY <2>1
  <2> QED
    BY <2>1, <2>2, <2>3
<1>3. \/ R = q + 1 /\ 2 * r >= den
      \/ R = q /\ 2 * r <= den
  <2>1. 2 * r > den \/ (2 * r = den /\ q % 2 = 1) => R = q + 1
    BY DEF Round
  <2>2. ~(2 * r > den \/ (2 * r = den /\ q % 2 = 1)) => R = q
    BY DEF Round
  <2> HIDE DEF q, r, R
  <2> QED
    BY <1>2, <2>1, <2>2
<1>4. k = Max({1, R})
  BY DEF CanaryCount, a
<1> HIDE DEF q, r, R
<1>5. R \in Nat
  BY <1>2, <1>3
<1>6. k = IF 1 <= R THEN R ELSE 1
  BY <1>4, <1>5, MinMaxOfTwo
<1> HIDE DEF k
<1>7. q * den \in Nat /\ (q + 1) * den = q * den + den
  BY <1>2
<1> DEFINE x == q * den
<1>8. \/ R * den = x + den /\ 2 * r >= den
      \/ R * den = x /\ 2 * r <= den
  BY <1>3, <1>7
<1>9. x \in Nat /\ a = x + r
  BY <1>2, <1>7
<1> HIDE DEF x
<1> DEFINE y == R * den
<1>10. \/ y = x + den /\ 2 * r >= den
       \/ y = x /\ 2 * r <= den
  BY <1>8
<1> HIDE DEF y
<1>11. 2 * a <= 2 * y + den /\ 2 * y <= 2 * a + den
  BY <1>2, <1>9, <1>10
<1>12. CASE 1 <= R
  <2>1. k = R /\ k * den = y
    BY <1>6, <1>12 DEF y
  <2> QED
    BY <1>5, <1>11, <1>12, <2>1 DEF a, k
<1>13. CASE ~(1 <= R)
  <2>1. k = 1 /\ R = 0 /\ k * den = den
    BY <1>5, <1>6, <1>13
  <2>2. y = 0
    BY <2>1 DEF y
  <2>3. 2 * a <= den
    BY <1>1, <1>11, <2>2
  <2>4. 2 * a <= 2 * den + den
    BY <1>1, <2>3
  <2> QED
    BY <2>1, <2>4 DEF a, k
<1> QED
  BY <1>12, <1>13
=============================================================================
