----------------------------- MODULE StatsProofs -----------------------------
(***************************************************************************)
(* For every graded list of rollup tables, every grid and every range: the *)
(* table a request is answered from covers it, and no finer one does; the  *)
(* chart has a point for each bucket of the range, and counts every        *)
(* connection of the range once.                                           *)
(***************************************************************************)
EXTENDS Statistics, SumLemmas, FiniteSetTheorems, WellFoundedInduction, TLAPS

-----------------------------------------------------------------------------
(* Arithmetic *)

\* An index below a table is that of a finer table.
LEMMA BelowIsEarlier ==
    ASSUME NEW n \in Nat, NEW k \in 1..n, NEW i \in 1..k - 1
    PROVE  i \in 1..n /\ i < k
OBVIOUS

\* What is at least k is not below it.
LEMMA NotBelow == ASSUME NEW i \in Int, NEW k \in Int, k <= i PROVE ~(i < k)
OBVIOUS

\* The start of a range that only has an end is a time.
LEMMA DifferenceIsInt == ASSUME NEW a \in Int, NEW b \in Nat PROVE a - b \in Int
OBVIOUS

\* Division rounds down: the quotient is an integer, and what remains is below the divisor.
LEMMA Division ==
    ASSUME NEW z \in Int, NEW w \in Nat, w > 0
    PROVE  /\ z \div w \in Int /\ (z % w) \in 0..w - 1
           /\ z = (z \div w) * w + (z % w)
OBVIOUS

\* Multiples of a positive number are in the order of their factors.
LEMMA Multiples ==
    ASSUME NEW m \in Int, NEW q \in Int, NEW w \in Nat, w > 0
    PROVE  /\ m * w \in Int
           /\ m <= q => m * w <= q * w
           /\ m < q => m * w + w <= q * w
OBVIOUS

\* A number is divided by a factor of it without remainder.
LEMMA FactorDivides ==
    ASSUME NEW k \in Int, NEW w \in Nat, w > 0
    PROVE  (k * w) % w = 0 /\ (k * w) \div w = k
OBVIOUS

\* The quotient is the largest factor whose multiple fits.
LEMMA QuotientIsFloor ==
    ASSUME NEW z \in Int, NEW w \in Nat, w > 0, NEW m \in Int
    PROVE  m <= z \div w <=> m * w <= z
<1> DEFINE q == z \div w
<1>1. q \in Int /\ q * w <= z /\ z < q * w + w
  BY Division
<1> HIDE DEF q
<1>2. CASE m <= q
  BY <1>1, <1>2, Multiples
<1>3. CASE q < m
  <2>1. q * w + w <= m * w /\ q * w \in Int /\ m * w \in Int
    BY <1>1, <1>3, Multiples
  <2> QED
    BY <1>1, <1>3, <2>1
<1> QED
  BY <1>1, <1>2, <1>3 DEF q

-----------------------------------------------------------------------------
(* The grid of buckets *)

\* A moment where a bucket of this width begins.
Begins(t, w) == (t - Origin) % w = 0

\* Those moments are the multiples of the width, counted from the origin.
LEMMA BeginsAtMultiples ==
    ASSUME NEW t \in Int, NEW w \in Nat, w > 0
    PROVE  Begins(t, w) <=> \E k \in Int : t = Origin + k * w
<1>1. Origin \in Int
  BY StatisticsConstants
<1> DEFINE q == (t - Origin) \div w
<1>2. /\ q \in Int /\ t - Origin = q * w + ((t - Origin) % w)
      /\ q * w \in Int
  BY <1>1, Division, Multiples
<1>3. ASSUME Begins(t, w) PROVE t = Origin + q * w
  <2> HIDE DEF q
  <2> QED
    BY <1>1, <1>2, <1>3 DEF Begins
<1>4. ASSUME NEW k \in Int, t = Origin + k * w PROVE Begins(t, w)
  <2>1. t - Origin = k * w
    BY <1>1, <1>4, Multiples
  <2> QED
    BY <2>1, FactorDivides DEF Begins
<1> QED
  BY <1>2, <1>3, <1>4

\* A moment is in the bucket that BucketOf gives it, which begins on the grid.
LEMMA BucketHolds ==
    ASSUME NEW t \in Int, NEW w \in Nat, w > 0
    PROVE  /\ BucketOf(t, w) \in Int /\ Begins(BucketOf(t, w), w)
           /\ BucketOf(t, w) <= t /\ t < BucketOf(t, w) + w
<1>1. Origin \in Int
  BY StatisticsConstants
<1> DEFINE q == (t - Origin) \div w
<1>2. /\ q \in Int /\ t - Origin = q * w + ((t - Origin) % w)
      /\ q * w \in Int /\ ((t - Origin) % w) \in 0..w - 1
  BY <1>1, Division, Multiples
<1>3. BucketOf(t, w) = Origin + q * w
  BY DEF BucketOf
<1> HIDE DEF q
<1>4. BucketOf(t, w) \in Int /\ BucketOf(t, w) <= t /\ t < BucketOf(t, w) + w
  BY <1>1, <1>2, <1>3
<1> QED
  BY <1>2, <1>3, <1>4, BeginsAtMultiples

\* The bucket of a moment is the last that begins by then.
LEMMA BucketIsLast ==
    ASSUME NEW t \in Int, NEW w \in Nat, w > 0, NEW b \in Int, Begins(b, w)
    PROVE  b <= BucketOf(t, w) <=> b <= t
<1>1. Origin \in Int
  BY StatisticsConstants
<1>2. PICK k \in Int : b = Origin + k * w
  BY BeginsAtMultiples
<1> DEFINE q == (t - Origin) \div w
<1>3. q \in Int /\ (k <= q <=> k * w <= t - Origin) /\ k * w \in Int /\ q * w \in Int
  BY <1>1, Division, QuotientIsFloor, Multiples
<1>4. BucketOf(t, w) = Origin + q * w
  BY DEF BucketOf
<1> HIDE DEF q
<1>5. k <= q => k * w <= q * w
  BY <1>3, Multiples
<1>6. k > q => q * w + w <= k * w
  BY <1>3, Multiples
<1> QED
  BY <1>1, <1>2, <1>3, <1>4, <1>5, <1>6

\* So a bucket is its own bucket.
LEMMA BucketOfBucket ==
    ASSUME NEW w \in Nat, w > 0, NEW b \in Int, Begins(b, w)
    PROVE  BucketOf(b, w) = b
<1>1. b <= BucketOf(b, w)
  BY BucketIsLast
<1>2. BucketOf(b, w) \in Int /\ BucketOf(b, w) <= b
  BY BucketHolds
<1> QED
  BY <1>1, <1>2

\* The chart's first bucket is the first that begins no earlier than its range.
LEMMA SnapUpIsFirst ==
    ASSUME NEW x \in Int, NEW w \in Nat, w > 0
    PROVE  /\ SnapUp(x, w) \in Int /\ Begins(SnapUp(x, w), w) /\ x <= SnapUp(x, w)
           /\ \A b \in Int : Begins(b, w) => (SnapUp(x, w) <= b <=> x <= b)
<1>1. Origin \in Int
  BY StatisticsConstants
<1> DEFINE p == (Origin - x) \div w
<1>2. /\ p \in Int /\ p * w \in Int /\ (-p) \in Int /\ (-p) * w = -(p * w)
      /\ p * w <= Origin - x
  BY <1>1, Division, Multiples
<1>3. SnapUp(x, w) = Origin - p * w
  BY DEF SnapUp
<1>5. ASSUME NEW k \in Int PROVE k <= p <=> k * w <= Origin - x
  BY <1>1, QuotientIsFloor
<1> HIDE DEF p
<1>4. SnapUp(x, w) = Origin + (-p) * w /\ SnapUp(x, w) \in Int /\ x <= SnapUp(x, w)
  BY <1>1, <1>2, <1>3
<1>6. ASSUME NEW b \in Int, Begins(b, w), x <= b PROVE SnapUp(x, w) <= b
  <2>1. PICK k \in Int : b = Origin + k * w
    BY <1>6, BeginsAtMultiples
  <2>2. k * w \in Int /\ (-k) \in Int /\ (-k) * w = -(k * w)
    BY Multiples
  <2>3. (-k) * w <= Origin - x
    BY <1>1, <1>6, <2>1, <2>2
  <2>4. -k <= p
    BY <1>5, <2>2, <2>3
  <2>5. (-k) * w <= p * w
    BY <1>2, <2>2, <2>4, Multiples
  <2> QED
    BY <1>1, <1>2, <1>3, <2>1, <2>2, <2>5
<1>7. \A b \in Int : x <= SnapUp(x, w) /\ SnapUp(x, w) <= b => x <= b
  BY <1>4
<1> QED
  BY <1>2, <1>4, <1>6, <1>7, BeginsAtMultiples

\* A moment falls into a bucket of the range when it is past the range's first bucket.
LEMMA SnapUpIsInverse ==
    ASSUME NEW x \in Int, NEW t \in Int, NEW w \in Nat, w > 0
    PROVE  SnapUp(x, w) <= t <=> x <= BucketOf(t, w)
<1>1. SnapUp(x, w) \in Int /\ Begins(SnapUp(x, w), w)
  BY SnapUpIsFirst
<1>2. SnapUp(x, w) <= t <=> SnapUp(x, w) <= BucketOf(t, w)
  BY <1>1, BucketIsLast
<1>3. BucketOf(t, w) \in Int /\ Begins(BucketOf(t, w), w)
  BY BucketHolds
<1> QED
  BY <1>2, <1>3, SnapUpIsFirst

\* Two moments of the grid are a multiple of the width apart.
LEMMA GridDistance ==
    ASSUME NEW a \in Int, NEW b \in Int, NEW w \in Nat, w > 0, Begins(b, w)
    PROVE  Begins(a, w) <=> (a - b) % w = 0
<1>1. Origin \in Int
  BY StatisticsConstants
<1>2. PICK k \in Int : b = Origin + k * w
  BY BeginsAtMultiples
<1>3. ASSUME Begins(a, w) PROVE (a - b) % w = 0
  <2>1. PICK m \in Int : a = Origin + m * w
    BY <1>3, BeginsAtMultiples
  <2>2. m - k \in Int /\ (m - k) * w = m * w - k * w /\ m * w \in Int /\ k * w \in Int
    BY Multiples
  <2>3. a - b = (m - k) * w
    BY <1>1, <1>2, <2>1, <2>2
  <2> QED
    BY <2>2, <2>3, FactorDivides
<1>4. ASSUME (a - b) % w = 0 PROVE Begins(a, w)
  <2> DEFINE m == (a - b) \div w
  <2>1. m \in Int /\ a - b = m * w + ((a - b) % w) /\ m * w \in Int /\ k * w \in Int
    BY Division, Multiples
  <2> HIDE DEF m
  <2>2. m + k \in Int /\ (m + k) * w = m * w + k * w
    BY <2>1
  <2>3. a = Origin + (m + k) * w
    BY <1>1, <1>2, <1>4, <2>1, <2>2
  <2> QED
    BY <2>2, <2>3, BeginsAtMultiples
<1> QED
  BY <1>3, <1>4

-----------------------------------------------------------------------------
(* What the rows add up to *)

\* Finitely many moments have a first one.
LEMMA FirstMoment ==
    ASSUME NEW S \in SUBSET Int, IsFiniteSet(S), S # {}
    PROVE  Min(S) \in S
<1> DEFINE HasMin(A) == A # {} => \E x \in A : \A y \in A : x <= y
           Good == {A \in SUBSET S : HasMin(A)}
<1>1. ASSUME NEW A \in SUBSET S, \A B \in SUBSET A : B # A => B \in Good
      PROVE  A \in Good
  <2> SUFFICES ASSUME A # {} PROVE \E x \in A : \A y \in A : x <= y
    OBVIOUS
  <2>1. PICK a \in A : TRUE
    OBVIOUS
  <2>2. CASE A \ {a} = {}
    BY <2>1, <2>2
  <2>3. CASE A \ {a} # {}
    <3>1. PICK x \in A \ {a} : \A y \in A \ {a} : x <= y
      <4>1. A \ {a} \in Good
        BY <1>1, <2>1
      <4> QED
        BY <2>3, <4>1
    <3> HIDE DEF Good
    <3>2. CASE x <= a
      BY <3>1, <3>2
    <3>3. CASE a < x
      BY <2>1, <3>1, <3>3
    <3> QED
      BY <2>1, <3>1, <3>2, <3>3
  <2> QED
    BY <2>2, <2>3
<1> HIDE DEF Good
<1>2. S \in Good
  BY <1>1, SubsetInduction
<1> QED
  BY <1>2 DEF Good, Min

\* A function has finitely many values on a finite set.
LEMMA ImageIsFinite ==
    ASSUME NEW S, IsFiniteSet(S), NEW f
    PROVE  IsFiniteSet({f[x] : x \in S})
<1> DEFINE T == {f[x] : x \in S}
           g == [x \in S |-> f[x]]
<1>1. g \in Surjection(S, T)
  BY DEF Surjection
<1> HIDE DEF g, T
<1>2. IsFiniteSet(T)
  BY <1>1, FS_Surjection
<1> QED
  BY <1>2 DEF T

\* Rows that count connections, sorted into finitely many parts: the parts' counts add up
\* to that of all the rows.
LEMMA ConnectsByParts ==
    ASSUME NEW R, IsFiniteSet(R), \A r \in R : r.connects \in Nat,
           NEW T, IsFiniteSet(T), NEW k, \A r \in R : k[r] \in T
    PROVE  /\ Connects(R) \in Nat
           /\ SumFunction([t \in T |-> Connects({r \in R : k[r] = t})]) = Connects(R)
<1> DEFINE f == [r \in R |-> r.connects]
           g == [t \in T |-> Connects({r \in R : k[r] = t})]
<1>1. Connects(R) = SumFunctionOnSet(f, R) /\ \A r \in R : f[r] \in Nat
  BY DEF Connects, SumFunction
<1>2. ASSUME NEW t \in T
      PROVE  /\ PartSums(f, R, k, T)[t] = g[t]
             /\ PartSums(f, R, k, T)[t] \in Nat
  <2> DEFINE P == {r \in R : k[r] = t}
             h == [r \in P |-> r.connects]
  <2>1. IsFiniteSet(P)
    BY FS_Subset
  <2>2. \A r \in P : f[r] \in Nat /\ h[r] = f[r]
    OBVIOUS
  <2>3. PartSums(f, R, k, T)[t] = SumFunctionOnSet(f, P)
    BY DEF PartSums, Part
  <2>4. g[t] = SumFunctionOnSet(h, P)
    BY DEF Connects, SumFunction
  <2> HIDE DEF P, f, g, h
  <2> QED
    BY <2>1, <2>2, <2>3, <2>4, SumOfEqual, SumWithout
<1>3. SumFunction(g) = SumFunctionOnSet(g, T)
  BY DEF SumFunction
<1> HIDE DEF f, g
<1>4. SumFunctionOnSet(PartSums(f, R, k, T), T) = SumFunctionOnSet(g, T)
  BY <1>2, SumOfEqual
<1>5. SumFunctionOnSet(PartSums(f, R, k, T), T) = SumFunctionOnSet(f, R)
  BY <1>1, SumByParts
<1>6. SumFunctionOnSet(f, R) \in Nat
  BY <1>1, SumWithout
<1> QED
  BY <1>1, <1>3, <1>4, <1>5, <1>6 DEF g

\* The rows of some connections count each of them once.
LEMMA RowsCountEach ==
    ASSUME NEW A \in SUBSET Conns
    PROVE  /\ IsFiniteSet(RowsOf(A)) /\ \A r \in RowsOf(A) : r.connects \in Nat
           /\ Connects(RowsOf(A)) = Cardinality(A)
<1> DEFINE Like(c) == {d \in A : RowBucket(d) = RowBucket(c) /\ CountryOf[d] = CountryOf[c]}
           row(c) == [bucket |-> RowBucket(c), country |-> CountryOf[c],
                      connects |-> Cardinality(Like(c))]
           k == [c \in A |-> row(c)]
           R == RowsOf(A)
           ones == [c \in A |-> 1]
           f == [r \in R |-> r.connects]
<1>1. IsFiniteSet(A)
  BY StatisticsConstants, FS_Subset
<1>2. R = {row(c) : c \in A}
  BY DEF RowsOf
<1>3. IsFiniteSet(R)
  <2>1. R = {k[c] : c \in A}
    BY <1>2
  <2> HIDE DEF k, R
  <2> QED
    BY <1>1, <2>1, ImageIsFinite
<1>4. ASSUME NEW c \in A PROVE IsFiniteSet(Like(c)) /\ Cardinality(Like(c)) \in Nat
  <2>1. Like(c) \in SUBSET A
    OBVIOUS
  <2> HIDE DEF Like
  <2> QED
    BY <1>1, <2>1, FS_Subset, FS_CardinalityType
<1>5. ASSUME NEW c \in A PROVE Part(A, k, row(c)) = Like(c)
  <2>1. ASSUME NEW d \in Like(c) PROVE row(d) = row(c)
    OBVIOUS
  <2>2. ASSUME NEW d \in A, row(d) = row(c) PROVE d \in Like(c)
    <3>1. RowBucket(d) = RowBucket(c) /\ CountryOf[d] = CountryOf[c]
      <4> DEFINE n(e) == Cardinality(Like(e))
      <4> HIDE DEF n, RowBucket
      <4>1. row(d) = [bucket |-> RowBucket(d), country |-> CountryOf[d], connects |-> n(d)]
        BY DEF n
      <4>2. row(c) = [bucket |-> RowBucket(c), country |-> CountryOf[c], connects |-> n(c)]
        BY DEF n
      <4> HIDE DEF row
      <4>3. row(d).bucket = row(c).bucket /\ row(d).country = row(c).country
        BY <2>2
      <4>4. row(d).bucket = RowBucket(d) /\ row(d).country = CountryOf[d]
        BY <4>1
      <4>5. row(c).bucket = RowBucket(c) /\ row(c).country = CountryOf[c]
        BY <4>2
      <4> QED
        BY <4>3, <4>4, <4>5
    <3> QED
      BY <3>1
  <2>3. Part(A, k, row(c)) = {d \in A : row(d) = row(c)}
    BY DEF Part
  <2>4. Like(c) \subseteq A
    OBVIOUS
  <2> HIDE DEF row, Like
  <2> QED
    BY <2>1, <2>2, <2>3, <2>4
<1>6. ASSUME NEW r \in R
      PROVE  f[r] \in Nat /\ PartSums(ones, A, k, R)[r] = f[r]
  <2>1. PICK c \in A : r = row(c)
    BY <1>2
  <2>2. r.connects = Cardinality(Like(c))
    BY <2>1
  <2>3. PartSums(ones, A, k, R)[r] = SumFunctionOnSet(ones, Like(c))
    <3>1. PartSums(ones, A, k, R)[r] = SumFunctionOnSet(ones, Part(A, k, r))
      BY DEF PartSums
    <3> HIDE DEF Like, row, ones, k, R
    <3> QED
      BY <1>5, <2>1, <3>1
  <2>4. \A d \in Like(c) : ones[d] = 1
    OBVIOUS
  <2>5. f[r] = r.connects
    OBVIOUS
  <2> HIDE DEF Like, row, ones, k, R, f
  <2> QED
    BY <1>4, <2>2, <2>3, <2>4, <2>5, SumOfOnes
<1>7. \A c \in A : ones[c] = 1 /\ ones[c] \in Nat /\ k[c] \in R
  BY <1>2
<1>8. Connects(R) = SumFunctionOnSet(f, R)
  BY DEF Connects, SumFunction
<1>9. \A r \in R : r.connects \in Nat
  <2> TAKE r \in R
  <2>1. f[r] = r.connects
    OBVIOUS
  <2> QED
    BY <1>6, <2>1
<1> HIDE DEF ones, k, R, f
<1>10. SumFunctionOnSet(f, R) = SumFunctionOnSet(PartSums(ones, A, k, R), R)
  BY <1>3, <1>6, SumOfEqual
<1>11. SumFunctionOnSet(PartSums(ones, A, k, R), R) = SumFunctionOnSet(ones, A)
  BY <1>1, <1>3, <1>7, SumByParts
<1>12. SumFunctionOnSet(ones, A) = Cardinality(A)
  BY <1>1, <1>7, SumOfOnes
<1>13. Connects(R) = Cardinality(A)
  BY <1>8, <1>10, <1>11, <1>12
<1> QED
  BY <1>3, <1>9, <1>13 DEF R

-----------------------------------------------------------------------------
(* The tables *)

\* What the assumption says of the tables, one by one.
LEMMA TiersAreGraded ==
    /\ Last \in Nat /\ Last > 0
    /\ \A i \in 1..Last : /\ Tiers[i].width \in Nat /\ Tiers[i].width > 0
                          /\ Tiers[i].maxSpan \in Nat \cup {NoLimit}
                          /\ Tiers[i].retention \in Nat \cup {NoLimit}
    /\ Tiers[Last].maxSpan = NoLimit /\ Tiers[Last].retention = NoLimit
    /\ \A j \in 1..Last : \A i \in 1..j - 1 :
          /\ NoLimit \notin {Tiers[i].maxSpan, Tiers[i].retention}
          /\ Tiers[j].maxSpan # NoLimit => Tiers[i].maxSpan <= Tiers[j].maxSpan
          /\ Tiers[j].retention # NoLimit => Tiers[i].retention <= Tiers[j].retention
<1>1. Graded(Tiers) /\ Last = Len(Tiers)
  BY StatisticsConstants DEF Last
<1> DEFINE Tier == [width : Nat \ {0}, maxSpan : Nat \cup {NoLimit},
                    retention : Nat \cup {NoLimit}]
<1>2. Tiers \in Seq(Tier)
  BY <1>1 DEF Graded
<1>3. Last \in Nat /\ Last > 0 /\ Tiers[Last].maxSpan = NoLimit
                               /\ Tiers[Last].retention = NoLimit
  BY <1>1, <1>2 DEF Graded
<1>4. ASSUME NEW i \in 1..Last
      PROVE  Tiers[i] \in Tier
  <2> HIDE DEF Tier
  <2> QED
    BY <1>1, <1>2
<1>5. ASSUME NEW j \in 1..Last, NEW i \in 1..j - 1
      PROVE  /\ NoLimit \notin {Tiers[i].maxSpan, Tiers[i].retention}
             /\ Tiers[j].maxSpan # NoLimit => Tiers[i].maxSpan <= Tiers[j].maxSpan
             /\ Tiers[j].retention # NoLimit => Tiers[i].retention <= Tiers[j].retention
  BY <1>1, <1>5 DEF Graded
<1> QED
  BY <1>3, <1>4, <1>5

\* Tier::finest finds the first table that covers, or the last one if none does.
LEMMA FinestIsFirst ==
    ASSUME NEW covering \in SUBSET (1..Last)
    PROVE  /\ Finest(covering) \in covering \cup {Last}
           /\ \A j \in covering : Finest(covering) <= j
<1> DEFINE all == covering \cup {Last}
<1> USE TiersAreGraded
<1>1. all # {} /\ all \subseteq Nat
  OBVIOUS
<1>2. PICK i \in all : \A j \in all : ~(<<j, i>> \in OpToRel(<, Nat))
  <2> HIDE DEF all
  <2> QED
    BY <1>1, NatLessThanWellFounded, WFMin
<1>3. \A j \in all : i <= j
  <2> TAKE j \in all
  <2>1. i \in Nat /\ j \in Nat
    BY <1>1
  <2>2. ~(j < i)
    BY <1>2, <2>1 DEF OpToRel
  <2> QED
    BY <2>1, <2>2
<1> QED
  BY <1>3 DEF Finest

\* When the last table covers, the one that is found does, and no finer one.
LEMMA FinestCovers ==
    ASSUME NEW covering \in SUBSET (1..Last), Last \in covering
    PROVE  /\ Finest(covering) \in covering
           /\ \A i \in covering : ~(i < Finest(covering))
<1>1. Finest(covering) \in covering /\ covering \subseteq Int
  BY FinestIsFirst
<1>2. ASSUME NEW i \in covering PROVE ~(i < Finest(covering))
  <2>1. Finest(covering) <= i /\ Finest(covering) \in Int /\ i \in Int
    BY <1>1, <1>2, FinestIsFirst
  <2> QED
    BY <2>1, NotBelow
<1> QED
  BY <1>1, <1>2

\* A coarser table covers whatever a finer one does.
LEMMA CoarserCovers ==
    ASSUME NEW i \in 1..Last, NEW j \in 1..Last, i <= j, NEW x \in Int
    PROVE  /\ Within(x, Tiers[i].maxSpan) => Within(x, Tiers[j].maxSpan)
           /\ Within(x, Tiers[i].retention) => Within(x, Tiers[j].retention)
<1>1. CASE i = j
  BY <1>1
<1>2. CASE i < j
  <2>1. i \in 1..j - 1
    BY <1>2, TiersAreGraded
  <2> QED
    BY <2>1, TiersAreGraded DEF Within, NoLimit
<1> QED
  BY <1>1, <1>2, TiersAreGraded

\* The choice by span covers the span, and no finer one does.
LEMMA BySpanCovers ==
    ASSUME NEW span \in Int
    PROVE  /\ BySpan(span) \in 1..Last /\ Within(span, Tiers[BySpan(span)].maxSpan)
           /\ \A i \in 1..Last : i < BySpan(span) => ~Within(span, Tiers[i].maxSpan)
<1> DEFINE covering == {i \in 1..Last : Within(span, Tiers[i].maxSpan)}
<1>1. covering \in SUBSET (1..Last) /\ BySpan(span) = Finest(covering)
  BY DEF BySpan
<1>0. \A i : i \in covering <=> i \in 1..Last /\ Within(span, Tiers[i].maxSpan)
  OBVIOUS
<1> HIDE DEF covering
<1>2. Last \in covering
  BY <1>0, TiersAreGraded DEF Within
<1> QED
  BY <1>0, <1>1, <1>2, FinestCovers

\* The choice by retention covers the age of the range, and no finer one does.
LEMMA ByRetentionCovers ==
    ASSUME NEW age \in Int
    PROVE  /\ ByRetention(age) \in 1..Last
           /\ Within(age, Tiers[ByRetention(age)].retention)
           /\ \A i \in 1..Last : i < ByRetention(age) => ~Within(age, Tiers[i].retention)
<1> DEFINE covering == {i \in 1..Last : Within(age, Tiers[i].retention)}
<1>1. covering \in SUBSET (1..Last) /\ ByRetention(age) = Finest(covering)
  BY DEF ByRetention
<1>0. \A i : i \in covering <=> i \in 1..Last /\ Within(age, Tiers[i].retention)
  OBVIOUS
<1> HIDE DEF covering
<1>2. Last \in covering
  BY <1>0, TiersAreGraded DEF Within
<1> QED
  BY <1>0, <1>1, <1>2, FinestCovers

-----------------------------------------------------------------------------
(* The request *)

StatsInv == StatsTypeOK /\ TierCovers

\* Nothing is asked at the start.
LEMMA StatsInvInit == StatsInit => StatsInv
<1> SUFFICES ASSUME StatsInit PROVE StatsInv
  OBVIOUS
<1>1. MaxTime \in Nat /\ OpenEnd \notin Int /\ Last \in 1..Last
  BY StatisticsConstants, TiersAreGraded
<1> QED
  BY <1>1 DEF StatsInit, StatsInv, StatsTypeOK, TierCovers, Ranged, Trapped

\* Parsing the query gives a range that is open at both ends, refused or in order.
LEMMA AskStep ==
    ASSUME StatsInv, NEW f \in Given, NEW t \in Given, Ask(f, t) PROVE StatsInv'
<1>1. MaxTime \in Nat /\ DefaultSpan \in Nat /\ Inputs \subseteq Int /\ OpenEnd \notin Int
  BY StatisticsConstants
<1>2. now \in Int
  BY <1>1 DEF StatsInv, StatsTypeOK
<1>3. \/ from' = OpenEnd /\ to' = OpenEnd /\ phase' = "parsed"
      \/ /\ from' \in Int /\ to' \in Int
         /\ phase' = "refused" \/ (phase' = "parsed" /\ from' <= to')
  <2>1. CASE f = Absent /\ t = Absent
    BY <2>1 DEF Ask
  <2>2. CASE ~(f = Absent /\ t = Absent)
    <3>1. to' \in Int
      BY <1>1, <1>2, <2>2 DEF Ask
    <3>2. from' = IF f \in Inputs THEN f ELSE to' - DefaultSpan
      BY <2>2 DEF Ask
    <3>3. from' \in Int
      BY <1>1, <3>1, <3>2, DifferenceIsInt
    <3>4. phase' = IF from' > to' THEN "refused" ELSE "parsed"
      BY <2>2 DEF Ask
    <3> QED
      BY <3>1, <3>3, <3>4
  <2> QED
    BY <2>1, <2>2
<1>4. table' = Last /\ width' = Tiers[Last].width /\ chosenAt' = 0 /\ queriedAt' = 0
  BY DEF Ask
<1>5. UNCHANGED <<now, ended>>
  BY DEF Ask
<1>6. Last \in 1..Last
  BY TiersAreGraded
<1>7. StatsTypeOK'
  BY <1>1, <1>3, <1>4, <1>5, <1>6 DEF StatsInv, StatsTypeOK
<1>8. TierCovers'
  BY <1>3 DEF TierCovers, Ranged
<1> QED
  BY <1>7, <1>8 DEF StatsInv

\* The coarser of the two choices covers both the span and the age, and no finer table
\* does.
LEMMA ChooseTierStep == ASSUME StatsInv, ChooseTier PROVE StatsInv'
<1>1. /\ now \in 0..MaxTime /\ MaxTime \in Nat
      /\ from \in Int /\ to \in Int /\ OpenEnd \notin Int
      /\ UNCHANGED <<now, from, to>> /\ chosenAt' = now
  BY StatisticsConstants DEF StatsInv, StatsTypeOK, ChooseTier
<1> DEFINE span == to - from
           age == now - from
<1>2. span \in Int /\ age \in Int
  BY <1>1
<1>3. table' = IF BySpan(span) >= ByRetention(age) THEN BySpan(span) ELSE ByRetention(age)
  BY DEF ChooseTier
<1> HIDE DEF span, age
<1> DEFINE s == BySpan(span)
           r == ByRetention(age)
<1>11. /\ s \in 1..Last /\ Within(span, Tiers[s].maxSpan)
      /\ \A i \in 1..Last : i < s => ~Within(span, Tiers[i].maxSpan)
  BY <1>2, BySpanCovers
<1>12. /\ r \in 1..Last /\ Within(age, Tiers[r].retention)
      /\ \A i \in 1..Last : i < r => ~Within(age, Tiers[i].retention)
  BY <1>2, ByRetentionCovers
<1> HIDE DEF s, r
<1>13. table' \in 1..Last /\ s <= table' /\ r <= table' /\ table' \in {s, r}
  BY <1>3, <1>11, <1>12, TiersAreGraded DEF s, r
<1>4. table' \in 1..Last /\ Within(span, Tiers[table'].maxSpan)
                         /\ Within(age, Tiers[table'].retention)
  BY <1>2, <1>11, <1>12, <1>13, CoarserCovers
<1>5. \A i \in 1..table' - 1 :
          ~(Within(span, Tiers[i].maxSpan) /\ Within(age, Tiers[i].retention))
  <2> TAKE i \in 1..table' - 1
  <2>1. i \in 1..Last /\ i < table'
    BY <1>13, TiersAreGraded, BelowIsEarlier
  <2> QED
    BY <1>11, <1>12, <1>13, <2>1
<1>6. TierCovers'
  BY <1>1, <1>4, <1>5 DEF TierCovers, span, age
<1>7. StatsTypeOK'
  BY <1>1, <1>4 DEF StatsInv, StatsTypeOK, ChooseTier
<1> QED
  BY <1>6, <1>7 DEF StatsInv

\* Every step of a request, of a connection and of the clock keeps the invariant.
LEMMA StatsInvStep == StatsInv /\ [StatsNext]_statsVars => StatsInv'
<1> SUFFICES ASSUME StatsInv, [StatsNext]_statsVars PROVE StatsInv'
  OBVIOUS
<1>1. CASE \E f, t \in Given : Ask(f, t)
  BY <1>1, AskStep
<1>2. CASE ChooseTier
  BY <1>2, ChooseTierStep
<1>3. CASE ChooseAll
  <2>1. table' = Last /\ width' \in {Week, Tiers[Last].width} /\ chosenAt' = now
    BY <1>3 DEF ChooseAll
  <2>2. phase' = "chosen" /\ from = OpenEnd
        /\ UNCHANGED <<now, ended, from, to, queriedAt, rows, points>>
    BY <1>3 DEF ChooseAll
  <2>3. Last \in 1..Last
    BY TiersAreGraded
  <2> QED
    BY <2>1, <2>2, <2>3 DEF StatsInv, StatsTypeOK, TierCovers, Ranged
<1>4. CASE Query
  <2>1. /\ phase = "chosen" /\ phase' = "answered" /\ queriedAt' = now
        /\ UNCHANGED <<now, ended, from, to, table, width, chosenAt, points>>
    BY <1>4 DEF Query
  <2> QED
    BY <2>1 DEF StatsInv, StatsTypeOK, TierCovers, Ranged
<1>5. CASE QueryFails
  BY <1>5 DEF QueryFails, StatsInv, StatsTypeOK, TierCovers, Ranged
<1>6. CASE Show
  <2>1. /\ phase = "answered" /\ phase' = "shown"
        /\ UNCHANGED <<now, ended, from, to, table, width, chosenAt, queriedAt, rows>>
    BY <1>6 DEF Show
  <2> QED
    BY <2>1 DEF StatsInv, StatsTypeOK, TierCovers, Ranged
<1>7. ASSUME NEW c \in Conns, ConnectionEnds(c) PROVE StatsInv'
  BY <1>7 DEF ConnectionEnds, requestVars, StatsInv, StatsTypeOK, TierCovers, Ranged
<1>8. CASE Tick
  <2>1. now' \in 0..MaxTime
    BY <1>8, StatisticsConstants DEF StatsInv, StatsTypeOK, Tick
  <2> QED
    BY <1>8, <2>1 DEF Tick, requestVars, StatsInv, StatsTypeOK, TierCovers, Ranged
<1>9. CASE UNCHANGED statsVars
  BY <1>9 DEF statsVars, requestVars, StatsInv, StatsTypeOK, TierCovers, Ranged
<1> QED
  BY <1>1, <1>2, <1>3, <1>4, <1>5, <1>6, <1>7, <1>8, <1>9 DEF StatsNext

\* The table a range is answered from covers its span and its age, at the exact limits
\* too, and no finer table does.
THEOREM FinestCoveringTier == StatsSpec => []TierCovers
<1>1. StatsInv => TierCovers
  BY DEF StatsInv
<1> QED
  BY <1>1, StatsInvInit, StatsInvStep, PTL DEF StatsSpec

\* The tables of db.rs are graded, so all of this holds of them.
THEOREM TableIsGraded == Graded(TIERS)
BY DEF Graded, TIERS, NoLimit, Minute, Hour, Day

-----------------------------------------------------------------------------
(* The answer *)

\* The answer is the rows of the connections A, which are within what may be there and,
\* when the query is in time, cover what must be.
Answers(A) ==
    /\ rows = RowsOf(A)
    /\ A \subseteq EndedIn(queriedAt + 1)
    /\ InTime => EndedIn(queriedAt - Lag) \subseteq A

Answered == phase \in {"answered", "shown"} => \E A \in SUBSET Conns : Answers(A)

\* The chart aggregates the answer over a range, the one that was asked for if any.
Charts(start, end) ==
    /\ points = Aggregate(start, end)
    /\ from # OpenEnd => start = from /\ end = to

Charted == phase = "shown" => \E start, end \in Int : Charts(start, end)

\* Only an open-ended answer has buckets of another width than its table's, the last.
TableFits == IF from = OpenEnd THEN table = Last ELSE width = Tiers[table].width

AnswerInv == StatsInv /\ TableFits /\ queriedAt <= now /\ Answered /\ Charted

\* Widths are positive numbers.
LEMMA WidthsArePositive ==
    ASSUME StatsTypeOK
    PROVE  /\ width \in Nat /\ width > 0
           /\ Tiers[table].width \in Nat /\ Tiers[table].width > 0
BY TiersAreGraded, StatisticsConstants DEF StatsTypeOK

\* The bucket of a row begins on the grid; in a range it is that of the moment itself.
LEMMA RowBucketIs ==
    ASSUME StatsTypeOK, NEW c, ended[c] \in Int
    PROVE  /\ RowBucket(c) \in Int /\ Begins(RowBucket(c), width)
           /\ width = Tiers[table].width => RowBucket(c) = BucketOf(ended[c], width)
<1> DEFINE w == Tiers[table].width
           b == BucketOf(ended[c], w)
<1>1. width \in Nat /\ width > 0 /\ w \in Nat /\ w > 0
  BY WidthsArePositive
<1>2. RowBucket(c) = BucketOf(b, width)
  BY DEF RowBucket
<1> HIDE DEF w
<1>3. b \in Int /\ Begins(b, w)
  BY <1>1, BucketHolds
<1> HIDE DEF b
<1>4. RowBucket(c) \in Int /\ Begins(RowBucket(c), width)
  BY <1>1, <1>2, <1>3, BucketHolds
<1>5. width = w => BucketOf(b, width) = b
  BY <1>1, <1>3, BucketOfBucket
<1> QED
  BY <1>2, <1>4, <1>5 DEF b, w

\* The moments of a connection that has ended, and those of a range.
LEMMA MomentsAreNumbers ==
    ASSUME StatsTypeOK
    PROVE  /\ \A c \in Conns : ended[c] # Trapped => ended[c] \in Nat
           /\ from # OpenEnd => from \in Int /\ to \in Int
           /\ now \in Nat /\ chosenAt \in Nat /\ queriedAt \in Nat
           /\ Lag \in Nat /\ MaxTime \in Nat
<1>1. MaxTime \in Nat /\ Lag \in Nat
  BY StatisticsConstants
<1> QED
  BY <1>1 DEF StatsTypeOK, Trapped

\* What the query asks for is what ended in a bucket that begins in the range.
LEMMA AskedIsInRange ==
    ASSUME StatsTypeOK, TableFits, NEW c \in Conns, ended[c] # Trapped
    PROVE  Asked(c) <=> \/ from = OpenEnd
                        \/ /\ SnapUp(from, width) <= ended[c]
                           /\ ended[c] < SnapUp(to, width)
<1> SUFFICES ASSUME from # OpenEnd
             PROVE  Asked(c) <=> /\ SnapUp(from, width) <= ended[c]
                                 /\ ended[c] < SnapUp(to, width)
  BY DEF Asked
<1>1. ended[c] \in Int /\ from \in Int /\ to \in Int
  BY MomentsAreNumbers
<1>2. RowBucket(c) = BucketOf(ended[c], width) /\ RowBucket(c) \in Int
  BY <1>1, RowBucketIs DEF TableFits
<1>3. width \in Nat /\ width > 0
  BY WidthsArePositive
<1>4. SnapUp(from, width) <= ended[c] <=> from <= RowBucket(c)
  BY <1>1, <1>2, <1>3, SnapUpIsInverse
<1>5. SnapUp(to, width) <= ended[c] <=> to <= RowBucket(c)
  BY <1>1, <1>2, <1>3, SnapUpIsInverse
<1>6. SnapUp(to, width) \in Int
  BY <1>1, <1>3, SnapUpIsFirst
<1> QED
  BY <1>1, <1>2, <1>4, <1>5, <1>6 DEF Asked

\* Retention has not come as far as the buckets of the range when the query is in time:
\* the table kept them when it was chosen, and removes whole buckets only.
LEMMA StillHeld ==
    ASSUME StatsTypeOK, TableFits, TierCovers, phase = "chosen",
           Tiers[table].retention = NoLimit \/ now - chosenAt < width,
           NEW oldest \in Removed(table),
           NEW c \in Conns, ended[c] # Trapped, Asked(c)
    PROVE  BucketOf(ended[c], Tiers[table].width) + Tiers[table].width > oldest
<1> DEFINE w == Tiers[table].width
           b == BucketOf(ended[c], w)
<1>1. w \in Nat /\ w > 0
  BY WidthsArePositive
<1>2. ended[c] \in Nat /\ ended[c] \in Int
  BY MomentsAreNumbers
<1> HIDE DEF w
<1>3. b \in Int
  BY <1>1, <1>2, BucketHolds
<1>4. CASE oldest = BucketOf(0, w)
  <2>1. oldest \in Int /\ Begins(oldest, w) /\ oldest <= 0
    BY <1>1, <1>4, BucketHolds
  <2>2. oldest <= b
    BY <1>1, <1>2, <2>1, BucketIsLast
  <2> HIDE DEF b
  <2> QED
    BY <1>1, <1>3, <2>1, <2>2 DEF b, w
<1>5. CASE oldest # BucketOf(0, w)
  <2>1. Tiers[table].retention # NoLimit /\ oldest \in 0..(now - Tiers[table].retention)
    BY <1>5 DEF Removed, w
  <2>2. from # OpenEnd
    BY <2>1, TiersAreGraded DEF TableFits
  <2>3. width = w
    BY <2>2 DEF TableFits, w
  <2>4. b = RowBucket(c)
    BY <1>2, <2>3, RowBucketIs DEF w
  <2>5. from <= b
    BY <2>2, <2>4 DEF Asked
  <2>6. chosenAt - from <= Tiers[table].retention
    BY <2>1, <2>2 DEF TierCovers, Ranged, Within
  <2>7. now - chosenAt < w
    BY <2>1, <2>3
  <2>8. /\ from \in Int /\ now \in Nat /\ chosenAt \in Nat
        /\ Tiers[table].retention \in Int
    BY <2>2, MomentsAreNumbers, TiersAreGraded DEF StatsTypeOK, NoLimit
  <2>9. oldest \in Int /\ oldest <= now - Tiers[table].retention
    BY <2>1, <2>8
  <2> HIDE DEF b
  <2>10. b + w > oldest
    BY <1>1, <1>3, <2>5, <2>6, <2>7, <2>8, <2>9
  <2> QED
    BY <2>10 DEF b, w
<1> QED
  BY <1>4, <1>5

\* The query answers.
LEMMA QueryAnswers == ASSUME AnswerInv, Query PROVE \E A \in SUBSET Conns : Answers(A)'
<1>1. PICK oldest \in Removed(table), newest \in (now - Lag)..(now + 1) :
         rows' = RowsOf({c \in Held(table, oldest, newest) : Asked(c)})
  BY DEF Query
<1>0. PICK A : A = {c \in Held(table, oldest, newest) : Asked(c)}
  OBVIOUS
<1>2. /\ phase = "chosen" /\ queriedAt' = now
      /\ UNCHANGED <<now, ended, from, to, table, width, chosenAt>>
  BY DEF Query
<1>3. StatsTypeOK /\ TierCovers /\ TableFits
  BY DEF AnswerInv, StatsInv
<1>4. /\ \A c \in Conns : ended[c] # Trapped => ended[c] \in Nat
      /\ now \in Nat /\ Lag \in Nat /\ newest \in Int
      /\ now - Lag <= newest /\ newest <= now + 1
  BY <1>3, MomentsAreNumbers
<1>5. A \in SUBSET Conns
  BY <1>0 DEF Held
<1>6. rows' = RowsOf(A)'
  <2>1. rows' = RowsOf(A)
    BY <1>0, <1>1
  <2>2. \A c : RowBucket(c)' = RowBucket(c)
    BY <1>2 DEF RowBucket, BucketOf
  <2> QED
    BY <2>1, <2>2 DEF RowsOf
<1>7. \A until : EndedIn(until)' = EndedIn(until)
  BY <1>2 DEF EndedIn, SnapUp
<1>8. A \subseteq EndedIn(now + 1)
  <2> SUFFICES ASSUME NEW c \in A PROVE c \in EndedIn(now + 1)
    OBVIOUS
  <2>1. c \in Conns /\ ended[c] # Trapped /\ ended[c] < newest /\ Asked(c)
    BY <1>0 DEF Held
  <2>2. ended[c] < now + 1
    BY <1>4, <2>1
  <2> QED
    BY <1>3, <2>1, <2>2, AskedIsInRange DEF EndedIn
<1>9. ASSUME InTime', NEW c \in EndedIn(now - Lag) PROVE c \in A
  <2>1. c \in Conns /\ ended[c] # Trapped /\ ended[c] < now - Lag
    BY <1>9 DEF EndedIn
  <2>2. Asked(c)
    BY <1>3, <1>9, <2>1, AskedIsInRange DEF EndedIn
  <2>3. Tiers[table].retention = NoLimit \/ now - chosenAt < width
    BY <1>2, <1>9 DEF InTime
  <2>4. BucketOf(ended[c], Tiers[table].width) + Tiers[table].width > oldest
    BY <1>2, <1>3, <2>1, <2>2, <2>3, StillHeld
  <2>5. ended[c] < newest
    BY <1>4, <2>1
  <2> QED
    BY <1>0, <2>1, <2>2, <2>4, <2>5 DEF Held
<1>10. Answers(A)'
  <2>1. A \subseteq EndedIn(queriedAt + 1)'
    BY <1>2, <1>7, <1>8
  <2>2. InTime' => EndedIn(queriedAt - Lag)' \subseteq A
    BY <1>2, <1>7, <1>9
  <2> QED
    BY <1>6, <2>1, <2>2 DEF Answers
<1> QED
  BY <1>5, <1>10

\* An answer stays what it is while connections end, at the time of the query or later.
LEMMA AnswersStay ==
    ASSUME StatsTypeOK, queriedAt <= now, NEW A \in SUBSET Conns, Answers(A),
           UNCHANGED <<from, to, table, width, chosenAt, queriedAt, rows>>,
           \A c \in Conns : ended'[c] = ended[c] \/ (ended[c] = Trapped /\ ended'[c] = now)
    PROVE  Answers(A)'
<1>1. \A c \in A : ended[c] # Trapped
  BY DEF Answers, EndedIn
<1>2. \A c \in A : ended'[c] = ended[c]
  BY <1>1
<1>3. RowsOf(A)' = RowsOf(A)
  <2>1. \A c \in A : RowBucket(c)' = RowBucket(c)
    BY <1>2 DEF RowBucket, BucketOf
  <2> QED
    BY <2>1 DEF RowsOf
<1>4. (A \subseteq EndedIn(queriedAt + 1))'
  BY <1>2 DEF Answers, EndedIn, SnapUp
<1>5. ASSUME NEW c \in EndedIn(queriedAt - Lag)' PROVE c \in EndedIn(queriedAt - Lag)
  <2>1. now \in Nat /\ queriedAt \in Nat /\ Lag \in Nat
    BY MomentsAreNumbers
  <2>2. ended'[c] < queriedAt - Lag /\ c \in Conns
    BY <1>5 DEF EndedIn
  <2>3. ended'[c] # now
    BY <2>1, <2>2
  <2>4. ended'[c] = ended[c]
    BY <2>2, <2>3
  <2> QED
    BY <1>5, <2>4 DEF EndedIn, SnapUp
<1>6. InTime' = InTime
  BY DEF InTime
<1> QED
  BY <1>3, <1>4, <1>5, <1>6 DEF Answers

\* A chart stays what it is until the next request.
LEMMA ChartStays ==
    ASSUME UNCHANGED <<from, to, width, rows, points>>, NEW start, NEW end,
           Charts(start, end)
    PROVE  Charts(start, end)'
BY DEF Charts, Aggregate, Grid, SnapUp, Connects

\* What the dashboard shows: a range of its own for an open-ended answer.
LEMMA ShowCharts == ASSUME AnswerInv, Show PROVE \E start, end \in Int : Charts(start, end)'
<1>1. /\ phase = "answered" /\ points' = Aggregate(FirstShown, LastShown)
      /\ UNCHANGED <<now, from, to, width, rows>>
  BY DEF Show
<1>2. StatsTypeOK
  BY DEF AnswerInv, StatsInv
<1>3. PICK A \in SUBSET Conns : Answers(A)
  BY <1>1 DEF AnswerInv, Answered
<1>4. ASSUME NEW r \in rows PROVE r.bucket \in Int
  <2>1. PICK c \in A : r.bucket = RowBucket(c)
    <3> DEFINE n(c) == Cardinality({d \in A : /\ RowBucket(d) = RowBucket(c)
                                             /\ CountryOf[d] = CountryOf[c]})
    <3>1. rows = {[bucket |-> RowBucket(c), country |-> CountryOf[c],
                   connects |-> n(c)] : c \in A}
      BY <1>3 DEF Answers, RowsOf
    <3> HIDE DEF n
    <3> QED
      BY <1>4, <3>1
  <2>2. c \in Conns /\ ended[c] # Trapped
    BY <1>3 DEF Answers, EndedIn
  <2> QED
    BY <1>2, <2>1, <2>2, MomentsAreNumbers, RowBucketIs
<1>5. FirstShown \in Int
  <2>1. CASE from = OpenEnd /\ rows # {}
    <3> DEFINE k == [r \in rows |-> r.bucket]
    <3>1. IsFiniteSet(rows)
      BY <1>3, RowsCountEach DEF Answers
    <3>2. {r.bucket : r \in rows} = {k[r] : r \in rows}
      OBVIOUS
    <3> HIDE DEF k
    <3>3. IsFiniteSet({r.bucket : r \in rows})
      BY <3>1, <3>2, ImageIsFinite
    <3>4. {r.bucket : r \in rows} \in SUBSET Int /\ {r.bucket : r \in rows} # {}
      BY <1>4, <2>1
    <3>5. Min({r.bucket : r \in rows}) \in Int
      BY <3>3, <3>4, FirstMoment
    <3> QED
      BY <2>1, <3>5 DEF FirstShown
  <2>2. CASE ~(from = OpenEnd /\ rows # {})
    BY <1>2, <2>2, MomentsAreNumbers DEF FirstShown
  <2> QED
    BY <2>1, <2>2
<1>6. LastShown \in Int
  BY <1>2, MomentsAreNumbers DEF LastShown, StatsTypeOK
<1>7. PICK start, end \in Int : start = FirstShown /\ end = LastShown
  BY <1>5, <1>6
<1>8. from # OpenEnd => start = from /\ end = to
  BY <1>2, <1>7 DEF FirstShown, LastShown, StatsTypeOK
<1>9. Aggregate(start, end)' = Aggregate(start, end)
  BY <1>1 DEF Aggregate, Grid, SnapUp
<1> QED
  BY <1>1, <1>7, <1>8, <1>9 DEF Charts

\* Nothing is answered or shown at the start.
LEMMA AnswerInvInit == StatsInit => AnswerInv
<1> SUFFICES ASSUME StatsInit PROVE AnswerInv
  OBVIOUS
<1>1. StatsInv
  BY StatsInvInit
<1>2. TableFits /\ Answered /\ Charted /\ queriedAt <= now
  BY DEF StatsInit, TableFits, Answered, Charted
<1> QED
  BY <1>1, <1>2 DEF AnswerInv

\* While the request rests, its answer and its chart stay.
LEMMA AtRest ==
    ASSUME AnswerInv, UNCHANGED requestVars, queriedAt <= now',
           \A c \in Conns : ended'[c] = ended[c] \/ (ended[c] = Trapped /\ ended'[c] = now)
    PROVE  TableFits' /\ (queriedAt <= now)' /\ Answered' /\ Charted'
<1>1. UNCHANGED <<phase, from, to, table, width, chosenAt, queriedAt, rows, points>>
  BY DEF requestVars
<1>2. StatsTypeOK /\ queriedAt <= now
  BY DEF AnswerInv, StatsInv
<1>3. Answered'
  <2> SUFFICES ASSUME phase \in {"answered", "shown"}
               PROVE  \E A \in SUBSET Conns : Answers(A)'
    BY <1>1 DEF Answered
  <2>1. PICK A \in SUBSET Conns : Answers(A)
    BY DEF AnswerInv, Answered
  <2>2. Answers(A)'
    BY <1>1, <1>2, <2>1, AnswersStay
  <2> QED
    BY <2>2
<1>4. Charted'
  <2> SUFFICES ASSUME phase = "shown" PROVE \E start, end \in Int : Charts(start, end)'
    BY <1>1 DEF Charted
  <2>1. PICK start, end \in Int : Charts(start, end)
    BY DEF AnswerInv, Charted
  <2>2. Charts(start, end)'
    BY <1>1, <2>1, ChartStays
  <2> QED
    BY <2>2
<1> QED
  BY <1>1, <1>3, <1>4 DEF AnswerInv, TableFits

\* Every step keeps the invariant.
LEMMA AnswerInvStep == AnswerInv /\ [StatsNext]_statsVars => AnswerInv'
<1> SUFFICES ASSUME AnswerInv, [StatsNext]_statsVars PROVE AnswerInv'
  OBVIOUS
<1>1. StatsInv'
  BY StatsInvStep DEF AnswerInv
<1>2. StatsTypeOK /\ StatsInv
  BY DEF AnswerInv, StatsInv
<1>3. now \in Nat /\ OpenEnd \notin Int
  BY <1>2, MomentsAreNumbers, StatisticsConstants
<1> SUFFICES TableFits' /\ (queriedAt <= now)' /\ Answered' /\ Charted'
  BY <1>1 DEF AnswerInv
<1>4. ASSUME NEW f \in Given, NEW t \in Given, Ask(f, t)
      PROVE  TableFits' /\ (queriedAt <= now)' /\ Answered' /\ Charted'
  <2>1. /\ table' = Last /\ width' = Tiers[Last].width /\ queriedAt' = 0 /\ now' = now
        /\ phase' \in {"parsed", "refused"}
    BY <1>4 DEF Ask
  <2> QED
    BY <1>3, <2>1 DEF TableFits, Answered, Charted
<1>5. CASE ChooseTier
  <2>1. /\ from # OpenEnd /\ width' = Tiers[table'].width /\ phase' = "chosen"
        /\ UNCHANGED <<now, from, queriedAt>>
    BY <1>5 DEF ChooseTier
  <2> QED
    BY <2>1 DEF AnswerInv, TableFits, Answered, Charted
<1>6. CASE ChooseAll
  <2>1. /\ from = OpenEnd /\ table' = Last /\ phase' = "chosen"
        /\ UNCHANGED <<now, from, queriedAt>>
    BY <1>6 DEF ChooseAll
  <2> QED
    BY <2>1 DEF AnswerInv, TableFits, Answered, Charted
<1>7. CASE Query
  <2>1. \E A \in SUBSET Conns : Answers(A)'
    BY <1>7, QueryAnswers
  <2>2. /\ phase' = "answered" /\ queriedAt' = now /\ UNCHANGED <<now, from, table, width>>
    BY <1>7 DEF Query
  <2> QED
    BY <1>3, <2>1, <2>2 DEF AnswerInv, TableFits, Answered, Charted
<1>8. CASE QueryFails
  <2>1. phase' = "failed" /\ UNCHANGED <<now, from, table, width, queriedAt>>
    BY <1>8 DEF QueryFails
  <2> QED
    BY <2>1 DEF AnswerInv, TableFits, Answered, Charted
<1>9. CASE Show
  <2>1. \E start, end \in Int : Charts(start, end)'
    BY <1>9, ShowCharts
  <2>2. /\ phase = "answered" /\ phase' = "shown"
        /\ UNCHANGED <<now, ended, from, to, table, width, chosenAt, queriedAt, rows>>
    BY <1>9 DEF Show
  <2>3. PICK A \in SUBSET Conns : Answers(A)
    BY <2>2 DEF AnswerInv, Answered
  <2>4. Answers(A)'
    BY <1>2, <2>2, <2>3, AnswersStay DEF AnswerInv
  <2> QED
    BY <2>1, <2>2, <2>4 DEF AnswerInv, TableFits, Answered, Charted
<1>10. ASSUME NEW c \in Conns, ConnectionEnds(c)
       PROVE  TableFits' /\ (queriedAt <= now)' /\ Answered' /\ Charted'
  <2>1. UNCHANGED requestVars /\ now' = now
    BY <1>10 DEF ConnectionEnds
  <2>2. ended[c] = Trapped /\ ended' = [ended EXCEPT ![c] = now]
    BY <1>10 DEF ConnectionEnds
  <2>3. \A d \in Conns : ended'[d] = ended[d] \/ (ended[d] = Trapped /\ ended'[d] = now)
    BY <1>2, <2>2 DEF StatsTypeOK
  <2> QED
    BY <2>1, <2>3, AtRest DEF AnswerInv
<1>11. CASE Tick
  <2>1. UNCHANGED <<ended, requestVars>> /\ now' = now + 1
    BY <1>11 DEF Tick
  <2>2. queriedAt <= now'
    BY <1>2, <2>1, MomentsAreNumbers DEF AnswerInv
  <2> QED
    BY <2>1, <2>2, AtRest
<1>12. CASE UNCHANGED statsVars
  <2>1. UNCHANGED <<ended, requestVars>> /\ now' = now
    BY <1>12 DEF statsVars
  <2> QED
    BY <2>1, AtRest DEF AnswerInv
<1> QED
  BY <1>4, <1>5, <1>6, <1>7, <1>8, <1>9, <1>10, <1>11, <1>12 DEF StatsNext

-----------------------------------------------------------------------------
(* The chart *)

\* The buckets of a range are the moments of the grid in it.
LEMMA GridIsRange ==
    ASSUME StatsTypeOK, NEW start \in Int, NEW end \in Int
    PROVE  /\ Grid(start, end) = {t \in start..(end - 1) : Begins(t, width)}
           /\ IsFiniteSet(Grid(start, end))
<1> DEFINE s == SnapUp(start, width)
<1>1. width \in Nat /\ width > 0
  BY WidthsArePositive
<1>2. /\ s \in Int /\ Begins(s, width) /\ start <= s
      /\ \A b \in Int : Begins(b, width) => (s <= b <=> start <= b)
  BY <1>1, SnapUpIsFirst
<1>3. Grid(start, end) = {t \in s..(end - 1) : (t - s) % width = 0}
  BY DEF Grid
<1> HIDE DEF s
<1>4. \A t \in Int : Begins(t, width) <=> (t - s) % width = 0
  BY <1>1, <1>2, GridDistance
<1>5. Grid(start, end) = {t \in start..(end - 1) : Begins(t, width)}
  BY <1>2, <1>3, <1>4
<1>6. IsFiniteSet(start..(end - 1)) /\ Grid(start, end) \in SUBSET (start..(end - 1))
  BY <1>5, FS_Interval
<1>7. IsFiniteSet(Grid(start, end))
  BY <1>6, FS_Subset
<1> QED
  BY <1>5, <1>7

\* The buckets of an answer's rows are moments of the grid, within the range asked for.
LEMMA BucketsOfRows ==
    ASSUME StatsTypeOK, TableFits, NEW A \in SUBSET Conns, Answers(A), NEW r \in rows
    PROVE  /\ r.bucket \in Int /\ Begins(r.bucket, width)
           /\ from # OpenEnd => r.bucket \in from..(to - 1)
<1>1. PICK c \in A : r.bucket = RowBucket(c)
  <2> DEFINE n(c) == Cardinality({d \in A : /\ RowBucket(d) = RowBucket(c)
                                           /\ CountryOf[d] = CountryOf[c]})
  <2>1. rows = {[bucket |-> RowBucket(c), country |-> CountryOf[c],
                 connects |-> n(c)] : c \in A}
    BY DEF Answers, RowsOf
  <2> HIDE DEF n
  <2> QED
    BY <2>1
<1>2. c \in EndedIn(queriedAt + 1) /\ c \in Conns /\ ended[c] # Trapped
  BY DEF Answers, EndedIn
<1>3. ended[c] \in Int
  BY <1>2, MomentsAreNumbers
<1>4. r.bucket \in Int /\ Begins(r.bucket, width)
  BY <1>1, <1>3, RowBucketIs
<1>5. Asked(c)
  BY <1>2, AskedIsInRange DEF EndedIn
<1>6. ASSUME from # OpenEnd PROVE r.bucket \in from..(to - 1)
  <2>1. from <= r.bucket /\ r.bucket < to
    BY <1>1, <1>5, <1>6 DEF Asked
  <2>2. from \in Int /\ to \in Int
    BY <1>6, MomentsAreNumbers
  <2> QED
    BY <1>4, <2>1, <2>2
<1> QED
  BY <1>4, <1>6

\* The points of a chart: where they are, and what they add up to.
LEMMA ChartOfRows ==
    ASSUME StatsTypeOK, TableFits, NEW A \in SUBSET Conns, Answers(A),
           NEW start \in Int, NEW end \in Int, Charts(start, end)
    PROVE  /\ DOMAIN points = {r.bucket : r \in rows} \cup Grid(start, end)
           /\ \A b \in DOMAIN points : b \in Int /\ Begins(b, width)
           /\ SumFunction(points) = Cardinality(A)
           /\ SumFunction(CountryTotals) = Cardinality(A)
<1> DEFINE buckets == {r.bucket : r \in rows}
           countries == {r.country : r \in rows}
           D == buckets \cup Grid(start, end)
           k == [r \in rows |-> r.bucket]
           m == [r \in rows |-> r.country]
<1>1. points = [b \in D |-> Connects({r \in rows : r.bucket = b})]
  BY DEF Charts, Aggregate
<1>2. DOMAIN points = D
  BY <1>1
<1>3. \A b \in D : b \in Int /\ Begins(b, width)
  <2>1. \A r \in rows : r.bucket \in Int /\ Begins(r.bucket, width)
    BY BucketsOfRows
  <2>2. \A b \in Grid(start, end) : b \in Int /\ Begins(b, width)
    BY GridIsRange
  <2> QED
    BY <2>1, <2>2
<1>4. /\ IsFiniteSet(rows) /\ \A r \in rows : r.connects \in Nat
      /\ Connects(rows) = Cardinality(A)
  BY RowsCountEach DEF Answers
<1>5. IsFiniteSet(buckets) /\ IsFiniteSet(countries)
  <2>1. buckets = {k[r] : r \in rows} /\ countries = {m[r] : r \in rows}
    OBVIOUS
  <2> HIDE DEF k, m, buckets, countries
  <2> QED
    BY <1>4, <2>1, ImageIsFinite
<1>6. IsFiniteSet(D)
  <2> HIDE DEF buckets
  <2> QED
    BY <1>5, GridIsRange, FS_Union
<1>7. SumFunction(points) = Connects(rows)
  <2>1. \A r \in rows : k[r] \in D /\ k[r] = r.bucket
    OBVIOUS
  <2>2. points = [b \in D |-> Connects({r \in rows : k[r] = b})]
    <3>1. \A b : {r \in rows : k[r] = b} = {r \in rows : r.bucket = b}
      BY <2>1
    <3> HIDE DEF k, D
    <3> QED
      BY <1>1, <3>1
  <2> HIDE DEF k, D
  <2> QED
    BY <1>4, <1>6, <2>1, <2>2, ConnectsByParts
<1>8. SumFunction(CountryTotals) = Connects(rows)
  <2>1. \A r \in rows : m[r] \in countries /\ m[r] = r.country
    OBVIOUS
  <2>2. CountryTotals = [t \in countries |-> Connects({r \in rows : m[r] = t})]
    <3>1. \A t : {r \in rows : m[r] = t} = {r \in rows : r.country = t}
      BY <2>1
    <3>2. CountryTotals = [t \in countries |-> Connects({r \in rows : r.country = t})]
      BY DEF CountryTotals
    <3> HIDE DEF m, countries
    <3> QED
      BY <3>1, <3>2
  <2> HIDE DEF m, countries
  <2> QED
    BY <1>4, <1>5, <2>1, <2>2, ConnectsByParts
<1> HIDE DEF k, m
<1> QED
  BY <1>2, <1>3, <1>4, <1>7, <1>8

\* An answer that is in time has every connection that ended in a bucket of the range and
\* that the table has caught up with, none that ended after the query, and the chart and
\* the list of countries each count every one of them once: whatever retention removes
\* between the choice and the query, for every table, width and origin of the grid
\* (db.rs:301-304; stats-buckets.ts:29, 58).
THEOREM EveryConnectionIsCounted == StatsSpec => []AnswerIsComplete
<1>1. AnswerInv => AnswerIsComplete
  <2> SUFFICES ASSUME AnswerInv, phase = "shown"
               PROVE  /\ InTime => Cardinality(EndedIn(queriedAt - Lag)) <= SumFunction(points)
                      /\ SumFunction(points) <= Cardinality(EndedIn(queriedAt + 1))
                      /\ SumFunction(CountryTotals) = SumFunction(points)
    BY DEF AnswerIsComplete
  <2>1. PICK A \in SUBSET Conns : Answers(A)
    BY DEF AnswerInv, Answered
  <2>2. PICK start, end \in Int : Charts(start, end)
    BY DEF AnswerInv, Charted
  <2>3. StatsTypeOK /\ TableFits
    BY DEF AnswerInv, StatsInv
  <2>4. SumFunction(points) = Cardinality(A) /\ SumFunction(CountryTotals) = Cardinality(A)
    BY <2>1, <2>2, <2>3, ChartOfRows
  <2>5. \A until : IsFiniteSet(EndedIn(until))
    <3> TAKE until
    <3>1. EndedIn(until) \in SUBSET Conns
      BY DEF EndedIn
    <3> QED
      BY <3>1, StatisticsConstants, FS_Subset
  <2>6. Cardinality(A) <= Cardinality(EndedIn(queriedAt + 1))
    BY <2>1, <2>5, FS_Subset DEF Answers
  <2>7. IsFiniteSet(A)
    BY StatisticsConstants, FS_Subset
  <2>8. InTime => Cardinality(EndedIn(queriedAt - Lag)) <= Cardinality(A)
    BY <2>1, <2>7, FS_Subset DEF Answers
  <2> QED
    BY <2>4, <2>6, <2>8
<1> QED
  BY <1>1, AnswerInvInit, AnswerInvStep, PTL DEF StatsSpec

\* A chart of a range has a point for each moment of the grid in the range, empty or not,
\* and for no other; every chart has its points a multiple of the width apart
\* (stats-buckets.ts:16-17, 92).
THEOREM ChartHasTheGrid == StatsSpec => []PointsAreTheGrid
<1>1. AnswerInv => PointsAreTheGrid
  <2> SUFFICES ASSUME AnswerInv, phase = "shown"
               PROVE  /\ from # OpenEnd =>
                            DOMAIN points = {t \in from..(to - 1) : (t - Origin) % width = 0}
                      /\ \A a, b \in DOMAIN points : (a - b) % width = 0
    BY DEF PointsAreTheGrid
  <2>1. PICK A \in SUBSET Conns : Answers(A)
    BY DEF AnswerInv, Answered
  <2>2. PICK start, end \in Int : Charts(start, end)
    BY DEF AnswerInv, Charted
  <2>3. StatsTypeOK /\ TableFits
    BY DEF AnswerInv, StatsInv
  <2>4. /\ DOMAIN points = {r.bucket : r \in rows} \cup Grid(start, end)
        /\ \A b \in DOMAIN points : b \in Int /\ Begins(b, width)
    BY <2>1, <2>2, <2>3, ChartOfRows
  <2>5. width \in Nat /\ width > 0
    BY <2>3, WidthsArePositive
  <2>6. \A a, b \in DOMAIN points : (a - b) % width = 0
    BY <2>4, <2>5, GridDistance
  <2>7. ASSUME from # OpenEnd
        PROVE  DOMAIN points = {t \in from..(to - 1) : (t - Origin) % width = 0}
    <3>1. start = from /\ end = to
      BY <2>2, <2>7 DEF Charts
    <3>2. Grid(start, end) = {t \in from..(to - 1) : (t - Origin) % width = 0}
      BY <2>3, <3>1, GridIsRange DEF Begins
    <3>3. \A r \in rows : r.bucket \in {t \in from..(to - 1) : (t - Origin) % width = 0}
      BY <2>1, <2>3, <2>7, BucketsOfRows DEF Begins
    <3> QED
      BY <2>4, <3>2, <3>3
  <2> QED
    BY <2>6, <2>7
<1> QED
  BY <1>1, AnswerInvInit, AnswerInvStep, PTL DEF StatsSpec
=============================================================================
