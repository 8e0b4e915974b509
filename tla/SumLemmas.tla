------------------------------ MODULE SumLemmas ------------------------------
(***************************************************************************)
(* What SumFunctionOnSet of the community modules adds up to, for every    *)
(* finite set: it does not depend on the order, and may be taken by parts. *)
(* The induction is over the subsets of a finite set, which are well       *)
(* ordered by inclusion; it is stated with a set of subsets in the place   *)
(* of a predicate.                                                         *)
(***************************************************************************)
EXTENDS Integers, FiniteSets, Functions, FiniteSetTheorems, TLAPS

\* Induction: a family that has a set whenever it has all its proper subsets has them all.
LEMMA SubsetInduction ==
    ASSUME NEW S, IsFiniteSet(S), NEW Good,
           \A A \in SUBSET S : (\A B \in SUBSET A : B # A => B \in Good) => A \in Good
    PROVE  \A A \in SUBSET S : A \in Good
<1> DEFINE Bad == (SUBSET S) \ Good
<1> SUFFICES ASSUME Bad # {} PROVE FALSE
  OBVIOUS
<1>1. IsWellFoundedOn(StrictSubsetOrdering(S), FiniteSubsetsOf(S))
  BY FS_StrictSubsetOrderingWellFounded
<1>2. Bad \subseteq FiniteSubsetsOf(S)
  BY FS_FiniteSubsetsOfFinite
<1> HIDE DEF Bad
<1>3. PICK A \in Bad : \A B \in Bad : <<B, A>> \notin StrictSubsetOrdering(S)
  BY <1>1, <1>2, WFMin
<1> USE DEF Bad
<1>4. ASSUME NEW B \in SUBSET A, B # A PROVE B \in Good
  <2>1. <<B, A>> \in StrictSubsetOrdering(S)
    BY <1>4 DEF StrictSubsetOrdering
  <2> QED
    BY <1>3, <2>1
<1> QED
  BY <1>4

-----------------------------------------------------------------------------
(* The recursion is well defined *)

\* The element that SumFunctionOnSet takes first.
First(A) == CHOOSE x \in A : TRUE

\* What one step of the recursion makes of the sums of smaller sets.
Unfolded(f, g, A) == IF A = {} THEN 0 ELSE f[First(A)] + g[A \ {First(A)}]

Sums(f, g, S) == g = [A \in SUBSET S |-> Unfolded(f, g, A)]

\* There is at most one function of partial sums.
LEMMA SumsAreUnique ==
    ASSUME NEW f, NEW S, IsFiniteSet(S), NEW g, NEW h, Sums(f, g, S), Sums(f, h, S)
    PROVE  g = h
<1> DEFINE Good == {A \in SUBSET S : g[A] = h[A]}
<1>1. ASSUME NEW A \in SUBSET S, \A B \in SUBSET A : B # A => B \in Good
      PROVE  A \in Good
  <2>1. g[A] = Unfolded(f, g, A) /\ h[A] = Unfolded(f, h, A)
    BY DEF Sums
  <2>2. CASE A = {}
    BY <2>1, <2>2 DEF Unfolded
  <2>3. CASE A # {}
    <3>1. First(A) \in A
      BY <2>3 DEF First
    <3>2. A \ {First(A)} \in SUBSET A /\ A \ {First(A)} # A
      BY <3>1
    <3>3. g[A \ {First(A)}] = h[A \ {First(A)}]
      BY <1>1, <3>2
    <3> QED
      BY <2>1, <2>3, <3>3 DEF Unfolded
  <2> QED
    BY <2>2, <2>3
<1> HIDE DEF Good
<1>2. \A A \in SUBSET S : A \in Good
  BY <1>1, SubsetInduction
<1> QED
  BY <1>2 DEF Good, Sums

\* A sum is the one that such a function gives.
LEMMA SumIsOfSums ==
    ASSUME NEW f, NEW S, IsFiniteSet(S), NEW g, Sums(f, g, S)
    PROVE  SumFunctionOnSet(f, S) = g[S]
<1> DEFINE h == CHOOSE k : Sums(f, k, S)
<1>1. SumFunctionOnSet(f, S) = h[S]
  BY DEF SumFunctionOnSet, FoldFunctionOnSet, MapThenFoldSet, Sums, Unfolded, First
<1>2. Sums(f, h, S)
  OBVIOUS
<1> HIDE DEF h
<1>3. h = g
  BY <1>2, SumsAreUnique
<1> QED
  BY <1>1, <1>3

\* So the recursive equation holds.
LEMMA SumUnfolds ==
    ASSUME NEW f, NEW S, IsFiniteSet(S), S # {}
    PROVE  /\ First(S) \in S
           /\ SumFunctionOnSet(f, S) =
                 f[First(S)] + SumFunctionOnSet(f, S \ {First(S)})
<1> DEFINE sum(A) == SumFunctionOnSet(f, A)
           unfolded(A) == IF A = {} THEN 0 ELSE f[First(A)] + sum(A \ {First(A)})
           Good == {A \in SUBSET S : sum(A) = unfolded(A)}
<1> HIDE DEF sum
<1>1. ASSUME NEW A \in SUBSET S, \A B \in SUBSET A : B # A => B \in Good
      PROVE  A \in Good
  <2> DEFINE g == [B \in SUBSET A |-> unfolded(B)]
  <2>1. \A B \in SUBSET A : B # A => g[B] = sum(B)
    BY <1>1
  <2>2. ASSUME NEW B \in SUBSET A PROVE g[B] = Unfolded(f, g, B)
    <3>1. CASE B = {}
      BY <3>1 DEF Unfolded
    <3>2. CASE B # {}
      <4>1. First(B) \in B
        BY <3>2 DEF First
      <4>2. B \ {First(B)} \in SUBSET A /\ B \ {First(B)} # A
        BY <4>1
      <4>3. g[B \ {First(B)}] = sum(B \ {First(B)})
        BY <2>1, <4>2
      <4>4. g[B] = f[First(B)] + sum(B \ {First(B)})
        BY <3>2
      <4> QED
        BY <3>2, <4>3, <4>4 DEF Unfolded
    <3> QED
      BY <3>1, <3>2
  <2>3. g = [B \in SUBSET A |-> g[B]]
    OBVIOUS
  <2>4. g[A] = unfolded(A)
    OBVIOUS
  <2> HIDE DEF g
  <2>5. Sums(f, g, A)
    BY <2>2, <2>3 DEF Sums
  <2>6. IsFiniteSet(A)
    BY FS_Subset
  <2>7. sum(A) = g[A]
    BY <2>5, <2>6, SumIsOfSums DEF sum
  <2> QED
    BY <2>4, <2>7
<1> HIDE DEF Good
<1>2. \A A \in SUBSET S : A \in Good
  BY <1>1, SubsetInduction
<1>3. sum(S) = unfolded(S) /\ First(S) \in S
  BY <1>2 DEF Good, First
<1> QED
  BY <1>3 DEF sum

-----------------------------------------------------------------------------
(* Sums of natural numbers *)

\* Nothing adds up to zero.
LEMMA SumOfNothing == ASSUME NEW f PROVE SumFunctionOnSet(f, {}) = 0
<1> DEFINE g == [A \in SUBSET {} |-> 0]
<1>1. Sums(f, g, {})
  BY DEF Sums, Unfolded
<1>2. g[{}] = 0
  OBVIOUS
<1> HIDE DEF g
<1> QED
  BY <1>1, <1>2, SumIsOfSums, FS_EmptySet

\* Whichever element is taken first: the rest adds up to what is missing.
LEMMA SumWithout ==
    ASSUME NEW f, NEW S, IsFiniteSet(S), \A x \in S : f[x] \in Nat
    PROVE  /\ SumFunctionOnSet(f, S) \in Nat
           /\ \A x \in S : SumFunctionOnSet(f, S) = f[x] + SumFunctionOnSet(f, S \ {x})
<1> DEFINE sum(A) == SumFunctionOnSet(f, A)
           Good == {A \in SUBSET S :
                      sum(A) \in Nat /\ \A x \in A : sum(A) = f[x] + sum(A \ {x})}
<1> HIDE DEF sum
<1>1. ASSUME NEW A \in SUBSET S, \A B \in SUBSET A : B # A => B \in Good
      PROVE  A \in Good
  <2>1. CASE A = {}
    BY <2>1, SumOfNothing DEF sum
  <2>2. CASE A # {}
    <3> DEFINE y == First(A)
    <3>1. IsFiniteSet(A)
      BY FS_Subset
    <3>2. y \in A /\ sum(A) = f[y] + sum(A \ {y})
      BY <2>2, <3>1, SumUnfolds DEF sum
    <3> HIDE DEF y
    <3>3. \A z \in A : A \ {z} \in Good
      BY <1>1
    <3>4. sum(A) \in Nat
      BY <3>2, <3>3
    <3>5. ASSUME NEW x \in A PROVE sum(A) = f[x] + sum(A \ {x})
      <4>1. CASE x = y
        BY <3>2, <4>1
      <4>2. CASE x # y
        <5> DEFINE rest == (A \ {x}) \ {y}
        <5>1. rest = (A \ {y}) \ {x}
          OBVIOUS
        <5>2. sum(A \ {y}) = f[x] + sum(rest)
          BY <3>2, <3>3, <4>2, <5>1
        <5>3. sum(A \ {x}) = f[y] + sum(rest)
          BY <3>2, <3>3, <4>2
        <5>4. sum(rest) \in Nat /\ f[x] \in Nat /\ f[y] \in Nat
          <6>1. rest \in SUBSET A /\ rest # A
            BY <3>2
          <6> QED
            BY <1>1, <3>2, <6>1
        <5> HIDE DEF rest
        <5> QED
          BY <3>2, <5>2, <5>3, <5>4
      <4> QED
        BY <4>1, <4>2
    <3> QED
      BY <3>4, <3>5
  <2> QED
    BY <2>1, <2>2
<1> HIDE DEF Good
<1>2. \A A \in SUBSET S : A \in Good
  BY <1>1, SubsetInduction
<1> QED
  BY <1>2 DEF Good, sum

\* One more element adds its value.
LEMMA SumWith ==
    ASSUME NEW f, NEW S, IsFiniteSet(S), NEW x, x \notin S,
           \A y \in S \cup {x} : f[y] \in Nat
    PROVE  SumFunctionOnSet(f, S \cup {x}) = f[x] + SumFunctionOnSet(f, S)
<1>1. IsFiniteSet(S \cup {x}) /\ (S \cup {x}) \ {x} = S
  BY FS_AddElement
<1> QED
  BY <1>1, SumWithout

\* Only the values on the set matter.
LEMMA SumOfEqual ==
    ASSUME NEW f, NEW g, NEW S, IsFiniteSet(S),
           \A x \in S : f[x] \in Nat /\ g[x] = f[x]
    PROVE  SumFunctionOnSet(f, S) = SumFunctionOnSet(g, S)
<1> DEFINE Good == {A \in SUBSET S : SumFunctionOnSet(f, A) = SumFunctionOnSet(g, A)}
<1>1. ASSUME NEW A \in SUBSET S, \A B \in SUBSET A : B # A => B \in Good
      PROVE  A \in Good
  <2>1. CASE A = {}
    BY <2>1, SumOfNothing
  <2>2. CASE A # {}
    <3>1. PICK x \in A : TRUE
      BY <2>2
    <3>2. IsFiniteSet(A)
      BY FS_Subset
    <3>3. SumFunctionOnSet(f, A) = f[x] + SumFunctionOnSet(f, A \ {x})
      BY <3>1, <3>2, SumWithout
    <3>4. SumFunctionOnSet(g, A) = g[x] + SumFunctionOnSet(g, A \ {x})
      BY <3>1, <3>2, SumWithout
    <3>5. A \ {x} \in Good
      BY <1>1, <3>1
    <3> QED
      BY <3>3, <3>4, <3>5
  <2> QED
    BY <2>1, <2>2
<1> HIDE DEF Good
<1>2. S \in Good
  BY <1>1, SubsetInduction
<1> QED
  BY <1>2 DEF Good

\* The sum of a function that is given a value at one more point.
LEMMA SumOfLarger ==
    ASSUME NEW S, IsFiniteSet(S), NEW x, x \notin S, NEW f \in [S -> Nat],
           NEW g \in [S \cup {x} -> Nat], \A y \in S : g[y] = f[y]
    PROVE  SumFunction(g) = SumFunction(f) + g[x]
<1>1. SumFunction(g) = SumFunctionOnSet(g, S \cup {x}) /\ SumFunction(f) = SumFunctionOnSet(f, S)
  BY DEF SumFunction
<1>2. SumFunctionOnSet(g, S \cup {x}) = g[x] + SumFunctionOnSet(g, S)
  BY SumWith
<1>3. SumFunctionOnSet(f, S) = SumFunctionOnSet(g, S) /\ SumFunctionOnSet(f, S) \in Nat
  BY SumOfEqual, SumWithout
<1> QED
  BY <1>1, <1>2, <1>3

\* A sum that changes in one place changes by as much.
LEMMA SumChangedAt ==
    ASSUME NEW f, NEW g, NEW S, IsFiniteSet(S), NEW x \in S, NEW d \in Nat,
           \A y \in S : f[y] \in Nat /\ g[y] = IF y = x THEN f[y] + d ELSE f[y]
    PROVE  SumFunctionOnSet(g, S) = SumFunctionOnSet(f, S) + d
<1>1. IsFiniteSet(S \ {x})
  BY FS_RemoveElement
<1>2. SumFunctionOnSet(f, S \ {x}) = SumFunctionOnSet(g, S \ {x})
  BY <1>1, SumOfEqual
<1>3. SumFunctionOnSet(f, S) = f[x] + SumFunctionOnSet(f, S \ {x})
  BY SumWithout
<1>4. SumFunctionOnSet(g, S) = g[x] + SumFunctionOnSet(g, S \ {x})
  BY SumWithout
<1>5. SumFunctionOnSet(f, S \ {x}) \in Nat
  BY <1>1, SumWithout
<1> QED
  BY <1>2, <1>3, <1>4, <1>5

\* What is sorted into parts adds up part by part: each x of S into the part k[x] of T.
Part(S, k, t) == {x \in S : k[x] = t}
PartSums(f, S, k, T) == [t \in T |-> SumFunctionOnSet(f, Part(S, k, t))]

LEMMA SumByParts ==
    ASSUME NEW f, NEW S, IsFiniteSet(S), \A x \in S : f[x] \in Nat,
           NEW T, IsFiniteSet(T), NEW k, \A x \in S : k[x] \in T
    PROVE  SumFunctionOnSet(PartSums(f, S, k, T), T) = SumFunctionOnSet(f, S)
<1> DEFINE whole(A) == SumFunctionOnSet(PartSums(f, A, k, T), T)
           Good == {A \in SUBSET S : whole(A) = SumFunctionOnSet(f, A)}
<1>0. ASSUME NEW A \in SUBSET S, NEW t \in T
      PROVE  IsFiniteSet(Part(A, k, t)) /\ PartSums(f, A, k, T)[t] \in Nat
  <2>1. Part(A, k, t) \in SUBSET S
    BY DEF Part
  <2>2. IsFiniteSet(Part(A, k, t))
    BY <2>1, FS_Subset
  <2>3. SumFunctionOnSet(f, Part(A, k, t)) \in Nat
    BY <2>1, <2>2, SumWithout
  <2> QED
    BY <2>2, <2>3 DEF PartSums
<1>1. ASSUME NEW A \in SUBSET S, \A B \in SUBSET A : B # A => B \in Good
      PROVE  A \in Good
  <2>1. CASE A = {}
    <3> DEFINE z == PartSums(f, {}, k, T)
    <3>1. \A t \in T : z[t] = 0
      <4>1. \A t \in T : Part({}, k, t) = {}
        BY DEF Part
      <4> QED
        BY <4>1, SumOfNothing DEF PartSums
    <3> HIDE DEF z
    <3>2. SumFunctionOnSet(z, T) = 0
      <4> DEFINE Zero == {B \in SUBSET T : SumFunctionOnSet(z, B) = 0}
      <4>1. ASSUME NEW B \in SUBSET T, \A C \in SUBSET B : C # B => C \in Zero
            PROVE  B \in Zero
        <5>1. CASE B = {}
          BY <5>1, SumOfNothing
        <5>2. CASE B # {}
          <6>1. PICK t \in B : TRUE
            BY <5>2
          <6>2. IsFiniteSet(B) /\ B \ {t} \in Zero
            BY <4>1, <6>1, FS_Subset
          <6>3. SumFunctionOnSet(z, B) = z[t] + SumFunctionOnSet(z, B \ {t})
            BY <3>1, <6>1, <6>2, SumWithout
          <6> QED
            BY <3>1, <6>1, <6>2, <6>3
        <5> QED
          BY <5>1, <5>2
      <4> HIDE DEF Zero
      <4>2. T \in Zero
        BY <4>1, SubsetInduction
      <4> QED
        BY <4>2 DEF Zero
    <3> QED
      BY <2>1, <3>2, SumOfNothing DEF z
  <2>2. CASE A # {}
    <3>1. PICK x \in A : TRUE
      BY <2>2
    <3> DEFINE B == A \ {x}
               g == PartSums(f, A, k, T)
               h == PartSums(f, B, k, T)
    <3>2. B \in SUBSET S /\ B \in Good /\ x \notin B /\ A = B \cup {x} /\ f[x] \in Nat
      BY <1>1, <3>1
    <3>3. ASSUME NEW t \in T
          PROVE  h[t] \in Nat /\ g[t] = IF t = k[x] THEN h[t] + f[x] ELSE h[t]
      <4>1. h[t] \in Nat /\ IsFiniteSet(Part(B, k, t))
        BY <1>0, <3>2
      <4>2. h[t] = SumFunctionOnSet(f, Part(B, k, t)) /\ g[t] = SumFunctionOnSet(f, Part(A, k, t))
        BY DEF PartSums
      <4>3. CASE t = k[x]
        <5>1. Part(A, k, t) = Part(B, k, t) \cup {x} /\ x \notin Part(B, k, t)
          BY <3>1, <4>3 DEF Part
        <5>2. \A y \in Part(B, k, t) \cup {x} : f[y] \in Nat
          BY <3>1, <3>2 DEF Part
        <5>3. SumFunctionOnSet(f, Part(B, k, t) \cup {x}) =
                  f[x] + SumFunctionOnSet(f, Part(B, k, t))
          BY <4>1, <5>1, <5>2, SumWith
        <5> HIDE DEF g, h
        <5> QED
          BY <3>2, <4>1, <4>2, <4>3, <5>1, <5>3
      <4>4. CASE t # k[x]
        <5>1. Part(A, k, t) = Part(B, k, t)
          BY <4>4 DEF Part
        <5> QED
          BY <4>1, <4>2, <4>4, <5>1
      <4> QED
        BY <4>3, <4>4
    <3>4. k[x] \in T
      BY <3>1
    <3> HIDE DEF g, h, B
    <3>5. SumFunctionOnSet(g, T) = SumFunctionOnSet(h, T) + f[x]
      BY <3>2, <3>3, <3>4, SumChangedAt
    <3>6. SumFunctionOnSet(h, T) = SumFunctionOnSet(f, B)
      BY <3>2 DEF h
    <3>7. IsFiniteSet(B) /\ SumFunctionOnSet(f, B) \in Nat
      <4>1. IsFiniteSet(B)
        BY <3>2, FS_Subset
      <4> QED
        BY <3>2, <4>1, SumWithout
    <3>8. SumFunctionOnSet(f, B \cup {x}) = f[x] + SumFunctionOnSet(f, B)
      BY <3>2, <3>7, SumWith
    <3>9. SumFunctionOnSet(g, T) = SumFunctionOnSet(f, A)
      BY <3>2, <3>5, <3>6, <3>7, <3>8
    <3> QED
      BY <3>9 DEF g
  <2> QED
    BY <2>1, <2>2
<1> HIDE DEF Good
<1>2. S \in Good
  BY <1>1, SubsetInduction
<1> QED
  BY <1>2 DEF Good

\* Ones add up to the number of elements.
LEMMA SumOfOnes ==
    ASSUME NEW f, NEW S, IsFiniteSet(S), \A x \in S : f[x] = 1
    PROVE  SumFunctionOnSet(f, S) = Cardinality(S)
<1> DEFINE Good == {A \in SUBSET S : SumFunctionOnSet(f, A) = Cardinality(A)}
<1>1. ASSUME NEW A \in SUBSET S, \A B \in SUBSET A : B # A => B \in Good
      PROVE  A \in Good
  <2>1. CASE A = {}
    BY <2>1, SumOfNothing, FS_EmptySet
  <2>2. CASE A # {}
    <3>1. PICK x \in A : TRUE
      BY <2>2
    <3>2. IsFiniteSet(A)
      BY FS_Subset
    <3>3. SumFunctionOnSet(f, A) = f[x] + SumFunctionOnSet(f, A \ {x})
      BY <3>1, <3>2, SumWithout
    <3>4. Cardinality(A \ {x}) = Cardinality(A) - 1 /\ Cardinality(A) \in Nat
      BY <3>1, <3>2, FS_RemoveElement, FS_CardinalityType
    <3>5. A \ {x} \in Good
      BY <1>1, <3>1
    <3> QED
      BY <3>1, <3>3, <3>4, <3>5
  <2> QED
    BY <2>1, <2>2
<1> HIDE DEF Good
<1>2. S \in Good
  BY <1>1, SubsetInduction
<1> QED
  BY <1>2 DEF Good
=============================================================================
