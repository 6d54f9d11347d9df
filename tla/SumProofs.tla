------------------------------ MODULE SumProofs ------------------------------
(***************************************************************************)
(* Sums over finite sets, as SumFunctionOnSet of the community modules     *)
(* takes them: by a fold that picks the elements in some order.  The sum   *)
(* does not depend on the order.  The induction is on the subsets of a     *)
(* finite set, which strict inclusion orders well.                         *)
(***************************************************************************)
EXTENDS Integers, FiniteSets, Functions, FiniteSetTheorems, TLAPS

\* Among some subsets of a finite set there is one that contains no other.
LEMMA SmallestSubset ==
    ASSUME NEW S, IsFiniteSet(S), NEW B, B \subseteq SUBSET S, B # {}
    PROVE  \E s \in B : \A t \in B : t \subseteq s => t = s
<1>1. \A s \in SUBSET S : IsFiniteSet(s)
  BY FS_Subset
<1>2. B \subseteq FiniteSubsetsOf(S)
  BY <1>1 DEF FiniteSubsetsOf
<1>3. IsWellFoundedOn(StrictSubsetOrdering(S), FiniteSubsetsOf(S))
  BY FS_StrictSubsetOrderingWellFounded
<1>4. PICK s \in B : \A t \in B : ~(<<t, s>> \in StrictSubsetOrdering(S))
  BY <1>2, <1>3, WFMin
<1> QED BY <1>4 DEF StrictSubsetOrdering

\* A set of subsets of a finite set that holds the empty set, and with each
\* set that set and one element more, holds the finite set.
LEMMA SubsetInduction ==
    ASSUME NEW S, IsFiniteSet(S), NEW T,
           {} \in T, \A s \in SUBSET S : \A x \in S : x \notin s /\ s \in T => s \cup {x} \in T
    PROVE  S \in T
<1> DEFINE B == (SUBSET S) \ T
<1> SUFFICES ASSUME S \notin T PROVE FALSE
  OBVIOUS
<1>1. PICK s \in B : \A t \in B : t \subseteq s => t = s
  <2>1. B \subseteq SUBSET S /\ B # {}
    OBVIOUS
  <2> HIDE DEF B
  <2> QED BY <2>1, SmallestSubset
<1>2. PICK x \in s : TRUE
  BY <1>1
<1>3. s \ {x} \in SUBSET S /\ s \ {x} # s /\ s \ {x} \subseteq s /\ (s \ {x}) \cup {x} = s
  BY <1>1, <1>2
<1>4. s \ {x} \in T
  BY <1>1, <1>3
<1> QED BY <1>1, <1>2, <1>3, <1>4

-----------------------------------------------------------------------------
(* The fold *)

\* What the fold picks, and what it makes of it.
Picked(s)      == CHOOSE x \in s : TRUE
Summing(f, g, s)  == IF s = {} THEN 0 ELSE f[Picked(s)] + g[s \ {Picked(s)}]
Folding(f, S, g) == g = [s \in SUBSET S |-> Summing(f, g, s)]

\* A sum of the subsets of S that depends on no order.
Sums(f, S, h) ==
    /\ h \in [SUBSET S -> Int] /\ h[{}] = 0
    /\ \A s \in SUBSET S : \A x \in s : h[s] = f[x] + h[s \ {x}]

LEMMA SumUnfolded ==
    ASSUME NEW f, NEW S
    PROVE  SumFunctionOnSet(f, S) = (CHOOSE g : Folding(f, S, g))[S]
BY DEF SumFunctionOnSet, FoldFunctionOnSet, MapThenFoldSet, Folding, Summing, Picked

\* There is one.
LEMMA SumsExist ==
    ASSUME NEW S, IsFiniteSet(S), NEW f, \A x \in S : f[x] \in Int
    PROVE  \E h : Sums(f, S, h)
<1> DEFINE T == {s \in SUBSET S : \E h : Sums(f, s, h)}
<1>1. {} \in T
  <2>1. PICK h : h = [s \in SUBSET {} |-> 0]
    OBVIOUS
  <2>2. Sums(f, {}, h)
    BY <2>1 DEF Sums
  <2> QED BY <2>2
<1>2. ASSUME NEW s \in SUBSET S, NEW x \in S, x \notin s, s \in T
      PROVE  s \cup {x} \in T
  <2>1. PICK h : Sums(f, s, h)
    BY <1>2
  <2>2. PICK k : k = [t \in SUBSET (s \cup {x}) |-> IF x \in t THEN f[x] + h[t \ {x}] ELSE h[t]]
    OBVIOUS
  <2>3. \A t \in SUBSET (s \cup {x}) : t \ {x} \in SUBSET s /\ (x \notin t => t \in SUBSET s)
    OBVIOUS
  <2>4. h \in [SUBSET s -> Int] /\ f[x] \in Int /\ \A y \in s : f[y] \in Int
    BY <2>1 DEF Sums
  <2>5. k \in [SUBSET (s \cup {x}) -> Int]
    BY <2>2, <2>3, <2>4
  <2>6. k[{}] = 0
    BY <2>1, <2>2 DEF Sums
  <2>7. ASSUME NEW t \in SUBSET (s \cup {x}), NEW y \in t
        PROVE  k[t] = f[y] + k[t \ {y}]
    <3>1. k[t] = (IF x \in t THEN f[x] + h[t \ {x}] ELSE h[t]) /\ t \ {y} \in SUBSET (s \cup {x})
      BY <2>2
    <3>2. k[t \ {y}] = IF x \in t \ {y} THEN f[x] + h[(t \ {y}) \ {x}] ELSE h[t \ {y}]
      BY <2>2, <3>1
    <3>3. CASE x \notin t
      BY <2>1, <2>3, <3>1, <3>2, <3>3 DEF Sums
    <3>4. CASE x \in t /\ y = x
      BY <3>1, <3>2, <3>4
    <3>5. CASE x \in t /\ y # x
      <4>1. t \ {x} \in SUBSET s /\ y \in t \ {x} /\ y \in s
        BY <3>5
      <4>2. h[t \ {x}] = f[y] + h[(t \ {x}) \ {y}]
        BY <2>1, <4>1 DEF Sums
      <4>3. (t \ {x}) \ {y} = (t \ {y}) \ {x} /\ (t \ {x}) \ {y} \in SUBSET s
        BY <4>1
      <4>4. PICK a \in Int, b \in Int, c \in Int : a = f[x] /\ b = f[y] /\ c = h[(t \ {y}) \ {x}]
        BY <2>4, <4>1, <4>3
      <4>5. k[t] = a + (b + c) /\ k[t \ {y}] = a + c
        BY <3>1, <3>2, <3>5, <4>2, <4>3, <4>4
      <4> QED BY <4>4, <4>5
    <3> QED BY <3>3, <3>4, <3>5
  <2>8. Sums(f, s \cup {x}, k)
    BY <2>5, <2>6, <2>7 DEF Sums
  <2> QED BY <2>8
<1> HIDE DEF T
<1>3. S \in T
  BY <1>1, <1>2, SubsetInduction
<1> QED BY <1>3 DEF T

\* The fold is this sum.
LEMMA FoldIsSum ==
    ASSUME NEW S, IsFiniteSet(S), NEW f, NEW h, Sums(f, S, h)
    PROVE  SumFunctionOnSet(f, S) = h[S]
<1>1. \A s \in SUBSET S : s # {} => Picked(s) \in s
  BY DEF Picked
<1>2. \A s \in SUBSET S : h[s] = Summing(f, h, s)
  BY <1>1 DEF Sums, Summing
<1>3. Folding(f, S, h)
  BY <1>2 DEF Sums, Folding
<1>4. PICK g : g = CHOOSE k : Folding(f, S, k)
  OBVIOUS
<1>5. Folding(f, S, g)
  BY <1>3, <1>4
<1>6. \A s \in SUBSET S : g[s] = Summing(f, g, s)
  BY <1>5 DEF Folding
<1> DEFINE B == {s \in SUBSET S : g[s] # h[s]}
<1>7. CASE B = {}
  BY <1>4, <1>7, SumUnfolded
<1>8. CASE B # {}
  <2>1. PICK s \in B : \A t \in B : t \subseteq s => t = s
    <3>1. B \subseteq SUBSET S
      OBVIOUS
    <3> HIDE DEF B
    <3> QED BY <1>8, <3>1, SmallestSubset
  <2>2. s # {}
    BY <1>2, <1>6, <2>1 DEF Summing
  <2>3. Picked(s) \in s /\ s \ {Picked(s)} \in SUBSET S
    BY <1>1, <2>1, <2>2
  <2>4. g[s \ {Picked(s)}] = h[s \ {Picked(s)}]
    BY <2>1, <2>3
  <2> QED BY <1>2, <1>6, <2>1, <2>4 DEF Summing
<1> QED BY <1>7, <1>8

\* The sums of all subsets at once.
LEMMA SumOfSubsets ==
    ASSUME NEW S, IsFiniteSet(S), NEW f, \A x \in S : f[x] \in Int
    PROVE  \E h : Sums(f, S, h) /\ \A s \in SUBSET S : SumFunctionOnSet(f, s) = h[s]
<1>1. PICK h : Sums(f, S, h)
  BY SumsExist
<1>2. ASSUME NEW s \in SUBSET S
      PROVE  SumFunctionOnSet(f, s) = h[s]
  <2>1. PICK k : k = [t \in SUBSET s |-> h[t]]
    OBVIOUS
  <2>2. \A t \in SUBSET s : t \in SUBSET S /\ k[t] = h[t]
    BY <2>1
  <2>3. k \in [SUBSET s -> Int]
    BY <1>1, <2>1, <2>2 DEF Sums
  <2>4. ASSUME NEW t \in SUBSET s, NEW x \in t
        PROVE  k[t] = f[x] + k[t \ {x}]
    <3>1. t \ {x} \in SUBSET s
      OBVIOUS
    <3> QED BY <1>1, <2>2, <3>1 DEF Sums
  <2>5. Sums(f, s, k)
    BY <1>1, <2>2, <2>3, <2>4 DEF Sums
  <2>6. IsFiniteSet(s)
    BY FS_Subset
  <2>7. SumFunctionOnSet(f, s) = k[s]
    BY <2>5, <2>6, FoldIsSum
  <2> QED BY <2>2, <2>7
<1> QED BY <1>1, <1>2

-----------------------------------------------------------------------------
(* What the proofs about the components cite *)

LEMMA SumEmpty == ASSUME NEW f PROVE SumFunctionOnSet(f, {}) = 0
<1>1. IsFiniteSet({})
  BY FS_EmptySet
<1>2. PICK h : Sums(f, {}, h) /\ \A s \in SUBSET {} : SumFunctionOnSet(f, s) = h[s]
  BY <1>1, SumOfSubsets
<1> QED BY <1>2 DEF Sums

\* A sum of integers is one.
LEMMA SumInt ==
    ASSUME NEW S, IsFiniteSet(S), NEW f, \A x \in S : f[x] \in Int
    PROVE  SumFunctionOnSet(f, S) \in Int
<1>1. PICK h : Sums(f, S, h) /\ \A s \in SUBSET S : SumFunctionOnSet(f, s) = h[s]
  BY SumOfSubsets
<1> QED BY <1>1 DEF Sums

\* Any element may be taken first.
LEMMA SumTake ==
    ASSUME NEW S, IsFiniteSet(S), NEW f, \A y \in S : f[y] \in Int, NEW x \in S
    PROVE  SumFunctionOnSet(f, S) = f[x] + SumFunctionOnSet(f, S \ {x})
<1>1. PICK h : Sums(f, S, h) /\ \A s \in SUBSET S : SumFunctionOnSet(f, s) = h[s]
  BY SumOfSubsets
<1>2. S \ {x} \in SUBSET S /\ S \in SUBSET S
  OBVIOUS
<1> QED BY <1>1, <1>2 DEF Sums

\* One element more.
LEMMA SumAdd ==
    ASSUME NEW S, IsFiniteSet(S), NEW x, x \notin S, NEW f, \A y \in S \cup {x} : f[y] \in Int
    PROVE  SumFunctionOnSet(f, S \cup {x}) = f[x] + SumFunctionOnSet(f, S)
<1>1. IsFiniteSet(S \cup {x}) /\ (S \cup {x}) \ {x} = S /\ x \in S \cup {x}
  BY FS_AddElement
<1>2. PICK R : R = S \cup {x}
  OBVIOUS
<1>3. SumFunctionOnSet(f, R) = f[x] + SumFunctionOnSet(f, R \ {x})
  BY <1>1, <1>2, SumTake
<1> QED BY <1>1, <1>2, <1>3

\* The smaller the terms, the smaller the sum.
LEMMA SumAtMost ==
    ASSUME NEW S, IsFiniteSet(S), NEW f, NEW g,
           \A x \in S : f[x] \in Int /\ g[x] \in Int /\ f[x] <= g[x]
    PROVE  SumFunctionOnSet(f, S) <= SumFunctionOnSet(g, S)
<1>1. PICK h : Sums(f, S, h) /\ \A s \in SUBSET S : SumFunctionOnSet(f, s) = h[s]
  BY SumOfSubsets
<1>2. PICK k : Sums(g, S, k) /\ \A s \in SUBSET S : SumFunctionOnSet(g, s) = k[s]
  BY SumOfSubsets
<1> DEFINE T == {s \in SUBSET S : h[s] <= k[s]}
<1>3. {} \in T
  BY <1>1, <1>2 DEF Sums
<1>4. ASSUME NEW s \in SUBSET S, NEW x \in S, x \notin s, s \in T
      PROVE  s \cup {x} \in T
  <2>1. PICK t \in SUBSET S : t = s \cup {x}
    OBVIOUS
  <2>2. x \in t /\ t \ {x} = s
    BY <1>4, <2>1
  <2>3. h[t] = f[x] + h[s] /\ k[t] = g[x] + k[s]
    BY <1>1, <1>2, <2>2 DEF Sums
  <2>4. h[s] \in Int /\ k[s] \in Int /\ h[s] <= k[s]
    BY <1>1, <1>2, <1>4 DEF Sums
  <2>5. h[t] <= k[t]
    BY <2>3, <2>4
  <2> QED BY <2>1, <2>5
<1>5. S \in T
  <2> HIDE DEF T
  <2> QED BY <1>3, <1>4, SubsetInduction
<1> QED BY <1>1, <1>2, <1>5

\* Equal terms, equal sums.
LEMMA SumSame ==
    ASSUME NEW S, NEW f, NEW g, \A x \in S : g[x] = f[x]
    PROVE  SumFunctionOnSet(g, S) = SumFunctionOnSet(f, S)
<1>1. ASSUME NEW h, NEW s \in SUBSET S
      PROVE  Summing(g, h, s) = Summing(f, h, s)
  <2>1. s # {} => Picked(s) \in s
    BY DEF Picked
  <2> QED BY <2>1 DEF Summing
<1>2. ASSUME NEW h PROVE Folding(g, S, h) <=> Folding(f, S, h)
  BY <1>1 DEF Folding
<1>3. (CHOOSE h : Folding(g, S, h)) = (CHOOSE h : Folding(f, S, h))
  BY <1>2
<1> QED BY <1>3, SumUnfolded

\* Terms that are zero do not count.
LEMMA SumOfZeros ==
    ASSUME NEW S, IsFiniteSet(S), NEW f, \A x \in S : f[x] = 0
    PROVE  SumFunctionOnSet(f, S) = 0
<1>1. PICK h : Sums(f, S, h) /\ \A s \in SUBSET S : SumFunctionOnSet(f, s) = h[s]
  BY SumOfSubsets
<1> DEFINE T == {s \in SUBSET S : h[s] = 0}
<1>2. {} \in T
  BY <1>1 DEF Sums
<1>3. ASSUME NEW s \in SUBSET S, NEW x \in S, x \notin s, s \in T
      PROVE  s \cup {x} \in T
  <2>1. PICK t \in SUBSET S : t = s \cup {x}
    OBVIOUS
  <2>2. x \in t /\ t \ {x} = s
    BY <1>3, <2>1
  <2>3. h[t] = f[x] + h[s] /\ h[s] = 0 /\ f[x] = 0
    BY <1>1, <1>3, <2>2 DEF Sums
  <2> QED BY <2>1, <2>3
<1>4. S \in T
  <2> HIDE DEF T
  <2> QED BY <1>2, <1>3, SubsetInduction
<1> QED BY <1>1, <1>4

\* A sum whose terms are not negative is not.
LEMMA SumNat ==
    ASSUME NEW S, IsFiniteSet(S), NEW f, \A x \in S : f[x] \in Nat
    PROVE  SumFunctionOnSet(f, S) \in Nat
<1>1. PICK z : z = [x \in S |-> 0]
  OBVIOUS
<1>2. \A x \in S : z[x] \in Int /\ f[x] \in Int /\ z[x] <= f[x] /\ z[x] = 0
  BY <1>1
<1>3. SumFunctionOnSet(z, S) = 0
  BY <1>2, SumOfZeros
<1>4. SumFunctionOnSet(z, S) <= SumFunctionOnSet(f, S)
  BY <1>2, SumAtMost
<1>5. SumFunctionOnSet(f, S) \in Int
  BY <1>2, SumInt
<1> QED BY <1>3, <1>4, <1>5

\* One term changes.
LEMMA SumOneChanged ==
    ASSUME NEW S, IsFiniteSet(S), NEW f, NEW g, NEW x \in S,
           \A y \in S : f[y] \in Int /\ g[y] \in Int, \A y \in S \ {x} : g[y] = f[y]
    PROVE  SumFunctionOnSet(g, S) = SumFunctionOnSet(f, S) - f[x] + g[x]
<1>1. PICK R : R = S \ {x}
  OBVIOUS
<1>2. IsFiniteSet(R) /\ \A y \in R : f[y] \in Int /\ g[y] = f[y]
  BY <1>1, FS_RemoveElement
<1>3. SumFunctionOnSet(g, R) = SumFunctionOnSet(f, R) /\ SumFunctionOnSet(f, R) \in Int
  BY <1>2, SumSame, SumInt
<1>4. SumFunctionOnSet(f, S) = f[x] + SumFunctionOnSet(f, R)
  BY <1>1, SumTake
<1>5. SumFunctionOnSet(g, S) = g[x] + SumFunctionOnSet(g, R)
  BY <1>1, SumTake
<1> QED BY <1>3, <1>4, <1>5

\* A factor may be taken out.
LEMMA SumTimes ==
    ASSUME NEW S, IsFiniteSet(S), NEW f, NEW g, NEW k \in Int,
           \A x \in S : f[x] \in Int /\ g[x] = k * f[x]
    PROVE  SumFunctionOnSet(g, S) = k * SumFunctionOnSet(f, S)
<1>1. PICK h : Sums(f, S, h) /\ \A s \in SUBSET S : SumFunctionOnSet(f, s) = h[s]
  BY SumOfSubsets
<1>0. \A x \in S : g[x] \in Int
  OBVIOUS
<1>2. PICK e : Sums(g, S, e) /\ \A s \in SUBSET S : SumFunctionOnSet(g, s) = e[s]
  BY <1>0, SumOfSubsets
<1> DEFINE T == {s \in SUBSET S : e[s] = k * h[s]}
<1>3. {} \in T
  BY <1>1, <1>2 DEF Sums
<1>4. ASSUME NEW s \in SUBSET S, NEW x \in S, x \notin s, s \in T
      PROVE  s \cup {x} \in T
  <2>1. PICK t \in SUBSET S : t = s \cup {x}
    OBVIOUS
  <2>2. x \in t /\ t \ {x} = s
    BY <1>4, <2>1
  <2>3. PICK a \in Int, b \in Int : a = f[x] /\ b = h[s]
    BY <1>1 DEF Sums
  <2>4. h[t] = a + b /\ e[t] = (k * a) + (k * b)
    BY <1>1, <1>2, <1>4, <2>2, <2>3 DEF Sums
  <2>5. (k * a) + (k * b) = k * (a + b)
    OBVIOUS
  <2> QED BY <2>1, <2>4, <2>5
<1>5. S \in T
  <2> HIDE DEF T
  <2> QED BY <1>3, <1>4, SubsetInduction
<1> QED BY <1>1, <1>2, <1>5

\* Sums add up term by term.
LEMMA SumOfBoth ==
    ASSUME NEW S, IsFiniteSet(S), NEW f, NEW g, NEW b,
           \A x \in S : f[x] \in Int /\ g[x] \in Int /\ b[x] = f[x] + g[x]
    PROVE  SumFunctionOnSet(b, S) = SumFunctionOnSet(f, S) + SumFunctionOnSet(g, S)
<1>0. \A x \in S : b[x] \in Int
  OBVIOUS
<1>1. PICK h : Sums(f, S, h) /\ \A s \in SUBSET S : SumFunctionOnSet(f, s) = h[s]
  BY SumOfSubsets
<1>2. PICK e : Sums(g, S, e) /\ \A s \in SUBSET S : SumFunctionOnSet(g, s) = e[s]
  BY SumOfSubsets
<1>3. PICK d : Sums(b, S, d) /\ \A s \in SUBSET S : SumFunctionOnSet(b, s) = d[s]
  BY <1>0, SumOfSubsets
<1> DEFINE T == {s \in SUBSET S : d[s] = h[s] + e[s]}
<1>4. {} \in T
  BY <1>1, <1>2, <1>3 DEF Sums
<1>5. ASSUME NEW s \in SUBSET S, NEW x \in S, x \notin s, s \in T
      PROVE  s \cup {x} \in T
  <2>1. PICK t \in SUBSET S : t = s \cup {x}
    OBVIOUS
  <2>2. x \in t /\ t \ {x} = s
    BY <1>5, <2>1
  <2>3. h[t] = f[x] + h[s] /\ e[t] = g[x] + e[s] /\ d[t] = b[x] + d[s]
    BY <1>1, <1>2, <1>3, <2>2 DEF Sums
  <2>4. h[s] \in Int /\ e[s] \in Int /\ f[x] \in Int /\ g[x] \in Int /\ b[x] = f[x] + g[x] /\ d[s] = h[s] + e[s]
    BY <1>1, <1>2, <1>5 DEF Sums
  <2> QED BY <2>1, <2>3, <2>4
<1>6. S \in T
  <2> HIDE DEF T
  <2> QED BY <1>4, <1>5, SubsetInduction
<1> QED BY <1>1, <1>2, <1>3, <1>6

\* The same term throughout.
LEMMA SumConstant ==
    ASSUME NEW S, IsFiniteSet(S), NEW f, NEW k \in Int, \A x \in S : f[x] = k
    PROVE  SumFunctionOnSet(f, S) = k * Cardinality(S)
<1>1. PICK h : Sums(f, S, h) /\ \A s \in SUBSET S : SumFunctionOnSet(f, s) = h[s]
  BY SumOfSubsets
<1> DEFINE T == {s \in SUBSET S : h[s] = k * Cardinality(s)}
<1>2. {} \in T
  <2>1. Cardinality({}) = 0
    BY FS_EmptySet
  <2>2. k * 0 = 0
    OBVIOUS
  <2> QED BY <1>1, <2>1, <2>2 DEF Sums
<1>3. ASSUME NEW s \in SUBSET S, NEW x \in S, x \notin s, s \in T
      PROVE  s \cup {x} \in T
  <2>1. PICK t \in SUBSET S : t = s \cup {x}
    OBVIOUS
  <2>2. x \in t /\ t \ {x} = s
    BY <1>3, <2>1
  <2>3. PICK n \in Nat : n = Cardinality(s)
    BY FS_Subset, FS_CardinalityType
  <2>4. Cardinality(t) = n + 1
    BY <1>3, <2>1, <2>3, FS_Subset, FS_AddElement
  <2>5. h[t] = k + k * n
    BY <1>1, <1>3, <2>2, <2>3 DEF Sums
  <2>6. k + k * n = k * (n + 1)
    OBVIOUS
  <2> QED BY <2>1, <2>4, <2>5, <2>6
<1>4. S \in T
  <2> HIDE DEF T
  <2> QED BY <1>2, <1>3, SubsetInduction
<1> QED BY <1>1, <1>4

\* A sum may be taken in two parts.
LEMMA SumInParts ==
    ASSUME NEW S, IsFiniteSet(S), NEW f, \A x \in S : f[x] \in Int, NEW R \in SUBSET S
    PROVE  SumFunctionOnSet(f, S) = SumFunctionOnSet(f, R) + SumFunctionOnSet(f, S \ R)
<1>1. PICK h : Sums(f, S, h) /\ \A s \in SUBSET S : SumFunctionOnSet(f, s) = h[s]
  BY SumOfSubsets
<1>2. PICK Q : Q = S \ R
  OBVIOUS
<1>3. IsFiniteSet(Q) /\ Q \in SUBSET S
  BY <1>2, FS_Subset
<1> DEFINE T == {s \in SUBSET Q : h[R \cup s] = h[R] + h[s]}
<1>4. {} \in T
  <2>1. R \cup {} = R /\ h[{}] = 0 /\ h[R] \in Int
    BY <1>1 DEF Sums
  <2> QED BY <2>1
<1>5. ASSUME NEW s \in SUBSET Q, NEW x \in Q, x \notin s, s \in T
      PROVE  s \cup {x} \in T
  <2>1. PICK t \in SUBSET S : t = s \cup {x}
    BY <1>3
  <2>2. PICK u \in SUBSET S : u = R \cup t
    OBVIOUS
  <2>3. PICK v \in SUBSET S : v = R \cup s
    BY <1>3
  <2>4. x \in t /\ t \ {x} = s /\ x \in u /\ u \ {x} = v /\ x \in S /\ s \in SUBSET S
    BY <1>2, <1>3, <1>5, <2>1, <2>2, <2>3
  <2>5. h[t] = f[x] + h[s] /\ h[u] = f[x] + h[v]
    BY <1>1, <2>4 DEF Sums
  <2>6. h[s] \in Int /\ h[R] \in Int /\ f[x] \in Int /\ h[v] = h[R] + h[s]
    BY <1>1, <1>5, <2>3, <2>4 DEF Sums
  <2> QED BY <2>1, <2>2, <2>5, <2>6
<1>6. Q \in T
  <2> HIDE DEF T
  <2> QED BY <1>3, <1>4, <1>5, SubsetInduction
<1>7. R \cup Q = S
  BY <1>2
<1> QED BY <1>1, <1>2, <1>3, <1>6, <1>7

\* Of terms that are not negative a part sums up to no more than all.
LEMMA SumOfPart ==
    ASSUME NEW S, IsFiniteSet(S), NEW f, \A x \in S : f[x] \in Nat, NEW R \in SUBSET S
    PROVE  SumFunctionOnSet(f, R) <= SumFunctionOnSet(f, S)
<1>1. PICK Q : Q = S \ R
  OBVIOUS
<1>2. IsFiniteSet(Q) /\ IsFiniteSet(R) /\ (\A x \in Q : f[x] \in Nat) /\ (\A x \in R : f[x] \in Int) /\ \A x \in S : f[x] \in Int
  BY <1>1, FS_Subset
<1>3. SumFunctionOnSet(f, S) = SumFunctionOnSet(f, R) + SumFunctionOnSet(f, Q)
  BY <1>1, <1>2, SumInParts
<1>4. SumFunctionOnSet(f, Q) \in Nat /\ SumFunctionOnSet(f, R) \in Int
  BY <1>2, SumNat, SumInt
<1> QED BY <1>3, <1>4

\* A finite set of numbers has a largest, unless it is empty.
LEMMA LargestOf ==
    ASSUME NEW S, IsFiniteSet(S), S \subseteq Int, S # {}
    PROVE  \E m \in S : \A x \in S : m >= x
<1> DEFINE T == {s \in SUBSET S : s = {} \/ \E m \in s : \A x \in s : m >= x}
<1>1. {} \in T
  OBVIOUS
<1>2. ASSUME NEW s \in SUBSET S, NEW y \in S, y \notin s, s \in T
      PROVE  s \cup {y} \in T
  <2>1. CASE s = {}
    BY <2>1
  <2>2. CASE s # {}
    <3>1. PICK m \in s : \A x \in s : m >= x
      BY <1>2, <2>2
    <3>2. m \in Int /\ y \in Int /\ s \subseteq Int
      OBVIOUS
    <3>3. CASE m >= y
      BY <3>1, <3>3
    <3>4. CASE ~(m >= y)
      <4>1. \A x \in s \cup {y} : y >= x
        BY <3>1, <3>2, <3>4
      <4> QED BY <4>1
    <3> QED BY <3>3, <3>4
  <2> QED BY <2>1, <2>2
<1>3. S \in T
  <2> HIDE DEF T
  <2> QED BY <1>1, <1>2, SubsetInduction
<1> QED BY <1>3
=============================================================================
