-------------------------------- MODULE Sums --------------------------------
(***************************************************************************)
(* Facts about SumFunctionOnSet, the sum of a function's values over a     *)
(* finite set, and the induction they rest on, and about quotients that    *)
(* are rounded down. The accounts of the contracts are sums of this kind,  *)
(* and what a step does to one member changes the sum by as much; their    *)
(* prices, shares and scores are such quotients.                           *)
(***************************************************************************)
EXTENDS Integers, FiniteSets, Functions, FiniteSetTheorems, WellFoundedInduction, TLAPS

\* A set of naturals that is not empty has a least member.
LEMMA LeastNatural ==
  ASSUME NEW T \in SUBSET Nat, T # {}
  PROVE  \E n \in T : \A m \in T : n <= m
<1> DEFINE Less == OpToRel(<, Nat)
<1>1. Less = {ss \in Nat \X Nat : ss[1] < ss[2]}
  BY DEF OpToRel
<1>2. IsWellFoundedOn(Less, Nat)
  BY NatLessThanWellFounded
<1> HIDE DEF Less
<1>3. PICK n \in T : \A m \in T : ~ (<<m, n>> \in Less)
  BY <1>2, WFMin, Zenon
<1>4. \A m \in T : ~ (m < n)
  BY <1>1, <1>3
<1> QED BY <1>4

\* Induction: what holds of 0, and of every number after one it holds of, holds of all.
LEMMA NaturalInduction ==
  ASSUME NEW T, 0 \in T, \A n \in Nat : n \in T => n + 1 \in T
  PROVE  \A n \in Nat : n \in T
<1> SUFFICES ASSUME NEW m \in Nat, m \notin T
             PROVE  FALSE
  OBVIOUS
<1> DEFINE Out == {n \in Nat : n \notin T}
<1>1. PICK n \in Out : \A k \in Out : n <= k
  <2>1. Out \in SUBSET Nat /\ Out # {}
    OBVIOUS
  <2> HIDE DEF Out
  <2> QED BY <2>1, LeastNatural
<1>2. n # 0 /\ n - 1 \in Nat /\ n - 1 \notin Out /\ (n - 1) + 1 = n
  BY <1>1
<1> QED BY <1>1, <1>2

\* Induction over the subsets of a finite set: what holds of a set whenever it holds of
\* the set without any one of its members holds of all of them.
LEMMA SubsetInduction ==
  ASSUME NEW S, IsFiniteSet(S), NEW Good,
         \A s \in SUBSET S : (\A x \in s : s \ {x} \in Good) => s \in Good
  PROVE  S \in Good /\ \A s \in SUBSET S : s \in Good
<1> SUFFICES ASSUME NEW t \in SUBSET S, t \notin Good
             PROVE  FALSE
  OBVIOUS
<1> DEFINE Sizes == {Cardinality(s) : s \in (SUBSET S) \ Good}
<1>1. \A s \in SUBSET S : IsFiniteSet(s) /\ Cardinality(s) \in Nat
  BY FS_Subset, FS_CardinalityType
<1>2. Sizes \in SUBSET Nat /\ Sizes # {}
  BY <1>1
<1>3. PICK n \in Sizes : \A m \in Sizes : n <= m
  BY <1>2, LeastNatural
<1>4. PICK s \in (SUBSET S) \ Good : Cardinality(s) = n
  BY <1>3
<1>5. PICK x \in s : s \ {x} \notin Good
  BY <1>4
<1>6. Cardinality(s \ {x}) = Cardinality(s) - 1 /\ s \ {x} \in SUBSET S
  BY <1>1, <1>4, <1>5, FS_RemoveElement
<1>7. Cardinality(s \ {x}) \in Sizes
  BY <1>5, <1>6
<1>8. n <= Cardinality(s \ {x}) /\ n \in Nat /\ Cardinality(s \ {x}) = n - 1
  BY <1>1, <1>3, <1>4, <1>6, <1>7
<1> QED BY <1>8

-----------------------------------------------------------------------------
(* The definition of the sum is by recursion on subsets.                   *)

OneOf(s) == CHOOSE x \in s : TRUE
SumStep(f, g, s) == IF s = {} THEN 0 ELSE f[OneOf(s)] + g[s \ {OneOf(s)}]
PartialSums(f, S) == CHOOSE g : g = [s \in SUBSET S |-> SumStep(f, g, s)]

LEMMA SumIsRecursive ==
  ASSUME NEW f, NEW S
  PROVE  SumFunctionOnSet(f, S) = PartialSums(f, S)[S]
  BY DEF SumFunctionOnSet, FoldFunctionOnSet, MapThenFoldSet, OneOf, SumStep, PartialSums

\* g has the sums of the subsets of up to n members.
SumsTo(f, S, n, g) ==
  /\ g = [s \in SUBSET S |-> g[s]]
  /\ \A s \in SUBSET S : Cardinality(s) <= n => g[s] = SumStep(f, g, s)

\* There is such a function, for any n.
LEMMA SumsUpTo ==
  ASSUME NEW f, NEW S, IsFiniteSet(S), NEW n \in Nat
  PROVE  \E g : SumsTo(f, S, n, g)
<1> DEFINE Good(m) == \E g : SumsTo(f, S, m, g)
           Bad == {m \in Nat : ~Good(m)}
<1>1. \A s \in SUBSET S : IsFiniteSet(s) /\ Cardinality(s) \in Nat
  BY FS_Subset, FS_CardinalityType
<1>2. \A s \in SUBSET S : Cardinality(s) = 0 <=> s = {}
  BY <1>1, FS_EmptySet
<1>3. Good(0)
  <2> DEFINE g == [s \in SUBSET S |-> 0]
  <2>1. \A s \in SUBSET S : Cardinality(s) <= 0 => g[s] = SumStep(f, g, s)
    BY <1>1, <1>2 DEF SumStep
  <2>2. g = [s \in SUBSET S |-> g[s]]
    OBVIOUS
  <2> HIDE DEF g
  <2> QED BY <2>1, <2>2 DEF SumsTo
<1>4. ASSUME NEW m \in Nat, Good(m)
      PROVE  Good(m + 1)
  <2>1. PICK g : /\ g = [s \in SUBSET S |-> g[s]]
                 /\ \A s \in SUBSET S : Cardinality(s) <= m => g[s] = SumStep(f, g, s)
    BY <1>4 DEF SumsTo
  <2> DEFINE h == [s \in SUBSET S |-> SumStep(f, g, s)]
  <2>2. ASSUME NEW s \in SUBSET S, Cardinality(s) <= m + 1
        PROVE  h[s] = SumStep(f, h, s)
    <3>1. CASE s = {}
      BY <3>1 DEF SumStep
    <3>2. CASE s # {}
      <4> DEFINE rest == s \ {OneOf(s)}
      <4>1. OneOf(s) \in s /\ rest \in SUBSET S
        BY <3>2 DEF OneOf
      <4>2. Cardinality(rest) = Cardinality(s) - 1
        BY <1>1, <4>1, FS_RemoveElement
      <4>3. Cardinality(rest) <= m
        BY <1>1, <2>2, <4>1, <4>2
      <4>4. h[rest] = g[rest]
        BY <2>1, <4>1, <4>3
      <4> QED BY <3>2, <4>1, <4>4 DEF SumStep
    <3> QED BY <3>1, <3>2
  <2>3. h = [s \in SUBSET S |-> h[s]]
    OBVIOUS
  <2> HIDE DEF h
  <2> QED BY <2>2, <2>3 DEF SumsTo
<1> HIDE DEF Good
<1>5. Bad = {}
  <2> SUFFICES ASSUME Bad # {} PROVE FALSE
    OBVIOUS
  <2>1. PICK b \in Bad : \A m \in Bad : b <= m
    BY LeastNatural
  <2>2. b # 0 /\ b - 1 \in Nat
    BY <1>3, <2>1
  <2>3. Good(b - 1)
    BY <2>1, <2>2
  <2>4. Good((b - 1) + 1)
    BY <1>4, <2>2, <2>3
  <2> QED BY <2>1, <2>2, <2>4
<1>6. Good(n)
  BY <1>5
<1> QED BY <1>6 DEF Good

\* So the sums of the subsets satisfy it.
LEMMA SumsAreDefined ==
  ASSUME NEW f, NEW S, IsFiniteSet(S)
  PROVE  \A s \in SUBSET S : PartialSums(f, S)[s] = SumStep(f, PartialSums(f, S), s)
<1>1. PICK n \in Nat : n = Cardinality(S)
  BY FS_CardinalityType
<1>2. \A s \in SUBSET S : Cardinality(s) <= n
  BY <1>1, FS_Subset
<1>3. PICK g : SumsTo(f, S, n, g)
  BY SumsUpTo
<1>4. g = [s \in SUBSET S |-> SumStep(f, g, s)]
  BY <1>2, <1>3 DEF SumsTo
<1>5. PartialSums(f, S) = [s \in SUBSET S |-> SumStep(f, PartialSums(f, S), s)]
  BY <1>4 DEF PartialSums
<1> HIDE DEF SumStep, PartialSums
<1> QED BY <1>5

\* They do not depend on the set that they are subsets of.
LEMMA SumsAgree ==
  ASSUME NEW f, NEW S, IsFiniteSet(S), NEW R \in SUBSET S, NEW s \in SUBSET R
  PROVE  PartialSums(f, S)[s] = PartialSums(f, R)[s]
<1> DEFINE g == PartialSums(f, S)
           h == PartialSums(f, R)
           Good == {t \in SUBSET R : g[t] = h[t]}
<1>1. IsFiniteSet(R)
  BY FS_Subset
<1>2. \A t \in SUBSET R : g[t] = SumStep(f, g, t) /\ h[t] = SumStep(f, h, t)
  BY <1>1, SumsAreDefined
<1> HIDE DEF g, h
<1>3. ASSUME NEW t \in SUBSET R, \A x \in t : t \ {x} \in Good
      PROVE  t \in Good
  <2>1. t # {} => OneOf(t) \in t
    BY DEF OneOf
  <2>2. t # {} => g[t \ {OneOf(t)}] = h[t \ {OneOf(t)}]
    BY <1>3, <2>1
  <2> QED BY <1>2, <2>2 DEF SumStep
<1> HIDE DEF Good
<1>4. \A t \in SUBSET R : t \in Good
  BY <1>1, <1>3, SubsetInduction
<1>5. s \in Good
  BY <1>4
<1> QED BY <1>5 DEF Good, g, h

\* Nothing sums up to nothing.
LEMMA SumOfNone ==
  ASSUME NEW f
  PROVE  SumFunctionOnSet(f, {}) = 0
<1>1. IsFiniteSet({})
  BY FS_EmptySet
<1> QED BY <1>1, SumIsRecursive, SumsAreDefined DEF SumStep

\* A sum is that of one member, whichever the definition takes, and of the others.
LEMMA SumTakesOne ==
  ASSUME NEW f, NEW S, IsFiniteSet(S), S # {}
  PROVE  /\ OneOf(S) \in S
         /\ SumFunctionOnSet(f, S) = f[OneOf(S)] + SumFunctionOnSet(f, S \ {OneOf(S)})
<1> DEFINE rest == S \ {OneOf(S)}
<1>1. OneOf(S) \in S
  BY DEF OneOf
<1>2. PartialSums(f, S)[S] = f[OneOf(S)] + PartialSums(f, S)[rest]
  BY SumsAreDefined DEF SumStep
<1>3. PartialSums(f, S)[rest] = PartialSums(f, rest)[rest]
  BY SumsAgree
<1> QED BY <1>1, <1>2, <1>3, SumIsRecursive

-----------------------------------------------------------------------------
(* What a sum is.                                                          *)

\* The sum of integers is an integer.
LEMMA SumIsInt ==
  ASSUME NEW f, NEW S, IsFiniteSet(S), \A x \in S : f[x] \in Int
  PROVE  SumFunctionOnSet(f, S) \in Int
<1> DEFINE Good == {s \in SUBSET S : SumFunctionOnSet(f, s) \in Int}
<1>1. ASSUME NEW s \in SUBSET S, \A x \in s : s \ {x} \in Good
      PROVE  s \in Good
  <2>1. CASE s = {}
    BY <2>1, SumOfNone
  <2>2. CASE s # {}
    <3>1. OneOf(s) \in s /\ SumFunctionOnSet(f, s) = f[OneOf(s)] + SumFunctionOnSet(f, s \ {OneOf(s)})
      BY <2>2, FS_Subset, SumTakesOne
    <3>2. SumFunctionOnSet(f, s \ {OneOf(s)}) \in Int
      BY <1>1, <3>1
    <3> QED BY <3>1, <3>2
  <2> QED BY <2>1, <2>2
<1> HIDE DEF Good
<1>2. S \in Good
  BY <1>1, SubsetInduction
<1> QED BY <1>2 DEF Good

\* It is that of any one member and of the others.
LEMMA SumSplits ==
  ASSUME NEW f, NEW S, IsFiniteSet(S), \A y \in S : f[y] \in Int, NEW x \in S
  PROVE  SumFunctionOnSet(f, S) = f[x] + SumFunctionOnSet(f, S \ {x})
<1> DEFINE Sum(s) == SumFunctionOnSet(f, s)
           Splits(s) == \A y \in s : Sum(s) = f[y] + Sum(s \ {y})
           Good == {s \in SUBSET S : Splits(s)}
<1>1. \A s \in SUBSET S : Sum(s) \in Int
  BY FS_Subset, SumIsInt
<1>2. \A s \in SUBSET S : s # {} => OneOf(s) \in s /\ Sum(s) = f[OneOf(s)] + Sum(s \ {OneOf(s)})
  BY FS_Subset, SumTakesOne
<1> HIDE DEF Sum
<1>3. ASSUME NEW s \in SUBSET S, \A y \in s : s \ {y} \in Good
      PROVE  s \in Good
  <2> SUFFICES ASSUME NEW y \in s
               PROVE  Sum(s) = f[y] + Sum(s \ {y})
    OBVIOUS
  <2>1. PICK z \in s : Sum(s) = f[z] + Sum(s \ {z})
    BY <1>2
  <2>2. CASE y # z
    <3> DEFINE both == (s \ {z}) \ {y}
    <3>1. both = (s \ {y}) \ {z} /\ both \in SUBSET S
      OBVIOUS
    <3>2. Sum(s \ {z}) = f[y] + Sum(both) /\ Sum(s \ {y}) = f[z] + Sum(both)
      BY <1>3, <2>2, <3>1
    <3>3. f[y] \in Int /\ f[z] \in Int /\ Sum(both) \in Int
      BY <1>1, <3>1
    <3> HIDE DEF both
    <3> QED BY <2>1, <3>2, <3>3
  <2> QED BY <2>1, <2>2
<1> HIDE DEF Good
<1>4. S \in Good
  BY <1>3, SubsetInduction
<1> QED BY <1>4 DEF Good, Sum

\* Functions that agree on a set have the same sum there.
LEMMA SumOfSame ==
  ASSUME NEW f, NEW g, NEW S, IsFiniteSet(S), \A x \in S : f[x] = g[x]
  PROVE  SumFunctionOnSet(f, S) = SumFunctionOnSet(g, S)
<1> DEFINE Good == {s \in SUBSET S : SumFunctionOnSet(f, s) = SumFunctionOnSet(g, s)}
<1>1. ASSUME NEW s \in SUBSET S, \A x \in s : s \ {x} \in Good
      PROVE  s \in Good
  <2>1. CASE s = {}
    BY <2>1, SumOfNone
  <2>2. CASE s # {}
    <3>1. /\ OneOf(s) \in s
          /\ SumFunctionOnSet(f, s) = f[OneOf(s)] + SumFunctionOnSet(f, s \ {OneOf(s)})
          /\ SumFunctionOnSet(g, s) = g[OneOf(s)] + SumFunctionOnSet(g, s \ {OneOf(s)})
      BY <2>2, FS_Subset, SumTakesOne
    <3>2. SumFunctionOnSet(f, s \ {OneOf(s)}) = SumFunctionOnSet(g, s \ {OneOf(s)})
      BY <1>1, <3>1
    <3> QED BY <3>1, <3>2
  <2> QED BY <2>1, <2>2
<1> HIDE DEF Good
<1>2. S \in Good
  BY <1>1, SubsetInduction
<1> QED BY <1>2 DEF Good

\* A sum changes by as much as the only member that changes.
LEMMA SumChanges ==
  ASSUME NEW f, NEW g, NEW S, IsFiniteSet(S), NEW x \in S,
         \A y \in S : f[y] \in Int /\ g[y] \in Int,
         \A y \in S \ {x} : f[y] = g[y]
  PROVE  SumFunctionOnSet(g, S) = SumFunctionOnSet(f, S) + g[x] - f[x]
<1>1. IsFiniteSet(S \ {x})
  BY FS_RemoveElement
<1>2. SumFunctionOnSet(f, S \ {x}) = SumFunctionOnSet(g, S \ {x})
  BY <1>1, SumOfSame
<1>3. /\ SumFunctionOnSet(f, S) = f[x] + SumFunctionOnSet(f, S \ {x})
      /\ SumFunctionOnSet(g, S) = g[x] + SumFunctionOnSet(g, S \ {x})
  BY SumSplits
<1>4. SumFunctionOnSet(f, S \ {x}) \in Int
  BY <1>1, SumIsInt
<1> QED BY <1>2, <1>3, <1>4

\* A new member adds what it has.
LEMMA SumGrows ==
  ASSUME NEW f, NEW S, IsFiniteSet(S), NEW x, x \notin S,
         \A y \in S \cup {x} : f[y] \in Int
  PROVE  SumFunctionOnSet(f, S \cup {x}) = SumFunctionOnSet(f, S) + f[x]
<1> DEFINE larger == S \cup {x}
<1>1. IsFiniteSet(larger) /\ larger \ {x} = S /\ x \in larger
  BY FS_AddElement
<1>2. SumFunctionOnSet(f, larger) = f[x] + SumFunctionOnSet(f, larger \ {x})
  BY <1>1, SumSplits
<1>3. SumFunctionOnSet(f, S) \in Int /\ f[x] \in Int
  BY SumIsInt
<1>4. SumFunctionOnSet(f, larger \ {x}) = SumFunctionOnSet(f, S)
  BY <1>1, Zenon
<1> HIDE DEF larger
<1>5. SumFunctionOnSet(f, larger) = SumFunctionOnSet(f, S) + f[x]
  BY <1>2, <1>3, <1>4
<1> QED BY <1>5 DEF larger

\* A sum when one member comes, goes or changes: the rest of it stays.
LEMMA SumMoves ==
  ASSUME NEW f, NEW g, NEW R, IsFiniteSet(R), NEW S, IsFiniteSet(S),
         NEW x, R \ {x} = S \ {x},
         \A y \in R : f[y] \in Int, \A y \in S : g[y] \in Int,
         \A y \in R \ {x} : f[y] = g[y]
  PROVE  SumFunctionOnSet(g, S) - (IF x \in S THEN g[x] ELSE 0)
           = SumFunctionOnSet(f, R) - (IF x \in R THEN f[x] ELSE 0)
<1> DEFINE rest == R \ {x}
<1>1. IsFiniteSet(rest)
  BY FS_RemoveElement
<1>2. SumFunctionOnSet(f, rest) = SumFunctionOnSet(g, rest)
  BY <1>1, SumOfSame
<1>3. SumFunctionOnSet(f, rest) \in Int
  BY <1>1, SumIsInt
<1>4. SumFunctionOnSet(f, R) = SumFunctionOnSet(f, rest) + (IF x \in R THEN f[x] ELSE 0)
  <2>1. CASE x \in R
    <3>1. SumFunctionOnSet(f, R) = f[x] + SumFunctionOnSet(f, rest)
      BY <2>1, SumSplits
    <3> HIDE DEF rest
    <3> QED BY <1>3, <2>1, <3>1
  <2>2. CASE x \notin R
    <3>1. rest = R
      BY <2>2
    <3>2. SumFunctionOnSet(f, R) = SumFunctionOnSet(f, rest)
      BY <3>1, Zenon
    <3> HIDE DEF rest
    <3> QED BY <1>3, <2>2, <3>2
  <2> QED BY <2>1, <2>2
<1>5. SumFunctionOnSet(g, S) = SumFunctionOnSet(g, rest) + (IF x \in S THEN g[x] ELSE 0)
  <2>1. CASE x \in S
    <3>1. SumFunctionOnSet(g, S) = g[x] + SumFunctionOnSet(g, S \ {x})
      BY <2>1, SumSplits
    <3>2. SumFunctionOnSet(g, S \ {x}) = SumFunctionOnSet(g, rest)
      BY Zenon
    <3> HIDE DEF rest
    <3> QED BY <1>2, <1>3, <2>1, <3>1, <3>2
  <2>2. CASE x \notin S
    <3>1. rest = S
      BY <2>2
    <3>2. SumFunctionOnSet(g, S) = SumFunctionOnSet(g, rest)
      BY <3>1, Zenon
    <3> HIDE DEF rest
    <3> QED BY <1>2, <1>3, <2>2, <3>2
  <2> QED BY <2>1, <2>2
<1> HIDE DEF rest
<1>6. /\ (IF x \in R THEN f[x] ELSE 0) \in Int
      /\ (IF x \in S THEN g[x] ELSE 0) \in Int
  OBVIOUS
<1> QED BY <1>2, <1>3, <1>4, <1>5, <1>6

\* Larger values have a larger sum.
LEMMA SumIsMonotone ==
  ASSUME NEW f, NEW g, NEW S, IsFiniteSet(S),
         \A x \in S : f[x] \in Int /\ g[x] \in Int /\ f[x] <= g[x]
  PROVE  SumFunctionOnSet(f, S) <= SumFunctionOnSet(g, S)
<1> DEFINE Good == {s \in SUBSET S : SumFunctionOnSet(f, s) <= SumFunctionOnSet(g, s)}
<1>1. ASSUME NEW s \in SUBSET S, \A x \in s : s \ {x} \in Good
      PROVE  s \in Good
  <2>1. CASE s = {}
    <3>1. SumFunctionOnSet(f, s) = 0 /\ SumFunctionOnSet(g, s) = 0
      BY <2>1, SumOfNone
    <3> QED BY <3>1
  <2>2. CASE s # {}
    <3>1. PICK x \in s : TRUE
      BY <2>2
    <3>2. IsFiniteSet(s) /\ IsFiniteSet(s \ {x}) /\ s \ {x} \in SUBSET S
      BY FS_Subset
    <3>3. /\ SumFunctionOnSet(f, s) = f[x] + SumFunctionOnSet(f, s \ {x})
          /\ SumFunctionOnSet(g, s) = g[x] + SumFunctionOnSet(g, s \ {x})
      BY <3>2, SumSplits
    <3>4. SumFunctionOnSet(f, s \ {x}) \in Int /\ SumFunctionOnSet(g, s \ {x}) \in Int
      BY <3>2, SumIsInt
    <3>5. SumFunctionOnSet(f, s \ {x}) <= SumFunctionOnSet(g, s \ {x})
      BY <1>1
    <3> QED BY <3>3, <3>4, <3>5
  <2> QED BY <2>1, <2>2
<1> HIDE DEF Good
<1>2. S \in Good
  BY <1>1, SubsetInduction
<1> QED BY <1>2 DEF Good

\* The sum over a part of the set, where values are not negative, is not larger.
LEMMA SumOfPart ==
  ASSUME NEW f, NEW S, IsFiniteSet(S), \A x \in S : f[x] \in Nat, NEW R \in SUBSET S
  PROVE  /\ SumFunctionOnSet(f, R) \in Nat
         /\ SumFunctionOnSet(f, R) <= SumFunctionOnSet(f, S)
<1> DEFINE Good == {s \in SUBSET S : /\ SumFunctionOnSet(f, s) \in Nat
                                     /\ R \subseteq s => SumFunctionOnSet(f, R) <= SumFunctionOnSet(f, s)}
<1>1. \A s \in SUBSET S : SumFunctionOnSet(f, s) \in Int
  BY FS_Subset, SumIsInt
<1>2. ASSUME NEW s \in SUBSET S, \A x \in s : s \ {x} \in Good
      PROVE  s \in Good
  <2>1. CASE s = {}
    <3>1. SumFunctionOnSet(f, s) = 0
      BY <2>1, SumOfNone
    <3> QED BY <1>1, <2>1, <3>1
  <2>2. ASSUME NEW x \in s
        PROVE  SumFunctionOnSet(f, s) \in Nat /\ SumFunctionOnSet(f, s \ {x}) <= SumFunctionOnSet(f, s)
    <3>1. SumFunctionOnSet(f, s) = f[x] + SumFunctionOnSet(f, s \ {x})
      BY FS_Subset, SumSplits
    <3>2. SumFunctionOnSet(f, s \ {x}) \in Nat
      BY <1>2
    <3> QED BY <3>1, <3>2
  <2>3. CASE s # {}
    <3>1. SumFunctionOnSet(f, s) \in Nat
      BY <2>2, <2>3
    <3>2. ASSUME R \subseteq s, R # s
          PROVE  SumFunctionOnSet(f, R) <= SumFunctionOnSet(f, s)
      <4>1. PICK x \in s : x \notin R
        BY <3>2
      <4>2. /\ SumFunctionOnSet(f, R) <= SumFunctionOnSet(f, s \ {x})
            /\ SumFunctionOnSet(f, s \ {x}) <= SumFunctionOnSet(f, s)
        BY <1>2, <2>2, <3>2, <4>1
      <4>3. s \ {x} \in SUBSET S
        OBVIOUS
      <4> QED BY <1>1, <4>2, <4>3
    <3> QED BY <1>1, <3>1, <3>2
  <2> QED BY <2>1, <2>3
<1> HIDE DEF Good
<1>3. \A s \in SUBSET S : s \in Good
  BY <1>2, SubsetInduction
<1>4. S \in Good /\ R \in Good
  BY <1>3
<1> QED BY <1>4 DEF Good

\* So no value is larger than the sum of them all.
LEMMA SumCovers ==
  ASSUME NEW f, NEW S, IsFiniteSet(S), \A y \in S : f[y] \in Nat, NEW x \in S
  PROVE  SumFunctionOnSet(f, S) \in Nat /\ f[x] <= SumFunctionOnSet(f, S)
<1>1. SumFunctionOnSet(f, S \ {x}) \in Nat /\ SumFunctionOnSet(f, S) \in Nat
  BY SumOfPart
<1>2. SumFunctionOnSet(f, S) = f[x] + SumFunctionOnSet(f, S \ {x})
  BY SumSplits
<1> QED BY <1>1, <1>2

\* The sum of a function's multiple is the multiple of its sum.
LEMMA SumScales ==
  ASSUME NEW f, NEW h, NEW S, IsFiniteSet(S), NEW k \in Int,
         \A x \in S : f[x] \in Int /\ h[x] = f[x] * k
  PROVE  SumFunctionOnSet(h, S) = SumFunctionOnSet(f, S) * k
<1> DEFINE Sum(F, s) == SumFunctionOnSet(F, s)
           Good == {s \in SUBSET S : Sum(h, s) = Sum(f, s) * k}
<1>1. \A s \in SUBSET S : Sum(f, s) \in Int
  BY FS_Subset, SumIsInt
<1>2. ASSUME NEW s \in SUBSET S, NEW x \in s
      PROVE  Sum(f, s) = f[x] + Sum(f, s \ {x}) /\ Sum(h, s) = h[x] + Sum(h, s \ {x})
  BY FS_Subset, SumSplits
<1>3. Sum(f, {}) = 0 /\ Sum(h, {}) = 0
  BY SumOfNone
<1> HIDE DEF Sum
<1>4. ASSUME NEW s \in SUBSET S, \A x \in s : s \ {x} \in Good
      PROVE  s \in Good
  <2>1. CASE s = {}
    BY <1>3, <2>1
  <2>2. CASE s # {}
    <3>1. PICK x \in s : TRUE
      BY <2>2
    <3>2. s \ {x} \in SUBSET S /\ Sum(h, s \ {x}) = Sum(f, s \ {x}) * k
      BY <1>4
    <3>3. \A a, b \in Int : (a + b) * k = a * k + b * k
      OBVIOUS
    <3>4. Sum(f, s) * k = f[x] * k + Sum(f, s \ {x}) * k
      BY <1>1, <1>2, <3>2, <3>3
    <3> QED BY <1>2, <3>2, <3>4
  <2> QED BY <2>1, <2>2
<1> HIDE DEF Good
<1>5. S \in Good
  BY <1>4, SubsetInduction
<1> QED BY <1>5 DEF Good, Sum

\* The sum of two functions is that of their sums.
LEMMA SumAdds ==
  ASSUME NEW f, NEW g, NEW h, NEW S, IsFiniteSet(S),
         \A x \in S : f[x] \in Int /\ g[x] \in Int /\ h[x] = f[x] + g[x]
  PROVE  SumFunctionOnSet(h, S) = SumFunctionOnSet(f, S) + SumFunctionOnSet(g, S)
<1> DEFINE Sum(F, s) == SumFunctionOnSet(F, s)
           Good == {s \in SUBSET S : Sum(h, s) = Sum(f, s) + Sum(g, s)}
<1>1. \A s \in SUBSET S : Sum(f, s) \in Int /\ Sum(g, s) \in Int
  BY FS_Subset, SumIsInt
<1>2. ASSUME NEW s \in SUBSET S, NEW x \in s
      PROVE  /\ Sum(f, s) = f[x] + Sum(f, s \ {x})
             /\ Sum(g, s) = g[x] + Sum(g, s \ {x})
             /\ Sum(h, s) = h[x] + Sum(h, s \ {x})
  BY FS_Subset, SumSplits
<1>3. Sum(f, {}) = 0 /\ Sum(g, {}) = 0 /\ Sum(h, {}) = 0
  BY SumOfNone
<1> HIDE DEF Sum
<1>4. ASSUME NEW s \in SUBSET S, \A x \in s : s \ {x} \in Good
      PROVE  s \in Good
  <2>1. CASE s = {}
    BY <1>3, <2>1
  <2>2. CASE s # {}
    <3>1. PICK x \in s : TRUE
      BY <2>2
    <3>2. s \ {x} \in SUBSET S /\ Sum(h, s \ {x}) = Sum(f, s \ {x}) + Sum(g, s \ {x})
      BY <1>4
    <3> QED BY <1>1, <1>2, <3>2
  <2> QED BY <2>1, <2>2
<1> HIDE DEF Good
<1>5. S \in Good
  BY <1>4, SubsetInduction
<1> QED BY <1>5 DEF Good, Sum

\* The sum over two sets without a common member is that of their sums.
LEMMA SumOfUnion ==
  ASSUME NEW f, NEW S, IsFiniteSet(S), NEW R, IsFiniteSet(R), R \cap S = {},
         \A x \in R \cup S : f[x] \in Int
  PROVE  SumFunctionOnSet(f, R \cup S) = SumFunctionOnSet(f, R) + SumFunctionOnSet(f, S)
<1> DEFINE Good == {s \in SUBSET S :
                      SumFunctionOnSet(f, R \cup s) = SumFunctionOnSet(f, R) + SumFunctionOnSet(f, s)}
<1>1. SumFunctionOnSet(f, R) \in Int
  BY SumIsInt
<1>2. ASSUME NEW s \in SUBSET S, \A x \in s : s \ {x} \in Good
      PROVE  s \in Good
  <2>1. CASE s = {}
    <3>1. R \cup s = R
      BY <2>1
    <3>2. SumFunctionOnSet(f, R \cup s) = SumFunctionOnSet(f, R) /\ SumFunctionOnSet(f, s) = 0
      BY <2>1, <3>1, SumOfNone, Zenon
    <3> QED BY <1>1, <3>2
  <2>2. CASE s # {}
    <3>1. PICK x \in s : TRUE
      BY <2>2
    <3> DEFINE rest == s \ {x}
               both == R \cup rest
    <3>2. /\ IsFiniteSet(s) /\ IsFiniteSet(rest) /\ IsFiniteSet(both)
          /\ x \notin both /\ both \cup {x} = R \cup s
      <4>1. IsFiniteSet(s) /\ IsFiniteSet(rest)
        BY FS_Subset
      <4> QED BY <4>1, FS_Union
    <3>3. SumFunctionOnSet(f, both \cup {x}) = SumFunctionOnSet(f, both) + f[x]
      BY <3>2, SumGrows
    <3>4. SumFunctionOnSet(f, s) = f[x] + SumFunctionOnSet(f, rest)
      BY <3>2, SumSplits
    <3>5. SumFunctionOnSet(f, both) = SumFunctionOnSet(f, R) + SumFunctionOnSet(f, rest)
      BY <1>2
    <3>6. SumFunctionOnSet(f, rest) \in Int /\ f[x] \in Int
      BY <3>2, SumIsInt
    <3>7. SumFunctionOnSet(f, R \cup s) = SumFunctionOnSet(f, both) + f[x]
      BY <3>2, <3>3
    <3> HIDE DEF rest, both
    <3>8. SumFunctionOnSet(f, R \cup s) = SumFunctionOnSet(f, R) + SumFunctionOnSet(f, s)
      BY <1>1, <3>4, <3>5, <3>6, <3>7
    <3> QED BY <3>8
  <2> QED BY <2>1, <2>2
<1> HIDE DEF Good
<1>3. S \in Good
  BY <1>2, SubsetInduction
<1> QED BY <1>3 DEF Good

\* The sum of equal values is one of them as often as there are members.
LEMMA SumOfEqual ==
  ASSUME NEW f, NEW S, IsFiniteSet(S), NEW k \in Int, \A x \in S : f[x] = k
  PROVE  SumFunctionOnSet(f, S) = k * Cardinality(S)
<1> DEFINE Good == {s \in SUBSET S : SumFunctionOnSet(f, s) = k * Cardinality(s)}
<1>1. \A s \in SUBSET S : IsFiniteSet(s) /\ Cardinality(s) \in Nat
  BY FS_Subset, FS_CardinalityType
<1>2. ASSUME NEW s \in SUBSET S, \A x \in s : s \ {x} \in Good
      PROVE  s \in Good
  <2>1. CASE s = {}
    <3>1. SumFunctionOnSet(f, s) = 0 /\ Cardinality(s) = 0
      BY <2>1, SumOfNone, FS_EmptySet
    <3> QED BY <3>1
  <2>2. CASE s # {}
    <3>1. PICK x \in s : TRUE
      BY <2>2
    <3> DEFINE n == Cardinality(s \ {x})
    <3>2. n \in Nat /\ Cardinality(s) = n + 1
      BY <1>1, FS_RemoveElement
    <3>3. SumFunctionOnSet(f, s) = k + SumFunctionOnSet(f, s \ {x})
      BY <1>1, SumSplits
    <3>4. SumFunctionOnSet(f, s \ {x}) = k * n
      BY <1>2
    <3> HIDE DEF n
    <3>5. k + k * n = k * (n + 1)
      BY <3>2
    <3> QED BY <3>2, <3>3, <3>4, <3>5
  <2> QED BY <2>1, <2>2
<1> HIDE DEF Good
<1>3. S \in Good
  BY <1>2, SubsetInduction
<1> QED BY <1>3 DEF Good

-----------------------------------------------------------------------------
(* Quotients.                                                              *)

LEMMA ProductNat ==
  ASSUME NEW a \in Nat, NEW b \in Nat
  PROVE  a * b \in Nat
OBVIOUS

LEMMA Quotient ==
  ASSUME NEW a \in Nat, NEW b \in Nat \ {0}
  PROVE  a \div b \in Nat /\ (a \div b) * b <= a /\ a < (a \div b) * b + b
<1>1. a = b * (a \div b) + (a % b) /\ a % b \in 0..(b-1) /\ a \div b \in Int
  OBVIOUS
<1>2. a \div b >= 0
  BY <1>1
<1> QED
  BY <1>1, <1>2

\* Products rise with their factors.
LEMMA ProductRises ==
  ASSUME NEW a \in Nat, NEW b \in Nat, a <= b, NEW k \in Nat
  PROVE  a * k <= b * k
<1>1. PICK d \in Nat : b = a + d
  <2>1. b - a \in Nat /\ b = a + (b - a)
    OBVIOUS
  <2> QED BY <2>1
<1>2. b * k = a * k + d * k
  BY <1>1
<1>3. a * k \in Nat /\ d * k \in Nat
  BY ProductNat
<1> QED BY <1>2, <1>3

\* What goes into a number often enough is at most the quotient.
LEMMA QuotientIsMost ==
  ASSUME NEW a \in Nat, NEW b \in Nat \ {0}, NEW q \in Nat, q * b <= a
  PROVE  q <= a \div b
<1> SUFFICES ASSUME a \div b < q PROVE FALSE
  BY Quotient
<1>1. PICK p \in Nat : p = a \div b /\ a < p * b + b
  BY Quotient
<1>2. (p + 1) * b <= q * b
  BY <1>1, ProductRises
<1>3. (p + 1) * b = p * b + b /\ p * b \in Nat /\ q * b \in Nat
  BY ProductNat
<1> QED BY <1>1, <1>2, <1>3

\* A quotient rises with what is divided, and falls with what it is divided by.
LEMMA QuotientRises ==
  ASSUME NEW a \in Nat, NEW c \in Nat, a <= c, NEW b \in Nat \ {0}
  PROVE  a \div b <= c \div b
<1>1. PICK q \in Nat : q = a \div b /\ q * b <= a
  BY Quotient
<1>2. q * b <= c
  BY <1>1, ProductNat
<1> QED BY <1>1, <1>2, QuotientIsMost

LEMMA QuotientFalls ==
  ASSUME NEW a \in Nat, NEW b \in Nat \ {0}, NEW d \in Nat, b <= d
  PROVE  a \div d <= a \div b
<1>1. PICK q \in Nat : q = a \div d /\ q * d <= a
  BY Quotient
<1>2. b * q <= d * q /\ b * q = q * b /\ d * q = q * d
  BY ProductRises
<1>3. q * b <= a
  BY <1>1, <1>2, ProductNat
<1> QED BY <1>1, <1>3, QuotientIsMost

\* The share of c in c + f parts of a whole is a part of it. One more of the rest does not
\* raise it, and one more of what is counted does not lower it.
LEMMA ShareOfWhole ==
  ASSUME NEW c \in Nat, NEW f \in Nat, c + f # 0, NEW whole \in Nat
  PROVE  /\ (c * whole) \div (c + f) \in 0..whole
         /\ (c * whole) \div (c + (f + 1)) <= (c * whole) \div (c + f)
         /\ (c * whole) \div (c + f) <= ((c + 1) * whole) \div ((c + 1) + f)
<1> DEFINE a == c * whole
           n == c + f
<1>1. a \in Nat /\ n \in Nat \ {0} /\ n + 1 \in Nat \ {0}
  BY ProductNat
<1>2. PICK q \in Nat : q = a \div n /\ q * n <= a
  BY <1>1, Quotient
<1>3. q <= whole
  <2> SUFFICES ASSUME whole + 1 <= q PROVE FALSE
    OBVIOUS
  <2>1. (whole + 1) * n <= q * n
    BY <1>1, ProductRises
  <2>2. (whole + 1) * n = whole * n + n /\ whole * n = whole * c + whole * f
        /\ whole * c = a
    OBVIOUS
  <2>3. whole * f \in Nat /\ whole * c \in Nat /\ q * n \in Nat
    BY <1>1, ProductNat
  <2> HIDE DEF a, n
  <2> QED BY <1>1, <1>2, <2>1, <2>2, <2>3
<1>4. (c + 1) * whole = a + whole /\ q * (n + 1) = q * n + q
  BY <1>1
<1>5. q <= (a + whole) \div (n + 1)
  <2> HIDE DEF a, n
  <2>1. q * n \in Nat
    BY <1>1, ProductNat
  <2>2. q * (n + 1) <= a + whole
    BY <1>1, <1>2, <1>3, <1>4, <2>1
  <2> QED BY <1>1, <2>2, QuotientIsMost
<1>6. a \div (n + 1) <= a \div n
  <2> HIDE DEF a, n
  <2>1. n <= n + 1
    BY <1>1
  <2> QED BY <1>1, <2>1, QuotientFalls
<1>7. c + (f + 1) = n + 1 /\ (c + 1) + f = n + 1
  OBVIOUS
<1> HIDE DEF a
<1>8. q \in 0..whole
  BY <1>3
<1> QED BY <1>2, <1>4, <1>5, <1>6, <1>7, <1>8 DEF a
=============================================================================
