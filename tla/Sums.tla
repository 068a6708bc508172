-------------------------------- MODULE Sums --------------------------------
(***************************************************************************)
(* Sums over finite sets, for the balances of accounts, the envelope of a  *)
(* workspace and the milestones of a deal.                                 *)
(*                                                                         *)
(* A sum is the value of a function defined by recursion on subsets, so    *)
(* its laws are shown on a least subset that breaks them.                  *)
(***************************************************************************)
EXTENDS FiniteSetsExt, FiniteSetTheorems, NaturalsInduction, WellFoundedInduction, TLAPS

\* The element a sum takes first.
Some(s) == CHOOSE x \in s : TRUE
\* One step of the recursion, and the function it defines.
Step(f, g, s) == IF s = {} THEN 0 ELSE f[Some(s)] + g[s \ {Some(s)}]
Iter(f, S) == CHOOSE g : g = [s \in SUBSET S |-> Step(f, g, s)]

\* A sum is what the function gives for the whole set.
LEMMA Unfold ==
  ASSUME NEW f, NEW S
  PROVE  SumFunctionOnSet(f, S) = Iter(f, S)[S]
BY DEF SumFunctionOnSet, FoldFunctionOnSet, MapThenFoldSet, Iter, Step, Some

\* A set of subsets of a finite set has a least one.
LEMMA LeastSubset ==
  ASSUME NEW S, IsFiniteSet(S), NEW T \in SUBSET (SUBSET S), T # {}
  PROVE  \E s \in T : \A t \in SUBSET s : t # s => t \notin T
<1>1. IsWellFoundedOn(StrictSubsetOrdering(S), SUBSET S)
  BY FS_StrictSubsetOrderingWellFounded, FS_FiniteSubsetsOfFinite
<1>2. PICK s \in T : \A t \in T : <<t, s>> \notin StrictSubsetOrdering(S)
  BY <1>1, WFMin
<1> QED
  BY <1>2 DEF StrictSubsetOrdering

\* A set of natural numbers that has any has a least one.
LEMMA LeastNat ==
  ASSUME NEW T \in SUBSET Nat, T # {}
  PROVE  \E n \in T : \A m \in T : n <= m
<1> DEFINE Less == {x \in Nat \X Nat : x[1] < x[2]}
<1>1. IsWellFoundedOn(Less, Nat)
  BY NatLessThanWellFounded DEF OpToRel
<1>2. PICK n \in T : \A m \in T : <<m, n>> \notin Less
  <2> HIDE DEF Less
  <2> QED
    BY <1>1, WFMin
<1>3. ASSUME NEW m \in T PROVE n <= m
  <2>1. <<m, n>>[1] = m /\ <<m, n>>[2] = n /\ <<m, n>> \in Nat \X Nat
    OBVIOUS
  <2> QED
    BY <1>2, <2>1
<1> QED
  BY <1>3

\* g follows the recursion up to subsets of n elements.
Follows(g, f, S, n) ==
  \A s \in SUBSET S : Cardinality(s) <= n => g[s] = Step(f, g, s)

\* The element taken first is in the set, and what is left is smaller by one.
LEMMA SomeType ==
  ASSUME NEW S, IsFiniteSet(S), NEW s \in SUBSET S, s # {}
  PROVE  /\ Some(s) \in s
         /\ s \ {Some(s)} \in SUBSET S
         /\ Cardinality(s) \in Nat
         /\ Cardinality(s \ {Some(s)}) = Cardinality(s) - 1
<1>1. Some(s) \in s
  BY DEF Some
<1>2. IsFiniteSet(s)
  BY FS_Subset
<1> QED
  BY <1>1, <1>2, FS_RemoveElement, FS_CardinalityType

\* A step of the recursion over integers gives an integer.
LEMMA StepType ==
  ASSUME NEW S, IsFiniteSet(S), NEW f, \A x \in S : f[x] \in Int,
         NEW g \in [SUBSET S -> Int], NEW s \in SUBSET S
  PROVE  Step(f, g, s) \in Int
<1>1. CASE s = {}
  BY <1>1 DEF Step
<1>2. CASE s # {}
  <2>1. f[Some(s)] \in Int /\ g[s \ {Some(s)}] \in Int
    BY <1>2, SomeType
  <2> QED
    BY <2>1, <1>2 DEF Step
<1> QED
  BY <1>1, <1>2

\* A function that follows the recursion up to n can be taken one further.
LEMMA FollowsMore ==
  ASSUME NEW S, IsFiniteSet(S), NEW f, \A x \in S : f[x] \in Int, NEW n \in Nat,
         NEW g \in [SUBSET S -> Int], Follows(g, f, S, n)
  PROVE  \E h \in [SUBSET S -> Int] : Follows(h, f, S, n + 1)
<1> DEFINE h == [s \in SUBSET S |-> Step(f, g, s)]
<1>1. h \in [SUBSET S -> Int]
  BY StepType
<1>2. ASSUME NEW s \in SUBSET S, Cardinality(s) <= n + 1
      PROVE  h[s] = Step(f, h, s)
  <2>1. CASE s = {}
    BY <2>1 DEF Step
  <2>2. CASE s # {}
    <3>0. /\ s \ {Some(s)} \in SUBSET S
          /\ Cardinality(s) \in Nat /\ Cardinality(s \ {Some(s)}) = Cardinality(s) - 1
      <4> HIDE DEF h
      <4> QED
        BY <2>2, SomeType
    <3>1. s \ {Some(s)} \in SUBSET S /\ Cardinality(s \ {Some(s)}) <= n
      BY <1>2, <3>0
    <3>2. g[s \ {Some(s)}] = Step(f, g, s \ {Some(s)})
      BY <3>1 DEF Follows
    <3>3. h[s \ {Some(s)}] = g[s \ {Some(s)}]
      BY <3>1, <3>2
    <3> QED
      BY <3>3, <2>2 DEF Step
  <2> QED
    BY <2>1, <2>2
<1> HIDE DEF h
<1> QED
  BY <1>1, <1>2 DEF Follows

\* There is a function that follows it all the way.
LEMMA IterExists ==
  ASSUME NEW S, IsFiniteSet(S), NEW f, \A x \in S : f[x] \in Int
  PROVE  \E g \in [SUBSET S -> Int] : \A s \in SUBSET S : g[s] = Step(f, g, s)
<1> DEFINE Bad == {n \in Nat : ~\E g \in [SUBSET S -> Int] : Follows(g, f, S, n)}
<1>1. Bad = {}
  <2> SUFFICES ASSUME Bad # {} PROVE FALSE
    OBVIOUS
  <2>1. PICK n \in Bad : \A m \in Bad : n <= m
    BY LeastNat
  <2>2. CASE n = 0
    <3> DEFINE z == [s \in SUBSET S |-> 0]
    <3>1. ASSUME NEW s \in SUBSET S, Cardinality(s) <= 0
          PROVE  z[s] = Step(f, z, s)
      <4>1. s = {}
        BY <3>1, FS_Subset, FS_CardinalityType, FS_EmptySet
      <4> QED
        BY <4>1 DEF Step
    <3>2. z \in [SUBSET S -> Int] /\ Follows(z, f, S, 0)
      BY <3>1 DEF Follows
    <3> QED
      BY <3>2, <2>1, <2>2
  <2>3. CASE n # 0
    <3>1. n - 1 \in Nat /\ n - 1 \notin Bad
      <4>1. n \in Nat /\ \A m \in Bad : m \in Nat /\ n <= m
        BY <2>1
      <4> HIDE DEF Bad
      <4> QED
        BY <4>1, <2>3
    <3>2. PICK g \in [SUBSET S -> Int] : Follows(g, f, S, n - 1)
      BY <3>1
    <3>3. \E h \in [SUBSET S -> Int] : Follows(h, f, S, n - 1 + 1)
      BY <3>1, <3>2, FollowsMore
    <3>4. n - 1 + 1 = n
      BY <2>1
    <3>5. \E h \in [SUBSET S -> Int] : Follows(h, f, S, n)
      BY <3>3, <3>4
    <3> QED
      BY <3>5, <2>1
  <2> QED
    BY <2>2, <2>3
<1>2. Cardinality(S) \in Nat
  BY FS_CardinalityType
<1>3. PICK g \in [SUBSET S -> Int] : Follows(g, f, S, Cardinality(S))
  BY <1>1, <1>2
<1>4. ASSUME NEW s \in SUBSET S PROVE g[s] = Step(f, g, s)
  BY <1>3, FS_Subset DEF Follows
<1> QED
  BY <1>4

\* So the one that is chosen does.
LEMMA IterStep ==
  ASSUME NEW S, IsFiniteSet(S), NEW f, \A x \in S : f[x] \in Int
  PROVE  /\ DOMAIN Iter(f, S) = SUBSET S
         /\ \A s \in SUBSET S : Iter(f, S)[s] = Step(f, Iter(f, S), s)
<1>1. PICK g \in [SUBSET S -> Int] : \A s \in SUBSET S : g[s] = Step(f, g, s)
  BY IterExists
<1>2. g = [s \in SUBSET S |-> Step(f, g, s)]
  BY <1>1
<1>3. Iter(f, S) = [s \in SUBSET S |-> Step(f, Iter(f, S), s)]
  BY <1>2 DEF Iter
<1> QED
  BY <1>3

\* The function of a set and that of a subset agree on the subset.
LEMMA IterSame ==
  ASSUME NEW S, IsFiniteSet(S), NEW f, \A x \in S : f[x] \in Int, NEW T \in SUBSET S
  PROVE  Iter(f, S)[T] = Iter(f, T)[T]
<1> DEFINE Bad == {s \in SUBSET T : Iter(f, S)[s] # Iter(f, T)[s]}
<1>1. IsFiniteSet(T)
  BY FS_Subset
<1>2. \A s \in SUBSET T : /\ Iter(f, S)[s] = Step(f, Iter(f, S), s)
                         /\ Iter(f, T)[s] = Step(f, Iter(f, T), s)
  BY <1>1, IterStep
<1>3. Bad = {}
  <2> SUFFICES ASSUME Bad # {} PROVE FALSE
    OBVIOUS
  <2>1. PICK s \in Bad : \A t \in SUBSET s : t # s => t \notin Bad
    <3>1. Bad \in SUBSET (SUBSET T)
      OBVIOUS
    <3> HIDE DEF Bad
    <3> QED
      BY <3>1, <1>1, LeastSubset
  <2>2. CASE s = {}
    BY <2>1, <2>2, <1>2 DEF Step
  <2>3. CASE s # {}
    <3>1. Some(s) \in s
      BY <2>3 DEF Some
    <3>2. s \ {Some(s)} \in SUBSET s /\ s \ {Some(s)} # s /\ s \ {Some(s)} \in SUBSET T
      BY <3>1
    <3>3. Iter(f, S)[s \ {Some(s)}] = Iter(f, T)[s \ {Some(s)}]
      BY <2>1, <3>2
    <3> QED
      BY <2>1, <2>3, <3>3, <1>2 DEF Step
  <2> QED
    BY <2>2, <2>3
<1> QED
  BY <1>3

\* A sum is 0 or the element taken first and the sum of the others.
LEMMA SumStep ==
  ASSUME NEW S, IsFiniteSet(S), NEW f, \A x \in S : f[x] \in Int
  PROVE  /\ S = {} => SumFunctionOnSet(f, S) = 0
         /\ S # {} => SumFunctionOnSet(f, S) =
                        f[Some(S)] + SumFunctionOnSet(f, S \ {Some(S)})
<1>1. SumFunctionOnSet(f, S) = Step(f, Iter(f, S), S)
  BY Unfold, IterStep
<1>2. ASSUME S # {}
      PROVE  Iter(f, S)[S \ {Some(S)}] = SumFunctionOnSet(f, S \ {Some(S)})
  BY Unfold, IterSame
<1> QED
  BY <1>1, <1>2 DEF Step

\* A sum of integers is an integer, and of natural numbers a natural number.
LEMMA SumType ==
  ASSUME NEW S, IsFiniteSet(S), NEW f, \A x \in S : f[x] \in Int
  PROVE  /\ SumFunctionOnSet(f, S) \in Int
         /\ (\A x \in S : f[x] >= 0) => SumFunctionOnSet(f, S) >= 0
<1> DEFINE Good(s) == /\ SumFunctionOnSet(f, s) \in Int
                      /\ (\A x \in S : f[x] >= 0) => SumFunctionOnSet(f, s) >= 0
           Bad == {s \in SUBSET S : ~Good(s)}
<1>1. Bad = {}
  <2> SUFFICES ASSUME Bad # {} PROVE FALSE
    OBVIOUS
  <2>1. PICK s \in Bad : \A t \in SUBSET s : t # s => t \notin Bad
    <3>1. Bad \in SUBSET (SUBSET S)
      OBVIOUS
    <3> HIDE DEF Bad
    <3> QED
      BY <3>1, LeastSubset
  <2>2. IsFiniteSet(s) /\ s \in SUBSET S
    BY <2>1, FS_Subset
  <2>3. CASE s = {}
    <3>1. SumFunctionOnSet(f, s) = 0
      BY <2>2, <2>3, SumStep
    <3> QED
      BY <2>1, <3>1
  <2>4. CASE s # {}
    <3>1. Some(s) \in s
      BY <2>4 DEF Some
    <3>2. s \ {Some(s)} \in SUBSET s /\ s \ {Some(s)} # s /\ s \ {Some(s)} \in SUBSET S
      BY <3>1, <2>2
    <3>3. Good(s \ {Some(s)})
      BY <2>1, <3>2
    <3>4. SumFunctionOnSet(f, s) = f[Some(s)] + SumFunctionOnSet(f, s \ {Some(s)})
      BY <2>2, <2>4, SumStep
    <3>5. f[Some(s)] \in Int /\ Some(s) \in S
      BY <3>1, <2>2
    <3>6. Good(s)
      BY <3>3, <3>4, <3>5
    <3> QED
      BY <2>1, <3>6
  <2> QED
    BY <2>3, <2>4
<1>2. S \notin Bad
  BY <1>1
<1> QED
  BY <1>2

\* Any element may be taken out first.
LEMMA SumWithout ==
  ASSUME NEW S, IsFiniteSet(S), NEW f, \A x \in S : f[x] \in Int, NEW x \in S
  PROVE  SumFunctionOnSet(f, S) = f[x] + SumFunctionOnSet(f, S \ {x})
<1> DEFINE Sum(s) == SumFunctionOnSet(f, s)
           Bad == {s \in SUBSET S : \E y \in s : Sum(s) # f[y] + Sum(s \ {y})}
<1>1. Bad = {}
  <2> SUFFICES ASSUME Bad # {} PROVE FALSE
    OBVIOUS
  <2>1. PICK s \in Bad : \A t \in SUBSET s : t # s => t \notin Bad
    <3>1. Bad \in SUBSET (SUBSET S)
      OBVIOUS
    <3> HIDE DEF Bad
    <3> QED
      BY <3>1, LeastSubset
  <2>2. PICK y \in s : Sum(s) # f[y] + Sum(s \ {y})
    BY <2>1
  <2> DEFINE c == Some(s)
  <2>3. IsFiniteSet(s) /\ s \in SUBSET S /\ IsFiniteSet(s \ {y}) /\ IsFiniteSet(s \ {c, y})
    BY <2>1, FS_Subset
  <2>4. c \in s /\ Sum(s) = f[c] + Sum(s \ {c})
    BY <2>2, <2>3, SumStep DEF Some
  <2>5. c # y
    BY <2>2, <2>4
  <2>6. Sum(s \ {c}) = f[y] + Sum((s \ {c}) \ {y})
    <3>1. s \ {c} \in SUBSET S /\ s \ {c} \notin Bad /\ y \in s \ {c}
      BY <2>1, <2>2, <2>3, <2>4, <2>5
    <3> HIDE DEF c, Sum
    <3> QED
      BY <3>1
  <2>7. Sum(s \ {y}) = f[c] + Sum((s \ {y}) \ {c})
    <3>1. s \ {y} \in SUBSET S /\ s \ {y} \notin Bad /\ c \in s \ {y}
      BY <2>1, <2>2, <2>3, <2>4, <2>5
    <3> HIDE DEF c, Sum
    <3> QED
      BY <3>1
  <2>8. (s \ {y}) \ {c} = s \ {c, y} /\ (s \ {c}) \ {y} = s \ {c, y}
    OBVIOUS
  <2>9. f[c] \in Int /\ f[y] \in Int /\ Sum(s \ {c, y}) \in Int
    <3>1. \A z \in s \ {c, y} : f[z] \in Int
      BY <2>3
    <3>2. Sum(s \ {c, y}) \in Int
      BY <2>3, <3>1, SumType
    <3> QED
      BY <3>2, <2>2, <2>3, <2>4
  <2>10. Sum(s) = f[c] + (f[y] + Sum(s \ {c, y}))
    BY <2>4, <2>6, <2>8
  <2>11. Sum(s \ {y}) = f[c] + Sum(s \ {c, y})
    BY <2>7, <2>8
  <2> HIDE DEF c, Sum, Bad
  <2> QED
    BY <2>2, <2>9, <2>10, <2>11
<1>2. S \notin Bad
  BY <1>1
<1> QED
  BY <1>2

\* Where nothing is below zero and the sum is zero, there is nothing.
LEMMA SumNothing ==
  ASSUME NEW S, IsFiniteSet(S), NEW f, \A x \in S : f[x] \in Int,
         \A x \in S : f[x] >= 0, SumFunctionOnSet(f, S) = 0
  PROVE  \A x \in S : f[x] = 0
<1> TAKE x \in S
<1>1. IsFiniteSet(S \ {x}) /\ \A y \in S \ {x} : f[y] \in Int /\ f[y] >= 0
  BY FS_Subset
<1>2. SumFunctionOnSet(f, S \ {x}) \in Int /\ SumFunctionOnSet(f, S \ {x}) >= 0
  BY <1>1, SumType
<1>3. SumFunctionOnSet(f, S) = f[x] + SumFunctionOnSet(f, S \ {x})
  BY SumWithout
<1> QED
  BY <1>2, <1>3

\* Equal summands have equal sums.
LEMMA SumSame ==
  ASSUME NEW S, IsFiniteSet(S), NEW f, NEW g, \A x \in S : f[x] \in Int /\ f[x] = g[x]
  PROVE  SumFunctionOnSet(f, S) = SumFunctionOnSet(g, S)
<1> DEFINE Bad == {s \in SUBSET S : SumFunctionOnSet(f, s) # SumFunctionOnSet(g, s)}
<1>1. Bad = {}
  <2> SUFFICES ASSUME Bad # {} PROVE FALSE
    OBVIOUS
  <2>1. PICK s \in Bad : \A t \in SUBSET s : t # s => t \notin Bad
    <3>1. Bad \in SUBSET (SUBSET S)
      OBVIOUS
    <3> HIDE DEF Bad
    <3> QED
      BY <3>1, LeastSubset
  <2>2. IsFiniteSet(s) /\ s \in SUBSET S /\ s \ {Some(s)} \in SUBSET S
    BY <2>1, FS_Subset
  <2>3. \A x \in s : f[x] \in Int /\ g[x] \in Int /\ f[x] = g[x]
    BY <2>2
  <2>4. CASE s = {}
    <3>1. SumFunctionOnSet(f, s) = 0 /\ SumFunctionOnSet(g, s) = 0
      BY <2>2, <2>3, <2>4, SumStep
    <3> QED
      BY <2>1, <3>1
  <2>5. CASE s # {}
    <3>1. Some(s) \in s
      BY <2>5 DEF Some
    <3>2. /\ SumFunctionOnSet(f, s) = f[Some(s)] + SumFunctionOnSet(f, s \ {Some(s)})
          /\ SumFunctionOnSet(g, s) = g[Some(s)] + SumFunctionOnSet(g, s \ {Some(s)})
      BY <2>2, <2>3, <2>5, SumStep
    <3>3. s \ {Some(s)} \notin Bad
      BY <2>1, <3>1
    <3> QED
      BY <2>1, <2>2, <2>3, <3>1, <3>2, <3>3
  <2> QED
    BY <2>4, <2>5
<1>2. S \notin Bad
  BY <1>1
<1> QED
  BY <1>2

\* Nothing sums to nothing.
LEMMA SumOfZeros ==
  ASSUME NEW S, IsFiniteSet(S), NEW f, \A x \in S : f[x] = 0
  PROVE  SumFunctionOnSet(f, S) = 0
<1> DEFINE Bad == {s \in SUBSET S : SumFunctionOnSet(f, s) # 0}
<1>1. Bad = {}
  <2> SUFFICES ASSUME Bad # {} PROVE FALSE
    OBVIOUS
  <2>1. PICK s \in Bad : \A t \in SUBSET s : t # s => t \notin Bad
    <3>1. Bad \in SUBSET (SUBSET S)
      OBVIOUS
    <3> HIDE DEF Bad
    <3> QED
      BY <3>1, LeastSubset
  <2>2. IsFiniteSet(s) /\ s \in SUBSET S /\ \A x \in s : f[x] \in Int
    BY <2>1, FS_Subset
  <2>3. s # {} /\ Some(s) \in s
    BY <2>1, <2>2, SumStep DEF Some
  <2>4. SumFunctionOnSet(f, s) = f[Some(s)] + SumFunctionOnSet(f, s \ {Some(s)})
    BY <2>2, <2>3, SumStep
  <2>5. s \ {Some(s)} \in SUBSET S /\ s \ {Some(s)} \notin Bad
    BY <2>1, <2>2, <2>3
  <2> QED
    BY <2>1, <2>2, <2>3, <2>4, <2>5
<1>2. S \notin Bad
  BY <1>1
<1> QED
  BY <1>2

\* A change at one element changes the sum by as much.
LEMMA SumChange ==
  ASSUME NEW S, IsFiniteSet(S), NEW f, NEW g, NEW x \in S,
         \A y \in S : f[y] \in Int, \A y \in S : g[y] \in Int,
         \A y \in S \ {x} : g[y] = f[y]
  PROVE  SumFunctionOnSet(g, S) = SumFunctionOnSet(f, S) + g[x] - f[x]
<1>1. IsFiniteSet(S \ {x})
  BY FS_Subset
<1>2. \A y \in S \ {x} : f[y] \in Int /\ f[y] = g[y]
  OBVIOUS
<1>3. SumFunctionOnSet(f, S \ {x}) = SumFunctionOnSet(g, S \ {x})
  BY <1>1, <1>2, SumSame
<1>4. SumFunctionOnSet(f, S \ {x}) \in Int
  BY <1>1, <1>2, SumType
<1>5. SumFunctionOnSet(f, S) = f[x] + SumFunctionOnSet(f, S \ {x})
  BY SumWithout
<1>6. SumFunctionOnSet(g, S) = g[x] + SumFunctionOnSet(g, S \ {x})
  BY SumWithout
<1> QED
  BY <1>3, <1>4, <1>5, <1>6

\* Fewer natural numbers sum to no more.
LEMMA SumSubset ==
  ASSUME NEW S, IsFiniteSet(S), NEW f, \A x \in S : f[x] \in Nat, NEW T \in SUBSET S
  PROVE  SumFunctionOnSet(f, T) <= SumFunctionOnSet(f, S)
<1> DEFINE Sum(s) == SumFunctionOnSet(f, s)
           Bad == {s \in SUBSET S : \E t \in SUBSET s : ~(Sum(t) <= Sum(s))}
<1>1. \A s \in SUBSET S : Sum(s) \in Nat
  <2> TAKE s \in SUBSET S
  <2>1. IsFiniteSet(s) /\ \A x \in s : f[x] \in Int /\ f[x] >= 0
    BY FS_Subset
  <2> QED
    BY <2>1, SumType
<1>2. Bad = {}
  <2> SUFFICES ASSUME Bad # {} PROVE FALSE
    OBVIOUS
  <2>1. PICK s \in Bad : \A t \in SUBSET s : t # s => t \notin Bad
    <3>1. Bad \in SUBSET (SUBSET S)
      OBVIOUS
    <3> HIDE DEF Bad
    <3> QED
      BY <3>1, LeastSubset
  <2>2. PICK t \in SUBSET s : ~(Sum(t) <= Sum(s))
    BY <2>1
  <2>3. s \in SUBSET S /\ t \in SUBSET S /\ Sum(s) \in Nat /\ Sum(t) \in Nat
    BY <2>1, <1>1
  <2>4. t # s
    <3> HIDE DEF Sum
    <3> QED
      BY <2>2, <2>3
  <2>5. PICK x \in s : x \notin t
    BY <2>4
  <2>6. t \in SUBSET (s \ {x}) /\ s \ {x} \in SUBSET s /\ s \ {x} # s
    BY <2>5
  <2>7. Sum(t) <= Sum(s \ {x})
    <3>1. s \ {x} \notin Bad /\ s \ {x} \in SUBSET S
      BY <2>1, <2>6
    <3> HIDE DEF Sum
    <3> QED
      BY <3>1, <2>6
  <2>8. Sum(s) = f[x] + Sum(s \ {x})
    <3>1. IsFiniteSet(s) /\ \A y \in s : f[y] \in Int
      BY <2>3, FS_Subset
    <3> QED
      BY <3>1, SumWithout
  <2>9. f[x] \in Nat /\ Sum(s \ {x}) \in Nat
    BY <2>3, <2>6, <1>1
  <2> HIDE DEF Sum, Bad
  <2> QED
    BY <2>2, <2>3, <2>7, <2>8, <2>9
<1>3. S \notin Bad
  BY <1>2
<1> QED
  BY <1>3

\* A sum is the sum of its two parts.
LEMMA SumSplit ==
  ASSUME NEW S, IsFiniteSet(S), NEW f, \A x \in S : f[x] \in Int, NEW T \in SUBSET S
  PROVE  SumFunctionOnSet(f, S) = SumFunctionOnSet(f, T) + SumFunctionOnSet(f, S \ T)
<1> DEFINE Sum(s) == SumFunctionOnSet(f, s)
           Bad == {t \in SUBSET S : Sum(S) # Sum(t) + Sum(S \ t)}
<1>1. \A t \in SUBSET S : IsFiniteSet(t) /\ Sum(t) \in Int
  BY FS_Subset, SumType
<1>2. Bad = {}
  <2> SUFFICES ASSUME Bad # {} PROVE FALSE
    OBVIOUS
  <2>1. PICK t \in Bad : \A u \in SUBSET t : u # t => u \notin Bad
    <3>1. Bad \in SUBSET (SUBSET S)
      OBVIOUS
    <3> HIDE DEF Bad
    <3> QED
      BY <3>1, LeastSubset
  <2>2. CASE t = {}
    <3>1. Sum({}) = 0 /\ S \ {} = S
      BY SumOfZeros, FS_EmptySet
    <3>2. Sum(S) \in Int
      BY <1>1
    <3>3. Sum(S) = Sum({}) + Sum(S \ {})
      <4> HIDE DEF Sum
      <4> QED
        BY <3>1, <3>2
    <3> QED
      BY <2>1, <2>2, <3>3
  <2>3. CASE t # {}
    <3>1. PICK x \in t : TRUE
      BY <2>3
    <3>2. t \in SUBSET S /\ x \in S /\ f[x] \in Int
      BY <2>1, <3>1
    <3>3. t \ {x} \in SUBSET S /\ t \ {x} \notin Bad
      BY <2>1, <3>1
    <3>4. Sum(S) = Sum(t \ {x}) + Sum(S \ (t \ {x}))
      BY <3>3
    <3>5. Sum(t) = f[x] + Sum(t \ {x})
      BY <1>1, <3>1, <3>2, SumWithout
    <3>6. S \ (t \ {x}) \in SUBSET S /\ x \in S \ (t \ {x})
      BY <3>1, <3>2
    <3>7. (S \ (t \ {x})) \ {x} = S \ t
      BY <3>1, <3>2
    <3>8. Sum(S \ (t \ {x})) = f[x] + Sum(S \ t)
      BY <1>1, <3>6, <3>7, SumWithout
    <3>9. Sum(t \ {x}) \in Int /\ Sum(S \ t) \in Int
      BY <1>1, <3>3
    <3>10. Sum(S) = Sum(t) + Sum(S \ t)
      <4> HIDE DEF Sum
      <4> QED
        BY <3>2, <3>4, <3>5, <3>8, <3>9
    <3> QED
      BY <2>1, <3>10
  <2> QED
    BY <2>2, <2>3
<1>3. T \notin Bad
  BY <1>2
<1> QED
  BY <1>3

\* Summands that are a combination of two others sum to the combination of the
\* two sums.
LEMMA SumLinear ==
  ASSUME NEW S, IsFiniteSet(S), NEW f, NEW g, NEW h, NEW c \in Int,
         \A x \in S : f[x] \in Int, \A x \in S : g[x] \in Int,
         \A x \in S : h[x] = c * f[x] + g[x]
  PROVE  SumFunctionOnSet(h, S) = c * SumFunctionOnSet(f, S) + SumFunctionOnSet(g, S)
<1> DEFINE F(s) == SumFunctionOnSet(f, s)
           G(s) == SumFunctionOnSet(g, s)
           H(s) == SumFunctionOnSet(h, s)
           Bad == {s \in SUBSET S : H(s) # c * F(s) + G(s)}
<1>1. \A x \in S : h[x] \in Int
  OBVIOUS
<1>2. \A s \in SUBSET S : IsFiniteSet(s) /\ F(s) \in Int /\ G(s) \in Int
  BY FS_Subset, SumType
<1>3. Bad = {}
  <2> SUFFICES ASSUME Bad # {} PROVE FALSE
    OBVIOUS
  <2>1. PICK s \in Bad : \A t \in SUBSET s : t # s => t \notin Bad
    <3>1. Bad \in SUBSET (SUBSET S)
      OBVIOUS
    <3> HIDE DEF Bad
    <3> QED
      BY <3>1, LeastSubset
  <2>2. IsFiniteSet(s) /\ s \in SUBSET S
    BY <1>2, <2>1
  <2>3. CASE s = {}
    <3>1. F(s) = 0 /\ G(s) = 0 /\ H(s) = 0
      BY <2>2, <2>3, SumOfZeros
    <3>2. H(s) = c * F(s) + G(s)
      <4> HIDE DEF F, G, H
      <4> QED
        BY <3>1
    <3> QED
      BY <2>1, <3>2
  <2>4. CASE s # {}
    <3>1. PICK x \in s : TRUE
      BY <2>4
    <3>2. x \in S /\ f[x] \in Int /\ g[x] \in Int /\ h[x] = c * f[x] + g[x]
      BY <2>2, <3>1
    <3>3. s \ {x} \in SUBSET S /\ s \ {x} \notin Bad
      BY <2>1, <2>2, <3>1
    <3>4. H(s \ {x}) = c * F(s \ {x}) + G(s \ {x})
      BY <3>3
    <3>5. F(s) = f[x] + F(s \ {x})
      BY <2>2, <3>1, SumWithout
    <3>6. G(s) = g[x] + G(s \ {x})
      BY <2>2, <3>1, SumWithout
    <3>7. H(s) = h[x] + H(s \ {x})
      BY <1>1, <2>2, <3>1, SumWithout
    <3>8. F(s \ {x}) \in Int /\ G(s \ {x}) \in Int
      BY <1>2, <3>3
    <3>9. H(s) = c * F(s) + G(s)
      <4> HIDE DEF F, G, H
      <4>1. c * (f[x] + F(s \ {x})) = c * f[x] + c * F(s \ {x})
        BY <3>2, <3>8
      <4>2. c * f[x] \in Int /\ c * F(s \ {x}) \in Int
        BY <3>2, <3>8
      <4> QED
        BY <3>2, <3>4, <3>5, <3>6, <3>7, <3>8, <4>1, <4>2
    <3> QED
      BY <2>1, <3>9
  <2> QED
    BY <2>3, <2>4
<1>4. S \notin Bad
  BY <1>3
<1> QED
  BY <1>4

\* Summands that are all the same sum to that many times as much.
LEMMA SumOfConstant ==
  ASSUME NEW S, IsFiniteSet(S), NEW f, NEW c \in Int, \A x \in S : f[x] = c
  PROVE  SumFunctionOnSet(f, S) = c * Cardinality(S)
<1> DEFINE Sum(s) == SumFunctionOnSet(f, s)
           Bad == {s \in SUBSET S : Sum(s) # c * Cardinality(s)}
<1>1. \A x \in S : f[x] \in Int
  OBVIOUS
<1>2. \A s \in SUBSET S : IsFiniteSet(s) /\ Cardinality(s) \in Nat
  BY FS_Subset, FS_CardinalityType
<1>3. Bad = {}
  <2> SUFFICES ASSUME Bad # {} PROVE FALSE
    OBVIOUS
  <2>1. PICK s \in Bad : \A t \in SUBSET s : t # s => t \notin Bad
    <3>1. Bad \in SUBSET (SUBSET S)
      OBVIOUS
    <3> HIDE DEF Bad
    <3> QED
      BY <3>1, LeastSubset
  <2>2. IsFiniteSet(s) /\ s \in SUBSET S
    BY <1>2, <2>1
  <2>3. CASE s = {}
    <3>1. Sum(s) = 0 /\ Cardinality(s) = 0 /\ c * 0 = 0
      BY <2>2, <2>3, SumOfZeros, FS_EmptySet
    <3> QED
      BY <2>1, <3>1
  <2>4. CASE s # {}
    <3>1. PICK x \in s : TRUE
      BY <2>4
    <3>2. s \ {x} \in SUBSET S /\ s \ {x} \notin Bad
      BY <2>1, <2>2, <3>1
    <3>3. Sum(s \ {x}) = c * Cardinality(s \ {x})
      BY <3>2
    <3>4. Sum(s) = c + Sum(s \ {x})
      BY <1>1, <2>2, <3>1, SumWithout
    <3>5. Cardinality(s \ {x}) = Cardinality(s) - 1 /\ Cardinality(s) \in Nat
      BY <1>2, <2>2, <3>1, FS_RemoveElement
    <3>6. c * (Cardinality(s) - 1) = c * Cardinality(s) - c /\ c * Cardinality(s) \in Int
      BY <3>5
    <3>7. Sum(s) = c * Cardinality(s)
      <4> HIDE DEF Sum
      <4> QED
        BY <3>3, <3>4, <3>5, <3>6
    <3> QED
      BY <2>1, <3>7
  <2> QED
    BY <2>3, <2>4
<1>4. S \notin Bad
  BY <1>3
<1> QED
  BY <1>4

\* Counting the elements of a part.
LEMMA SumCounts ==
  ASSUME NEW S, IsFiniteSet(S), NEW T \in SUBSET S, NEW f,
         \A x \in S : f[x] = IF x \in T THEN 1 ELSE 0
  PROVE  SumFunctionOnSet(f, S) = Cardinality(T)
<1>1. IsFiniteSet(T) /\ IsFiniteSet(S \ T) /\ Cardinality(T) \in Nat
  BY FS_Subset, FS_CardinalityType
<1>2. SumFunctionOnSet(f, T) = 1 * Cardinality(T)
  BY <1>1, SumOfConstant
<1>3. SumFunctionOnSet(f, S \ T) = 0
  BY <1>1, SumOfZeros
<1>4. SumFunctionOnSet(f, S) = SumFunctionOnSet(f, T) + SumFunctionOnSet(f, S \ T)
  BY SumSplit
<1> QED
  BY <1>1, <1>2, <1>3, <1>4

\* Summands that are no greater sum to no more.
LEMMA SumBound ==
  ASSUME NEW S, IsFiniteSet(S), NEW f, NEW c \in Int,
         \A x \in S : f[x] \in Int, \A x \in S : f[x] <= c
  PROVE  SumFunctionOnSet(f, S) <= c * Cardinality(S)
<1> DEFINE top == [x \in S |-> c]
           gap == [x \in S |-> c - f[x]]
<1>1. \A x \in S : gap[x] \in Int /\ gap[x] >= 0
  OBVIOUS
<1>2. \A x \in S : top[x] = c
  OBVIOUS
<1>3. \A x \in S : top[x] = 1 * f[x] + gap[x]
  OBVIOUS
<1> HIDE DEF top, gap
<1>4. SumFunctionOnSet(top, S) = c * Cardinality(S)
  BY <1>2, SumOfConstant
<1>5. SumFunctionOnSet(top, S) = 1 * SumFunctionOnSet(f, S) + SumFunctionOnSet(gap, S)
  BY <1>1, <1>3, SumLinear
<1>6. SumFunctionOnSet(f, S) \in Int
  BY SumType
<1>7. SumFunctionOnSet(gap, S) \in Int /\ SumFunctionOnSet(gap, S) >= 0
  BY <1>1, SumType
<1> QED
  BY <1>4, <1>5, <1>6, <1>7

\* Of a ranking without ties, exactly n have fewer than n ahead of them.
LEMMA RanksFill ==
  ASSUME NEW S, IsFiniteSet(S), NEW ahead \in [S -> SUBSET S],
         \A i \in S : i \notin ahead[i],
         \A i, j \in S : i # j => i \in ahead[j] \/ j \in ahead[i],
         \A i, j \in S : i \in ahead[j] => ahead[i] \subseteq ahead[j],
         NEW n \in 0..Cardinality(S)
  PROVE  Cardinality({i \in S : Cardinality(ahead[i]) < n}) = n
<1> DEFINE N == Cardinality(S)
           rank == [i \in S |-> Cardinality(ahead[i])]
           T == {i \in S : Cardinality(ahead[i]) < n}
<1>1. N \in Nat /\ \A i \in S : IsFiniteSet(ahead[i]) /\ rank[i] \in Nat
  BY FS_CardinalityType, FS_Subset
<1>2. \A i \in S : rank[i] < N
  <2> TAKE i \in S
  <2>1. IsFiniteSet(S \ {i}) /\ Cardinality(S \ {i}) = N - 1
    BY FS_RemoveElement
  <2>2. Cardinality(ahead[i]) <= Cardinality(S \ {i})
    <3>1. ahead[i] \in SUBSET (S \ {i})
      OBVIOUS
    <3> QED
      BY <2>1, <3>1, FS_Subset
  <2> QED
    BY <1>1, <2>1, <2>2
<1>3. ASSUME NEW i \in S, NEW j \in S, i \in ahead[j] PROVE rank[i] < rank[j]
  <2>1. ahead[i] \cup {i} \in SUBSET ahead[j]
    BY <1>3
  <2>2. Cardinality(ahead[i] \cup {i}) = Cardinality(ahead[i]) + 1
    BY <1>1, FS_AddElement
  <2>3. Cardinality(ahead[i] \cup {i}) <= Cardinality(ahead[j])
    BY <1>1, <2>1, FS_Subset
  <2> QED
    BY <1>1, <2>2, <2>3
<1>4. ASSUME NEW i \in S, NEW j \in S, rank[i] = rank[j] PROVE i = j
  BY <1>1, <1>3, <1>4
<1>5. \A i \in S : rank[i] \in 0..N-1
  BY <1>1, <1>2
<1>6. rank \in Injection(S, 0..N-1)
  <2>1. rank \in [S -> 0..N-1]
    BY <1>5
  <2> QED
    BY <1>4, <2>1 DEF Injection, IsInjective
<1>7. \A k \in Nat : IsFiniteSet(0..k-1) /\ Cardinality(0..k-1) = k
  <2> TAKE k \in Nat
  <2>1. 0 \in Int /\ k - 1 \in Int
    OBVIOUS
  <2>2. IsFiniteSet(0..k-1) /\ Cardinality(0..k-1) = IF 0 > k-1 THEN 0 ELSE k-1 - 0 + 1
    BY <2>1, FS_Interval
  <2> QED
    BY <2>2
<1>8. rank \in Surjection(S, 0..N-1)
  <2> HIDE DEF rank
  <2> QED
    BY <1>1, <1>6, <1>7, FS_Injection
<1>9. \A k \in 0..N-1 : \E i \in S : rank[i] = k
  BY <1>8 DEF Surjection
<1> DEFINE placed == [i \in T |-> rank[i]]
<1>10. placed \in Bijection(T, 0..n-1)
  <2>1. \A i \in T : i \in S /\ rank[i] < n /\ rank[i] \in Nat /\ placed[i] = rank[i]
    BY <1>1
  <2>2. placed \in [T -> 0..n-1]
    BY <2>1
  <2>3. \A i, j \in T : placed[i] = placed[j] => i = j
    BY <1>4, <2>1
  <2>4. \A k \in 0..n-1 : \E i \in T : placed[i] = k
    <3> TAKE k \in 0..n-1
    <3>1. k \in 0..N-1
      BY <1>1
    <3>2. PICK i \in S : rank[i] = k
      BY <1>9, <3>1
    <3>3. i \in T
      BY <3>2
    <3> QED
      BY <2>1, <3>2, <3>3
  <2> HIDE DEF placed
  <2> QED
    BY <2>2, <2>3, <2>4 DEF Bijection, Injection, Surjection, IsInjective
<1>11. ExistsBijection(T, 0..n-1) /\ IsFiniteSet(T)
  BY <1>10, FS_Subset DEF ExistsBijection
<1>12. Cardinality(0..n-1) = Cardinality(T)
  <2> HIDE DEF T
  <2> QED
    BY <1>11, FS_Bijection
<1> QED
  BY <1>1, <1>7, <1>12

\* A finite set of numbers that has any has a greatest.
LEMMA MaxType ==
  ASSUME NEW S \in SUBSET Int, IsFiniteSet(S), S # {}
  PROVE  Max(S) \in S /\ \A x \in S : x <= Max(S)
<1> DEFINE Top(s) == \E x \in s : \A y \in s : y <= x
           Bad == {s \in SUBSET S : s # {} /\ ~Top(s)}
<1>1. Bad = {}
  <2> SUFFICES ASSUME Bad # {} PROVE FALSE
    OBVIOUS
  <2>1. PICK s \in Bad : \A t \in SUBSET s : t # s => t \notin Bad
    <3>1. Bad \in SUBSET (SUBSET S)
      OBVIOUS
    <3> HIDE DEF Bad
    <3> QED
      BY <3>1, LeastSubset
  <2>2. PICK x \in s : TRUE
    BY <2>1
  <2>3. CASE s = {x}
    BY <2>1, <2>3
  <2>4. CASE s # {x}
    <3>1. s \ {x} \in SUBSET s /\ s \ {x} # s /\ s \ {x} # {} /\ s \ {x} \in SUBSET S
      BY <2>1, <2>2, <2>4
    <3>2. Top(s \ {x})
      BY <2>1, <3>1
    <3>3. PICK z \in s \ {x} : \A y \in s \ {x} : y <= z
      BY <3>2
    <3>4. \A y \in s : y \in Int
      BY <2>1
    <3>5. CASE x <= z
      BY <3>3, <3>4, <3>5, <2>1
    <3>6. CASE ~(x <= z)
      <4>1. \A y \in s : y <= x
        BY <3>3, <3>4, <3>6
      <4> QED
        BY <4>1, <2>1, <2>2
    <3> QED
      BY <3>5, <3>6
  <2> QED
    BY <2>3, <2>4
<1>2. \E x \in S : \A y \in S : x >= y
  <2>1. Top(S)
    BY <1>1
  <2> QED
    BY <2>1
<1> QED
  BY <1>2 DEF Max
=============================================================================
