---------------------------------- MODULE Sums ----------------------------------
(***************************************************************************)
(* Facts about SumFunctionOnSet, for the proofs about money: what a sum    *)
(* over a finite set is does not depend on the order of its elements.      *)
(***************************************************************************)
EXTENDS Integers, FiniteSets, Functions, FiniteSetTheorems, WellFoundedInduction, TLAPS

\* Sets of subsets of a finite set have minimal elements, which is induction.
LEMMA SmallestSubset ==
  ASSUME NEW S, IsFiniteSet(S), NEW B \in SUBSET SUBSET S, B # {}
  PROVE  \E m \in B : \A s \in B : s \subseteq m => s = m
<1>1. B \subseteq FiniteSubsetsOf(S)
  BY FS_Subset DEF FiniteSubsetsOf
<1>2. PICK m \in B : \A s \in B : <<s, m>> \notin StrictSubsetOrdering(S)
  BY <1>1, FS_StrictSubsetOrderingWellFounded, WFMin
<1>3. ASSUME NEW s \in B, s \subseteq m, s # m PROVE FALSE
  <2>1. <<s, m>> \in StrictSubsetOrdering(S)
    BY <1>3 DEF StrictSubsetOrdering
  <2> QED BY <1>2, <2>1
<1>4. \A s \in B : s \subseteq m => s = m
  BY <1>3
<1> QED BY <1>4

LEMMA SubsetInduction ==
  ASSUME NEW S, IsFiniteSet(S), NEW G, {} \in G,
         \A s \in SUBSET S : s # {} /\ (\A x \in s : s \ {x} \in G) => s \in G
  PROVE  S \in G
<1> SUFFICES ASSUME S \notin G PROVE FALSE
  OBVIOUS
<1> DEFINE B == (SUBSET S) \ G
<1>1. PICK m \in B : \A s \in B : s \subseteq m => s = m
  <2>1. B \in SUBSET SUBSET S /\ B # {}
    OBVIOUS
  <2> HIDE DEF B
  <2> QED BY <2>1, SmallestSubset
<1>2. m # {}
  BY <1>1
<1>3. ASSUME NEW x \in m PROVE m \ {x} \in G
  BY <1>1
<1> QED BY <1>1, <1>2, <1>3

---------------------------------------------------------------------------------
(* The recursion that SumFunctionOnSet solves *)

Least(s) == CHOOSE x \in s : TRUE
Rest(s) == s \ {Least(s)}
Recursion(iter, f, S) ==
  iter = [s \in SUBSET S |-> IF s = {} THEN 0 ELSE f[Least(s)] + iter[Rest(s)]]
Solution(f, S) == CHOOSE iter : Recursion(iter, f, S)

LEMMA SumIsSolution ==
  ASSUME NEW f, NEW S
  PROVE  SumFunctionOnSet(f, S) = Solution(f, S)[S]
BY DEF SumFunctionOnSet, FoldFunctionOnSet, MapThenFoldSet, Recursion, Least, Rest, Solution

LEMMA LeastIsIn == ASSUME NEW s, s # {} PROVE Least(s) \in s
BY DEF Least

LEMMA RecursionUnfolds ==
  ASSUME NEW f, NEW S, NEW iter, Recursion(iter, f, S)
  PROVE  /\ iter[{}] = 0
         /\ \A s \in SUBSET S : s # {} => iter[s] = f[Least(s)] + iter[Rest(s)]
<1>1. ASSUME NEW s \in SUBSET S
      PROVE  iter[s] = IF s = {} THEN 0 ELSE f[Least(s)] + iter[Rest(s)]
  BY Zenon DEF Recursion
<1> QED BY <1>1

LEMMA SolutionsAgree ==
  ASSUME NEW f, NEW S, NEW T, NEW g, NEW h, Recursion(g, f, S), Recursion(h, f, T),
         NEW s, IsFiniteSet(s), s \subseteq S, s \subseteq T
  PROVE  g[s] = h[s]
<1> DEFINE G == {t \in SUBSET s : g[t] = h[t]}
<1>1. {} \in G
  BY RecursionUnfolds
<1>2. ASSUME NEW t \in SUBSET s, t # {}, \A x \in t : t \ {x} \in G
      PROVE  t \in G
  <2>1. Least(t) \in t /\ t \in SUBSET S /\ t \in SUBSET T
    BY <1>2, LeastIsIn
  <2>2. g[t] = f[Least(t)] + g[Rest(t)]
    BY <1>2, <2>1, RecursionUnfolds
  <2>3. h[t] = f[Least(t)] + h[Rest(t)]
    BY <1>2, <2>1, RecursionUnfolds
  <2>4. g[Rest(t)] = h[Rest(t)]
    BY <1>2, <2>1 DEF Rest
  <2> QED BY <2>2, <2>3, <2>4
<1> HIDE DEF G
<1>3. s \in G
  BY <1>1, <1>2, SubsetInduction
<1> QED BY <1>3 DEF G

LEMMA SolutionOfLarger ==
  ASSUME NEW f, NEW S, IsFiniteSet(S),
         \A s \in SUBSET S : s # S => Recursion(Solution(f, s), f, s)
  PROVE  Recursion(Solution(f, S), f, S)
<1> DEFINE value(s) == IF s = {} THEN 0 ELSE f[Least(s)] + Solution(f, Rest(s))[Rest(s)]
           h == [s \in SUBSET S |-> value(s)]
<1>1. ASSUME NEW s \in SUBSET S, s # {}
      PROVE  value(Rest(s)) = Solution(f, Rest(s))[Rest(s)]
  <2>1. Rest(s) \in SUBSET S /\ Rest(s) # S
    BY <1>1, LeastIsIn DEF Rest
  <2>2. Recursion(Solution(f, Rest(s)), f, Rest(s))
    BY <2>1
  <2>3. CASE Rest(s) = {}
    BY <2>2, <2>3, RecursionUnfolds
  <2>4. CASE Rest(s) # {}
    <3> DEFINE t == Rest(s)
               r == Rest(t)
    <3>1. r \in SUBSET S /\ r # S /\ r \subseteq t /\ IsFiniteSet(r)
      BY <2>1, FS_Subset DEF Rest
    <3>2. Recursion(Solution(f, r), f, r)
      BY <3>1
    <3>3. Solution(f, t)[r] = Solution(f, r)[r]
      <4> HIDE DEF t, r
      <4>1. Recursion(Solution(f, t), f, t)
        BY <2>2 DEF t
      <4> QED BY <4>1, <3>1, <3>2, SolutionsAgree
    <3>4. Solution(f, t)[t] = f[Least(t)] + Solution(f, t)[r]
      <4> HIDE DEF t
      <4>1. Recursion(Solution(f, t), f, t) /\ t # {}
        BY <2>2, <2>4 DEF t
      <4> QED BY <4>1, RecursionUnfolds
    <3> QED BY <2>4, <3>3, <3>4
  <2> QED BY <2>3, <2>4
<1>2. ASSUME NEW s \in SUBSET S
      PROVE  value(s) = IF s = {} THEN 0 ELSE f[Least(s)] + h[Rest(s)]
  <2>1. CASE s = {}
    BY <2>1
  <2>2. CASE s # {}
    <3>1. Rest(s) \in SUBSET S
      BY DEF Rest
    <3>2. h[Rest(s)] = value(Rest(s))
      <4> HIDE DEF value
      <4> QED BY <3>1
    <3> QED BY <1>1, <2>2, <3>2
  <2> QED BY <2>1, <2>2
<1>3. h = [s \in SUBSET S |-> IF s = {} THEN 0 ELSE f[Least(s)] + h[Rest(s)]]
  <2> DEFINE next(s) == IF s = {} THEN 0 ELSE f[Least(s)] + h[Rest(s)]
  <2>1. \A s \in SUBSET S : value(s) = next(s)
    BY <1>2
  <2> HIDE DEF value, next
  <2>2. [s \in SUBSET S |-> value(s)] = [s \in SUBSET S |-> next(s)]
    BY <2>1
  <2> QED BY <2>2 DEF next
<1>4. \E iter : Recursion(iter, f, S)
  <2>1. Recursion(h, f, S)
    <3> HIDE DEF h
    <3> QED BY <1>3 DEF Recursion
  <2> QED BY <2>1
<1> QED BY <1>4, Zenon DEF Solution

LEMMA SolutionExists ==
  ASSUME NEW f, NEW S, IsFiniteSet(S)
  PROVE  Recursion(Solution(f, S), f, S)
<1> DEFINE B == {s \in SUBSET S : ~ Recursion(Solution(f, s), f, s)}
<1> SUFFICES ASSUME B # {} PROVE FALSE
  OBVIOUS
<1>1. PICK m \in B : \A s \in B : s \subseteq m => s = m
  <2>1. B \in SUBSET SUBSET S
    OBVIOUS
  <2> HIDE DEF B
  <2> QED BY <2>1, SmallestSubset
<1>2. \A s \in SUBSET m : s # m => Recursion(Solution(f, s), f, s)
  BY <1>1
<1>3. IsFiniteSet(m)
  BY FS_Subset
<1> QED BY <1>1, <1>2, <1>3, SolutionOfLarger

---------------------------------------------------------------------------------
(* Sums *)

\* Nothing adds up to 0, and a sum is some element more than the sum of the others.
LEMMA SumUnfolds ==
  ASSUME NEW f, NEW S, IsFiniteSet(S)
  PROVE  /\ SumFunctionOnSet(f, {}) = 0
         /\ S # {} => \E x \in S : SumFunctionOnSet(f, S) = f[x] + SumFunctionOnSet(f, S \ {x})
<1>1. SumFunctionOnSet(f, {}) = 0
  BY FS_EmptySet, SolutionExists, RecursionUnfolds, SumIsSolution
<1>2. ASSUME S # {} PROVE SumFunctionOnSet(f, S) = f[Least(S)] + SumFunctionOnSet(f, Rest(S))
  <2>1. Recursion(Solution(f, S), f, S) /\ Recursion(Solution(f, Rest(S)), f, Rest(S))
    BY SolutionExists, FS_RemoveElement DEF Rest
  <2>2. Solution(f, S)[S] = f[Least(S)] + Solution(f, S)[Rest(S)]
    BY <1>2, <2>1, RecursionUnfolds
  <2>3. Rest(S) \subseteq S /\ IsFiniteSet(Rest(S))
    BY FS_RemoveElement DEF Rest
  <2>4. Solution(f, S)[Rest(S)] = Solution(f, Rest(S))[Rest(S)]
    BY <2>1, <2>3, SolutionsAgree
  <2> QED BY <2>2, <2>4, SumIsSolution
<1>3. S # {} => Least(S) \in S /\ Rest(S) = S \ {Least(S)}
  BY LeastIsIn DEF Rest
<1> QED BY <1>1, <1>2, <1>3

LEMMA SumType ==
  ASSUME NEW f, NEW S, IsFiniteSet(S), \A x \in S : f[x] \in Int
  PROVE  SumFunctionOnSet(f, S) \in Int
<1> DEFINE G == {s \in SUBSET S : SumFunctionOnSet(f, s) \in Int}
<1>1. {} \in G
  BY FS_EmptySet, SumUnfolds
<1>2. ASSUME NEW s \in SUBSET S, s # {}, \A x \in s : s \ {x} \in G PROVE s \in G
  <2>1. PICK x \in s : SumFunctionOnSet(f, s) = f[x] + SumFunctionOnSet(f, s \ {x})
    BY <1>2, FS_Subset, SumUnfolds
  <2> QED BY <1>2, <2>1
<1> HIDE DEF G
<1>3. S \in G
  BY <1>1, <1>2, SubsetInduction
<1> QED BY <1>3 DEF G

\* Any element may be taken out first.
LEMMA SumWithout ==
  ASSUME NEW f, NEW S, IsFiniteSet(S), \A x \in S : f[x] \in Int, NEW x \in S
  PROVE  /\ SumFunctionOnSet(f, S) = f[x] + SumFunctionOnSet(f, S \ {x})
         /\ SumFunctionOnSet(f, S \ {x}) \in Int
<1> DEFINE G == {s \in SUBSET S : \A y \in s :
                    SumFunctionOnSet(f, s) = f[y] + SumFunctionOnSet(f, s \ {y})}
<1>1. ASSUME NEW s \in SUBSET S PROVE SumFunctionOnSet(f, s) \in Int /\ IsFiniteSet(s)
  BY FS_Subset, SumType
<1>2. {} \in G
  OBVIOUS
<1>3. ASSUME NEW s \in SUBSET S, s # {}, \A y \in s : s \ {y} \in G PROVE s \in G
  <2>1. IsFiniteSet(s)
    BY <1>1
  <2>2. PICK z \in s : SumFunctionOnSet(f, s) = f[z] + SumFunctionOnSet(f, s \ {z})
    BY <1>3, <2>1, SumUnfolds
  <2>3. ASSUME NEW y \in s
        PROVE  SumFunctionOnSet(f, s) = f[y] + SumFunctionOnSet(f, s \ {y})
    <3>1. CASE y = z
      BY <2>2, <3>1
    <3>2. CASE y # z
      <4> DEFINE r == s \ {y, z}
      <4>1. (s \ {z}) \ {y} = r /\ (s \ {y}) \ {z} = r
        OBVIOUS
      <4>2. SumFunctionOnSet(f, s \ {z}) = f[y] + SumFunctionOnSet(f, r)
        BY <1>3, <3>2, <4>1
      <4>3. SumFunctionOnSet(f, s \ {y}) = f[z] + SumFunctionOnSet(f, r)
        BY <1>3, <3>2, <4>1
      <4>4. SumFunctionOnSet(f, r) \in Int /\ f[y] \in Int /\ f[z] \in Int
        BY <1>1
      <4> HIDE DEF r
      <4> QED BY <2>2, <4>2, <4>3, <4>4
    <3> QED BY <3>1, <3>2
  <2> QED BY <2>3
<1> HIDE DEF G
<1>4. S \in G
  BY <1>2, <1>3, SubsetInduction
<1> QED BY <1>1, <1>4 DEF G

\* The sum of a set and one more element.
LEMMA SumWith ==
  ASSUME NEW f, NEW S, IsFiniteSet(S), NEW x, x \notin S,
         \A y \in S \cup {x} : f[y] \in Int
  PROVE  SumFunctionOnSet(f, S \cup {x}) = f[x] + SumFunctionOnSet(f, S)
<1>1. IsFiniteSet(S \cup {x}) /\ (S \cup {x}) \ {x} = S
  BY FS_AddElement
<1> QED BY <1>1, SumWithout

\* Terms that are at most as large, one by one, add up to at most as much; the
\* difference is at least that of any one of them.
LEMMA SumMonotone ==
  ASSUME NEW S, IsFiniteSet(S), NEW f, NEW g,
         \A x \in S : f[x] \in Int /\ g[x] \in Int /\ f[x] <= g[x]
  PROVE  /\ SumFunctionOnSet(f, S) <= SumFunctionOnSet(g, S)
         /\ \A x \in S : g[x] - f[x] <= SumFunctionOnSet(g, S) - SumFunctionOnSet(f, S)
<1> DEFINE less(s) == SumFunctionOnSet(f, s) <= SumFunctionOnSet(g, s)
           G == {s \in SUBSET S : less(s)}
<1>1. {} \in G
  BY FS_EmptySet, SumUnfolds
<1>2. ASSUME NEW s \in SUBSET S, s # {}, \A x \in s : s \ {x} \in G PROVE s \in G
  <2>1. PICK x \in s : TRUE
    BY <1>2
  <2>2. IsFiniteSet(s)
    BY FS_Subset
  <2>3. /\ SumFunctionOnSet(f, s) = f[x] + SumFunctionOnSet(f, s \ {x})
        /\ SumFunctionOnSet(f, s \ {x}) \in Int
    BY <2>2, SumWithout
  <2>4. /\ SumFunctionOnSet(g, s) = g[x] + SumFunctionOnSet(g, s \ {x})
        /\ SumFunctionOnSet(g, s \ {x}) \in Int
    BY <2>2, SumWithout
  <2>5. SumFunctionOnSet(f, s \ {x}) <= SumFunctionOnSet(g, s \ {x})
    BY <1>2
  <2> QED BY <2>3, <2>4, <2>5
<1>3. ASSUME NEW s \in SUBSET S PROVE less(s)
  <2>1. \A t \in SUBSET s : t # {} /\ (\A x \in t : t \ {x} \in G) => t \in G
    BY <1>2
  <2>2. IsFiniteSet(s)
    BY FS_Subset
  <2>3. s \in G
    <3> HIDE DEF G
    <3> QED BY <1>1, <2>1, <2>2, SubsetInduction
  <2> QED BY <2>3
<1>4. ASSUME NEW x \in S
      PROVE  g[x] - f[x] <= SumFunctionOnSet(g, S) - SumFunctionOnSet(f, S)
  <2>1. less(S \ {x})
    BY <1>3
  <2>2. /\ SumFunctionOnSet(f, S) = f[x] + SumFunctionOnSet(f, S \ {x})
        /\ SumFunctionOnSet(f, S \ {x}) \in Int
    BY SumWithout
  <2>3. /\ SumFunctionOnSet(g, S) = g[x] + SumFunctionOnSet(g, S \ {x})
        /\ SumFunctionOnSet(g, S \ {x}) \in Int
    BY SumWithout
  <2> QED BY <2>1, <2>2, <2>3
<1> QED BY <1>3, <1>4

\* Only the values on the set matter.
LEMMA SumSame ==
  ASSUME NEW S, IsFiniteSet(S), NEW f, NEW g, \A x \in S : f[x] \in Int /\ f[x] = g[x]
  PROVE  SumFunctionOnSet(f, S) = SumFunctionOnSet(g, S)
<1>1. \A x \in S : g[x] \in Int /\ f[x] <= g[x] /\ g[x] <= f[x]
  OBVIOUS
<1>2. SumFunctionOnSet(f, S) \in Int /\ SumFunctionOnSet(g, S) \in Int
  BY <1>1, SumType
<1> QED BY <1>1, <1>2, SumMonotone

\* The sum of a sum is the sum of the sums.
LEMMA SumOfBoth ==
  ASSUME NEW S, IsFiniteSet(S), NEW f, NEW g, NEW h,
         \A x \in S : f[x] \in Int /\ g[x] \in Int /\ h[x] = f[x] + g[x]
  PROVE  SumFunctionOnSet(h, S) = SumFunctionOnSet(f, S) + SumFunctionOnSet(g, S)
<1> DEFINE G == {s \in SUBSET S : SumFunctionOnSet(h, s)
                                    = SumFunctionOnSet(f, s) + SumFunctionOnSet(g, s)}
<1>1. {} \in G
  BY FS_EmptySet, SumUnfolds
<1>2. ASSUME NEW s \in SUBSET S, s # {}, \A x \in s : s \ {x} \in G PROVE s \in G
  <2>1. PICK x \in s : TRUE
    BY <1>2
  <2>2. IsFiniteSet(s) /\ \A y \in s : h[y] \in Int
    BY FS_Subset
  <2>3. /\ SumFunctionOnSet(f, s) = f[x] + SumFunctionOnSet(f, s \ {x})
        /\ SumFunctionOnSet(f, s \ {x}) \in Int
    BY <2>2, SumWithout
  <2>4. /\ SumFunctionOnSet(g, s) = g[x] + SumFunctionOnSet(g, s \ {x})
        /\ SumFunctionOnSet(g, s \ {x}) \in Int
    BY <2>2, SumWithout
  <2>5. SumFunctionOnSet(h, s) = h[x] + SumFunctionOnSet(h, s \ {x})
    BY <2>2, SumWithout
  <2>6. SumFunctionOnSet(h, s \ {x}) = SumFunctionOnSet(f, s \ {x}) + SumFunctionOnSet(g, s \ {x})
    BY <1>2
  <2> QED BY <2>3, <2>4, <2>5, <2>6
<1> HIDE DEF G
<1>3. S \in G
  BY <1>1, <1>2, SubsetInduction
<1> QED BY <1>3 DEF G

\* Equal terms: as often as there are elements.
LEMMA SumOfEqual ==
  ASSUME NEW S, IsFiniteSet(S), NEW c \in Int, NEW f, \A x \in S : f[x] = c
  PROVE  SumFunctionOnSet(f, S) = c * Cardinality(S)
<1> DEFINE G == {s \in SUBSET S : SumFunctionOnSet(f, s) = c * Cardinality(s)}
<1>1. {} \in G
  BY FS_EmptySet, SumUnfolds
<1>2. ASSUME NEW s \in SUBSET S, s # {}, \A x \in s : s \ {x} \in G PROVE s \in G
  <2>1. PICK x \in s : TRUE
    BY <1>2
  <2>2. IsFiniteSet(s) /\ Cardinality(s) \in Nat
    BY FS_Subset, FS_CardinalityType
  <2>3. SumFunctionOnSet(f, s) = c + SumFunctionOnSet(f, s \ {x})
    BY <2>2, SumWithout
  <2>4. SumFunctionOnSet(f, s \ {x}) = c * (Cardinality(s) - 1)
    BY <1>2, <2>2, FS_RemoveElement
  <2>5. c + c * (Cardinality(s) - 1) = c * Cardinality(s)
    BY <2>2
  <2> QED BY <2>3, <2>4, <2>5
<1> HIDE DEF G
<1>3. S \in G
  BY <1>1, <1>2, SubsetInduction
<1> QED BY <1>3 DEF G

\* A set may be cut in two.
LEMMA SumCut ==
  ASSUME NEW S, IsFiniteSet(S), NEW T \in SUBSET S, NEW f, \A x \in S : f[x] \in Int
  PROVE  SumFunctionOnSet(f, S) = SumFunctionOnSet(f, T) + SumFunctionOnSet(f, S \ T)
<1> DEFINE G == {s \in SUBSET T : SumFunctionOnSet(f, s \cup (S \ T))
                                    = SumFunctionOnSet(f, s) + SumFunctionOnSet(f, S \ T)}
<1>1. IsFiniteSet(T) /\ IsFiniteSet(S \ T)
  BY FS_Subset, FS_Difference
<1>2. {} \in G
  <2>1. {} \cup (S \ T) = S \ T /\ SumFunctionOnSet(f, S \ T) \in Int
    BY <1>1, SumType
  <2>2. SumFunctionOnSet(f, {}) = 0
    BY FS_EmptySet, SumUnfolds
  <2> QED BY <2>1, <2>2
<1>3. ASSUME NEW s \in SUBSET T, s # {}, \A x \in s : s \ {x} \in G PROVE s \in G
  <2>1. PICK x \in s : TRUE
    BY <1>3
  <2> DEFINE u == s \cup (S \ T)
  <2>2. IsFiniteSet(s) /\ IsFiniteSet(u) /\ u \in SUBSET S /\ x \in u
    BY <1>1, FS_Subset
  <2>3. u \ {x} = (s \ {x}) \cup (S \ T)
    OBVIOUS
  <2>4. /\ SumFunctionOnSet(f, s) = f[x] + SumFunctionOnSet(f, s \ {x})
        /\ SumFunctionOnSet(f, s \ {x}) \in Int
    BY <2>2, SumWithout
  <2>5. SumFunctionOnSet(f, u) = f[x] + SumFunctionOnSet(f, u \ {x})
    <3> HIDE DEF u
    <3> QED BY <2>2, SumWithout
  <2>6. SumFunctionOnSet(f, u \ {x})
          = SumFunctionOnSet(f, s \ {x}) + SumFunctionOnSet(f, S \ T)
    BY <1>3, <2>3
  <2>7. SumFunctionOnSet(f, S \ T) \in Int
    BY <1>1, SumType
  <2> QED BY <2>4, <2>5, <2>6, <2>7
<1> HIDE DEF G
<1>4. T \in G
  BY <1>1, <1>2, <1>3, SubsetInduction
<1>5. T \cup (S \ T) = S
  OBVIOUS
<1> QED BY <1>4, <1>5 DEF G

\* A sum may be taken over the elements that count, each kind apart.
LEMMA SumByCases ==
  ASSUME NEW S, IsFiniteSet(S), NEW A \in SUBSET S, NEW B \in SUBSET S, A \cap B = {},
         NEW f, NEW g, NEW h,
         \A x \in A : f[x] \in Int /\ h[x] = f[x],
         \A x \in B : g[x] \in Int /\ h[x] = g[x],
         \A x \in S \ (A \cup B) : h[x] = 0
  PROVE  /\ SumFunctionOnSet(h, S) = SumFunctionOnSet(f, A) + SumFunctionOnSet(g, B)
         /\ SumFunctionOnSet(f, A) \in Int /\ SumFunctionOnSet(g, B) \in Int
<1> DEFINE C == S \ A
           D == C \ B
<1>1. IsFiniteSet(A) /\ IsFiniteSet(B) /\ IsFiniteSet(C) /\ IsFiniteSet(D)
  BY FS_Subset
<1>2. /\ \A x \in S : h[x] \in Int
      /\ \A x \in C : h[x] \in Int
      /\ \A x \in D : h[x] = 0
      /\ B \in SUBSET C
  OBVIOUS
<1>3. SumFunctionOnSet(h, S) = SumFunctionOnSet(h, A) + SumFunctionOnSet(h, C)
  BY <1>2, SumCut
<1> HIDE DEF C
<1>4. SumFunctionOnSet(h, C) = SumFunctionOnSet(h, B) + SumFunctionOnSet(h, D)
  BY <1>1, <1>2, SumCut
<1> HIDE DEF D
<1>5. SumFunctionOnSet(h, D) = 0
  <2>1. SumFunctionOnSet(h, D) = 0 * Cardinality(D) /\ Cardinality(D) \in Nat
    BY <1>1, <1>2, SumOfEqual, FS_CardinalityType
  <2> QED BY <2>1
<1>6. SumFunctionOnSet(f, A) = SumFunctionOnSet(h, A) /\ SumFunctionOnSet(f, A) \in Int
  BY <1>1, SumSame, SumType
<1>7. SumFunctionOnSet(g, B) = SumFunctionOnSet(h, B) /\ SumFunctionOnSet(g, B) \in Int
  BY <1>1, SumSame, SumType
<1> QED BY <1>3, <1>4, <1>5, <1>6, <1>7

LEMMA SumOfSome ==
  ASSUME NEW S, IsFiniteSet(S), NEW A \in SUBSET S, NEW f, NEW h,
         \A x \in A : f[x] \in Int /\ h[x] = f[x],
         \A x \in S \ A : h[x] = 0
  PROVE  SumFunctionOnSet(h, S) = SumFunctionOnSet(f, A) /\ SumFunctionOnSet(f, A) \in Int
<1> DEFINE B == {}
<1>1. SumFunctionOnSet(f, B) = 0
  BY FS_EmptySet, SumUnfolds
<1>2. /\ B \in SUBSET S /\ A \cap B = {} /\ S \ (A \cup B) = S \ A
      /\ \A x \in B : f[x] \in Int /\ h[x] = f[x]
  OBVIOUS
<1> HIDE DEF B
<1>3. /\ SumFunctionOnSet(h, S) = SumFunctionOnSet(f, A) + SumFunctionOnSet(f, B)
      /\ SumFunctionOnSet(f, A) \in Int
  BY <1>2, SumByCases
<1> QED BY <1>1, <1>3

\* So many elements of one amount.
LEMMA SumOfCount ==
  ASSUME NEW S, IsFiniteSet(S), NEW A \in SUBSET S, NEW c \in Int, NEW h,
         \A x \in A : h[x] = c,
         \A x \in S \ A : h[x] = 0
  PROVE  SumFunctionOnSet(h, S) = c * Cardinality(A) /\ Cardinality(A) \in Nat
<1>1. IsFiniteSet(A) /\ \A x \in A : h[x] \in Int
  BY FS_Subset
<1>2. SumFunctionOnSet(h, S) = SumFunctionOnSet(h, A)
  BY <1>1, SumOfSome
<1>3. SumFunctionOnSet(h, A) = c * Cardinality(A)
  BY <1>1, SumOfEqual
<1> QED BY <1>1, <1>2, <1>3, FS_CardinalityType
=================================================================================
