----------------------------- MODULE SumLemmas -----------------------------
(***************************************************************************)
(* Sums over finite sets, for the proofs about money: what the library's   *)
(* SumFunctionOnSet computes, in whatever order its fold takes the         *)
(* elements.  Inductions are stated with a set in the place of the         *)
(* predicate, which every prover can instantiate, and rest on the          *)
(* library's theorem that finite sets are well founded under inclusion.    *)
(***************************************************************************)
EXTENDS Integers, FiniteSets, Functions, FiniteSetTheorems, TLAPS

-----------------------------------------------------------------------------
(* Induction. *)

\* Among subsets of a finite set there is a smallest.
LEMMA SmallestSet ==
  ASSUME NEW U, IsFiniteSet(U), NEW T \in SUBSET SUBSET U, T # {}
  PROVE  \E s \in T : \A t \in T : t \subseteq s => t = s
<1>1. IsWellFoundedOn(StrictSubsetOrdering(U), SUBSET U)
  BY FS_StrictSubsetOrderingWellFounded, FS_FiniteSubsetsOfFinite
<1>2. PICK s \in T : \A t \in T : <<t, s>> \notin StrictSubsetOrdering(U)
  BY <1>1, WFMin, Zenon
<1>3. QED
  BY <1>2 DEF StrictSubsetOrdering

\* A collection with the empty set that grows by single elements reaches all of U.
LEMMA SetInduction ==
  ASSUME NEW U, IsFiniteSet(U), NEW T, {} \in T,
         \A s \in SUBSET U : \A x \in U \ s : s \in T => s \cup {x} \in T
  PROVE  U \in T
<1> SUFFICES ASSUME U \notin T PROVE FALSE
  OBVIOUS
<1> DEFINE Left == {U \ s : s \in (SUBSET U) \cap T}
<1>1. Left # {} /\ Left \in SUBSET SUBSET U
  OBVIOUS
<1>2. PICK r \in Left : \A t \in Left : t \subseteq r => t = r
  <2> HIDE DEF Left
  <2> QED BY <1>1, SmallestSet
<1>3. PICK s \in (SUBSET U) \cap T : r = U \ s
  OBVIOUS
<1>4. PICK x \in U : x \notin s
  BY <1>3
<1>5. s \cup {x} \in (SUBSET U) \cap T
  BY <1>3, <1>4
<1>6. U \ (s \cup {x}) \in Left
  BY <1>5
<1>7. QED
  BY <1>2, <1>3, <1>4, <1>6

\* Induction over the natural numbers.
LEMMA CountUp ==
  ASSUME NEW T, 0 \in T, \A n \in Nat : n \in T => n + 1 \in T
  PROVE  \A n \in Nat : n \in T
<1> SUFFICES ASSUME Nat \ T # {} PROVE FALSE
  OBVIOUS
<1>1. PICK n \in Nat \ T : \A m \in Nat \ T : <<m, n>> \notin OpToRel(<, Nat)
  <2>1. Nat \ T \subseteq Nat
    OBVIOUS
  <2>2. QED
    BY <2>1, NatLessThanWellFounded, WFMin, Zenon
<1>2. \A m \in Nat \ T : ~(m < n)
  BY <1>1 DEF OpToRel
<1>3. n # 0 /\ n - 1 \in Nat /\ n - 1 < n /\ (n - 1) + 1 = n
  OBVIOUS
<1>4. QED
  BY <1>2, <1>3

-----------------------------------------------------------------------------
(* The recursion behind the sum has a solution, and only one. *)

\* The element the fold takes first.
AnyOf(s) == CHOOSE x \in s : TRUE

\* g sums f over every set of the family.
Sums(g, f, family) ==
  g = [s \in family |-> IF s = {} THEN 0 ELSE f[AnyOf(s)] + g[s \ {AnyOf(s)}]]

\* The library's sum, unfolded.
LEMMA SumUnfolded ==
  ASSUME NEW f, NEW S
  PROVE  SumFunctionOnSet(f, S) = (CHOOSE g : Sums(g, f, SUBSET S))[S]
BY DEF SumFunctionOnSet, FoldFunctionOnSet, MapThenFoldSet, Sums, AnyOf

\* The function is built up from the smaller sets to the larger.
LEMMA SumsExist ==
  ASSUME NEW f, NEW S, IsFiniteSet(S)
  PROVE  \E g : Sums(g, f, SUBSET S)
<1> DEFINE UpTo(n) == {s \in SUBSET S : Cardinality(s) <= n}
           T == {n \in Nat : \E g : Sums(g, f, UpTo(n))}
<1>1. \A s \in SUBSET S : IsFiniteSet(s) /\ Cardinality(s) \in Nat
  BY FS_Subset, FS_CardinalityType
<1>2. \A s \in SUBSET S : s # {} =>
        AnyOf(s) \in s /\ s \ {AnyOf(s)} \in SUBSET S
        /\ Cardinality(s \ {AnyOf(s)}) = Cardinality(s) - 1
  BY <1>1, FS_RemoveElement DEF AnyOf
<1>3. \A s \in SUBSET S : Cardinality(s) = 0 => s = {}
  BY <1>1, FS_EmptySet
<1>4. 0 \in T
  <2>1. Sums([s \in UpTo(0) |-> 0], f, UpTo(0))
    BY <1>1, <1>3 DEF Sums
  <2>2. QED
    BY <2>1
<1>5. ASSUME NEW n \in Nat, n \in T PROVE n + 1 \in T
  <2>1. PICK g : Sums(g, f, UpTo(n))
    BY <1>5
  <2> DEFINE Old == UpTo(n)
             New == UpTo(n + 1)
             h == [s \in New |-> IF s \in Old THEN g[s] ELSE f[AnyOf(s)] + g[s \ {AnyOf(s)}]]
  <2>2. {} \in Old /\ Old \subseteq New
    BY <1>1, FS_EmptySet
  <2>3. ASSUME NEW s \in New, s # {} PROVE s \ {AnyOf(s)} \in Old
    <3>1. s \in SUBSET S /\ Cardinality(s) \in Nat /\ Cardinality(s) <= n + 1
      BY <1>1
    <3>2. /\ s \ {AnyOf(s)} \in SUBSET S
          /\ Cardinality(s \ {AnyOf(s)}) = Cardinality(s) - 1
      BY <1>2, <2>3, <3>1
    <3>3. QED
      BY <3>1, <3>2
  <2>4. \A s \in Old : g[s] = IF s = {} THEN 0 ELSE f[AnyOf(s)] + g[s \ {AnyOf(s)}]
    BY <2>1 DEF Sums
  <2>5. Sums(h, f, New)
    <3> HIDE DEF Old, New
    <3>1. \A s \in New : h[s] = IF s = {} THEN 0 ELSE f[AnyOf(s)] + h[s \ {AnyOf(s)}]
      BY <2>2, <2>3, <2>4
    <3>2. QED
      BY <3>1 DEF Sums
  <2>6. QED
    BY <2>5
<1>6. Cardinality(S) \in T
  <2> HIDE DEF T
  <2> QED BY <1>1, <1>4, <1>5, CountUp
<1>7. UpTo(Cardinality(S)) = SUBSET S
  BY FS_Subset
<1>8. QED
  BY <1>6, <1>7

\* Two such functions agree where both are defined.
LEMMA SumsAgree ==
  ASSUME NEW f, NEW S, IsFiniteSet(S), NEW R \in SUBSET S, NEW g, NEW h,
         Sums(g, f, SUBSET S), Sums(h, f, SUBSET R)
  PROVE  g[R] = h[R]
<1> DEFINE Differ == {s \in SUBSET R : g[s] # h[s]}
<1>1. SUFFICES ASSUME Differ # {} PROVE FALSE
  OBVIOUS
<1>2. IsFiniteSet(R)
  BY FS_Subset
<1>3. PICK s \in Differ : \A t \in Differ : t \subseteq s => t = s
  <2>1. Differ \in SUBSET SUBSET R
    OBVIOUS
  <2> HIDE DEF Differ
  <2>2. QED
    BY <1>1, <1>2, <2>1, SmallestSet
<1>4. s # {}
  BY DEF Sums
<1>5. AnyOf(s) \in s /\ s \ {AnyOf(s)} \in SUBSET R
  BY <1>4 DEF AnyOf
<1>6. g[s \ {AnyOf(s)}] = h[s \ {AnyOf(s)}]
  BY <1>3, <1>5
<1>7. g[s] = f[AnyOf(s)] + g[s \ {AnyOf(s)}] /\ h[s] = f[AnyOf(s)] + h[s \ {AnyOf(s)}]
  BY <1>4 DEF Sums
<1>8. QED
  BY <1>6, <1>7

\* The sum of a finite set: nothing, or one element and the rest.
LEMMA SumStep ==
  ASSUME NEW f, NEW S, IsFiniteSet(S)
  PROVE  SumFunctionOnSet(f, S) =
           IF S = {} THEN 0 ELSE f[AnyOf(S)] + SumFunctionOnSet(f, S \ {AnyOf(S)})
<1> DEFINE g == CHOOSE g : Sums(g, f, SUBSET S)
<1>1. Sums(g, f, SUBSET S)
  BY SumsExist
<1>2. SumFunctionOnSet(f, S) = g[S]
  BY SumUnfolded
<1>3. CASE S = {}
  <2> HIDE DEF g
  <2> QED BY <1>1, <1>2, <1>3 DEF Sums
<1>4. CASE S # {}
  <2> DEFINE R == S \ {AnyOf(S)}
             h == CHOOSE h : Sums(h, f, SUBSET R)
  <2>1. R \in SUBSET S /\ IsFiniteSet(R)
    BY FS_Subset
  <2>2. Sums(h, f, SUBSET R) /\ SumFunctionOnSet(f, R) = h[R]
    <3> HIDE DEF R
    <3> QED BY <2>1, SumsExist, SumUnfolded
  <2>3. g[R] = h[R]
    <3>1. Sums(h, f, SUBSET R)
      BY <2>2
    <3> HIDE DEF g, h, R
    <3>2. QED
      BY <1>1, <2>1, <3>1, SumsAgree
  <2>4. g[S] = f[AnyOf(S)] + g[R]
    <3> HIDE DEF g
    <3> QED BY <1>1, <1>4 DEF Sums
  <2> HIDE DEF g, h
  <2>5. QED
    BY <1>2, <1>4, <2>2, <2>3, <2>4
<1>5. QED
  BY <1>3, <1>4
-----------------------------------------------------------------------------
(* What sums are. *)

\* Nothing sums to nothing.
LEMMA SumOfNone == ASSUME NEW f PROVE SumFunctionOnSet(f, {}) = 0
BY SumStep, FS_EmptySet

\* A sum of integers is one, and any element can be taken out of it.
LEMMA SumWithout ==
  ASSUME NEW S, IsFiniteSet(S), NEW f, \A x \in S : f[x] \in Int
  PROVE  /\ SumFunctionOnSet(f, S) \in Int
         /\ \A x \in S : SumFunctionOnSet(f, S) = f[x] + SumFunctionOnSet(f, S \ {x})
<1> DEFINE Sum(s) == SumFunctionOnSet(f, s)
           Right(s) == Sum(s) \in Int /\ \A x \in s : Sum(s) = f[x] + Sum(s \ {x})
           Wrong == {s \in SUBSET S : ~Right(s)}
<1>1. SUFFICES ASSUME Wrong # {} PROVE FALSE
  BY DEF Right
<1>2. PICK s \in Wrong : \A t \in Wrong : t \subseteq s => t = s
  <2>1. Wrong \in SUBSET SUBSET S
    OBVIOUS
  <2> HIDE DEF Wrong
  <2>2. QED
    BY <1>1, <2>1, SmallestSet
<1>3. s \in SUBSET S /\ IsFiniteSet(s) /\ ~Right(s)
  BY <1>2, FS_Subset
<1>4. s # {}
  BY <1>3, SumOfNone
<1> DEFINE y == AnyOf(s)
<1>5. y \in s
  BY <1>4 DEF AnyOf
<1>6. Sum(s) = f[y] + Sum(s \ {y})
  BY <1>3, <1>4, SumStep
<1>7. \A t \in SUBSET s : t # s => Right(t)
  BY <1>2, <1>3
<1> HIDE DEF y, Sum, Wrong
<1>8. Sum(s) \in Int
  BY <1>3, <1>5, <1>6, <1>7
<1>9. ASSUME NEW x \in s, x # y PROVE Sum(s) = f[x] + Sum(s \ {x})
  <2>1. Sum(s \ {y}) = f[x] + Sum((s \ {y}) \ {x})
    BY <1>5, <1>7, <1>9
  <2>2. Sum(s \ {x}) = f[y] + Sum((s \ {x}) \ {y})
    BY <1>5, <1>7, <1>9
  <2>3. (s \ {y}) \ {x} = (s \ {x}) \ {y} /\ Right((s \ {x}) \ {y})
    BY <1>5, <1>7
  <2>4. f[x] \in Int /\ f[y] \in Int /\ Sum((s \ {x}) \ {y}) \in Int
    BY <1>3, <1>5, <2>3
  <2>5. Sum(s) = f[y] + (f[x] + Sum((s \ {x}) \ {y}))
    BY <1>6, <2>1, <2>3
  <2> HIDE DEF Right
  <2>6. QED
    BY <2>2, <2>4, <2>5
<1>10. QED
  BY <1>3, <1>6, <1>8, <1>9

\* One element more.
LEMMA SumWith ==
  ASSUME NEW S, IsFiniteSet(S), NEW f, NEW x, x \notin S, \A y \in S \cup {x} : f[y] \in Int
  PROVE  SumFunctionOnSet(f, S \cup {x}) = f[x] + SumFunctionOnSet(f, S)
<1>1. IsFiniteSet(S \cup {x}) /\ (S \cup {x}) \ {x} = S
  BY FS_AddElement
<1>2. QED
  BY <1>1, SumWithout

\* Two functions are related by their sums as they are element by element: the lemma
\* from which the following ones are instances.
LEMMA SumRelates ==
  ASSUME NEW S, IsFiniteSet(S), NEW f, NEW g, NEW h,
         \A x \in S : f[x] \in Int /\ g[x] \in Int /\ h[x] \in Int
  PROVE  /\ (\A x \in S : f[x] <= g[x])
              => SumFunctionOnSet(f, S) <= SumFunctionOnSet(g, S)
         /\ (\A x \in S : f[x] = g[x] + h[x])
              => SumFunctionOnSet(f, S) = SumFunctionOnSet(g, S) + SumFunctionOnSet(h, S)
<1> DEFINE Sum(k, s) == SumFunctionOnSet(k, s)
           T == {s \in SUBSET S :
                   /\ (\A x \in S : f[x] <= g[x]) => Sum(f, s) <= Sum(g, s)
                   /\ (\A x \in S : f[x] = g[x] + h[x]) => Sum(f, s) = Sum(g, s) + Sum(h, s)}
<1>1. {} \in T
  BY SumOfNone
<1>2. ASSUME NEW s \in SUBSET S, NEW x \in S \ s, s \in T PROVE s \cup {x} \in T
  <2>1. IsFiniteSet(s)
    BY FS_Subset
  <2>2. /\ Sum(f, s \cup {x}) = f[x] + Sum(f, s)
        /\ Sum(g, s \cup {x}) = g[x] + Sum(g, s)
        /\ Sum(h, s \cup {x}) = h[x] + Sum(h, s)
    BY <2>1, SumWith
  <2>3. Sum(f, s) \in Int /\ Sum(g, s) \in Int /\ Sum(h, s) \in Int
    BY <2>1, SumWithout
  <2> HIDE DEF Sum
  <2>4. QED
    BY <1>2, <2>2, <2>3
<1>3. S \in T
  <2> HIDE DEF T
  <2> QED BY <1>1, <1>2, SetInduction
<1>4. QED
  BY <1>3

\* A sum of two functions is the sum of their sums.
LEMMA SumAdded ==
  ASSUME NEW S, IsFiniteSet(S), NEW f, NEW g, NEW h,
         \A x \in S : g[x] \in Int /\ h[x] \in Int /\ f[x] = g[x] + h[x]
  PROVE  SumFunctionOnSet(f, S) = SumFunctionOnSet(g, S) + SumFunctionOnSet(h, S)
<1>1. \A x \in S : f[x] \in Int /\ g[x] \in Int /\ h[x] \in Int
  OBVIOUS
<1>2. QED
  BY <1>1, SumRelates

\* A sum of natural numbers is one, and no element exceeds it.
LEMMA SumOfNats ==
  ASSUME NEW S, IsFiniteSet(S), NEW f, \A x \in S : f[x] \in Nat
  PROVE  /\ SumFunctionOnSet(f, S) \in Nat
         /\ \A x \in S : f[x] <= SumFunctionOnSet(f, S)
<1> DEFINE T == {s \in SUBSET S : SumFunctionOnSet(f, s) \in Nat}
<1>1. {} \in T
  BY SumOfNone
<1>2. ASSUME NEW s \in SUBSET S, NEW x \in S \ s, s \in T PROVE s \cup {x} \in T
  <2>1. IsFiniteSet(s) /\ \A y \in s \cup {x} : f[y] \in Int
    BY FS_Subset
  <2>2. SumFunctionOnSet(f, s \cup {x}) = f[x] + SumFunctionOnSet(f, s)
    BY <2>1, SumWith
  <2>3. QED
    BY <1>2, <2>2
<1>3. \A R \in SUBSET S : R \in T
  <2> SUFFICES ASSUME NEW R \in SUBSET S PROVE R \in T
    OBVIOUS
  <2>1. IsFiniteSet(R)
    BY FS_Subset
  <2>2. \A s \in SUBSET R : \A x \in R \ s : s \in T => s \cup {x} \in T
    BY <1>2
  <2> HIDE DEF T
  <2>3. QED
    BY <1>1, <2>1, <2>2, SetInduction
<1>4. ASSUME NEW x \in S PROVE f[x] <= SumFunctionOnSet(f, S)
  <2>1. SumFunctionOnSet(f, S) = f[x] + SumFunctionOnSet(f, S \ {x})
    BY SumWithout
  <2>2. SumFunctionOnSet(f, S \ {x}) \in Nat
    BY <1>3
  <2>3. QED
    BY <2>1, <2>2
<1>5. QED
  BY <1>3, <1>4

\* Sums of equal elements are equal.
LEMMA SumSame ==
  ASSUME NEW S, IsFiniteSet(S), NEW f, NEW g,
         \A x \in S : f[x] \in Int /\ f[x] = g[x]
  PROVE  SumFunctionOnSet(f, S) = SumFunctionOnSet(g, S)
<1>1. SumFunctionOnSet(f, S) <= SumFunctionOnSet(g, S)
  BY SumRelates
<1>2. SumFunctionOnSet(g, S) <= SumFunctionOnSet(f, S)
  BY SumRelates
<1>3. SumFunctionOnSet(f, S) \in Int /\ SumFunctionOnSet(g, S) \in Int
  BY SumWithout
<1>4. QED
  BY <1>1, <1>2, <1>3

\* A sum is that of a part and that of the rest.
LEMMA SumSplit ==
  ASSUME NEW S, IsFiniteSet(S), NEW R \in SUBSET S, NEW f, \A x \in S : f[x] \in Int
  PROVE  SumFunctionOnSet(f, S) = SumFunctionOnSet(f, R) + SumFunctionOnSet(f, S \ R)
<1> DEFINE Sum(s) == SumFunctionOnSet(f, s)
           T == {s \in SUBSET R : Sum(S) = Sum(s) + Sum(S \ s)}
<1>1. \A s \in SUBSET S : IsFiniteSet(s) /\ Sum(s) \in Int
  BY FS_Subset, SumWithout
<1>2. {} \in T
  <2>1. Sum({}) = 0 /\ S \ {} = S
    BY SumOfNone
  <2> HIDE DEF Sum
  <2>2. QED
    BY <1>1, <2>1
<1>3. ASSUME NEW s \in SUBSET R, NEW x \in R \ s, s \in T PROVE s \cup {x} \in T
  <2> DEFINE rest == S \ (s \cup {x})
  <2>1. Sum(s \cup {x}) = f[x] + Sum(s)
    BY <1>1, SumWith
  <2>2. (S \ s) \ {x} = rest
    OBVIOUS
  <2>3. Sum(S \ s) = f[x] + Sum(rest)
    <3>1. Sum(S \ s) = f[x] + Sum((S \ s) \ {x})
      BY <1>1, SumWithout
    <3> HIDE DEF Sum, rest
    <3>2. QED
      BY <2>2, <3>1
  <2>4. f[x] \in Int /\ Sum(s) \in Int /\ Sum(rest) \in Int
    BY <1>1
  <2>5. Sum(S) = Sum(s) + Sum(S \ s)
    BY <1>3
  <2>6. Sum(S) = Sum(s \cup {x}) + Sum(rest)
    <3> HIDE DEF Sum, rest
    <3> QED BY <2>1, <2>3, <2>4, <2>5
  <2>7. QED
    BY <2>6
<1>4. R \in T
  <2>1. IsFiniteSet(R)
    BY FS_Subset
  <2> HIDE DEF T
  <2>2. QED
    BY <1>2, <1>3, <2>1, SetInduction
<1>5. QED
  BY <1>4

\* A part of a sum of natural numbers does not exceed it.
LEMMA SumOfPart ==
  ASSUME NEW S, IsFiniteSet(S), NEW R \in SUBSET S, NEW f, \A x \in S : f[x] \in Nat
  PROVE  SumFunctionOnSet(f, R) <= SumFunctionOnSet(f, S)
<1>1. IsFiniteSet(R) /\ IsFiniteSet(S \ R)
  BY FS_Subset
<1>2. SumFunctionOnSet(f, R) \in Nat /\ SumFunctionOnSet(f, S \ R) \in Nat
  BY <1>1, SumOfNats
<1>3. SumFunctionOnSet(f, S) = SumFunctionOnSet(f, R) + SumFunctionOnSet(f, S \ R)
  BY SumSplit
<1>4. QED
  BY <1>2, <1>3

\* One entry changes, and the sum by as much.
LEMMA SumExcept ==
  ASSUME NEW S, IsFiniteSet(S), NEW f, NEW g, NEW x \in S,
         \A y \in S : f[y] \in Int /\ g[y] \in Int,
         \A y \in S \ {x} : g[y] = f[y]
  PROVE  SumFunctionOnSet(g, S) = SumFunctionOnSet(f, S) + (g[x] - f[x])
<1>1. IsFiniteSet(S \ {x})
  BY FS_Subset
<1>2. SumFunctionOnSet(f, S \ {x}) = SumFunctionOnSet(g, S \ {x})
  BY <1>1, SumSame
<1>3. /\ SumFunctionOnSet(f, S) = f[x] + SumFunctionOnSet(f, S \ {x})
      /\ SumFunctionOnSet(g, S) = g[x] + SumFunctionOnSet(g, S \ {x})
  BY SumWithout
<1>4. SumFunctionOnSet(f, S \ {x}) \in Int
  BY <1>1, SumWithout
<1>5. QED
  BY <1>2, <1>3, <1>4

\* Elements within a bound sum to at most as many times the bound.
LEMMA SumBounded ==
  ASSUME NEW S, IsFiniteSet(S), NEW f, NEW bound \in Int,
         \A x \in S : f[x] \in Int /\ f[x] <= bound
  PROVE  SumFunctionOnSet(f, S) <= Cardinality(S) * bound
<1> DEFINE T == {s \in SUBSET S : SumFunctionOnSet(f, s) <= Cardinality(s) * bound}
<1>1. {} \in T
  BY SumOfNone, FS_EmptySet
<1>2. ASSUME NEW s \in SUBSET S, NEW x \in S \ s, s \in T PROVE s \cup {x} \in T
  <2>1. IsFiniteSet(s)
    BY FS_Subset
  <2>2. SumFunctionOnSet(f, s \cup {x}) = f[x] + SumFunctionOnSet(f, s)
    BY <2>1, SumWith
  <2>3. Cardinality(s) \in Nat /\ Cardinality(s \cup {x}) = Cardinality(s) + 1
    BY <2>1, FS_CardinalityType, FS_AddElement
  <2>4. SumFunctionOnSet(f, s) \in Int
    BY <2>1, SumWithout
  <2>5. (Cardinality(s) + 1) * bound = Cardinality(s) * bound + bound
    BY <2>3
  <2>6. QED
    BY <1>2, <2>2, <2>3, <2>4, <2>5
<1>3. S \in T
  <2> HIDE DEF T
  <2> QED BY <1>1, <1>2, SetInduction
<1>4. QED
  BY <1>3

\* Nothing but zeros sums to zero.
LEMMA SumOfZeros ==
  ASSUME NEW S, IsFiniteSet(S), NEW f, \A x \in S : f[x] = 0
  PROVE  SumFunctionOnSet(f, S) = 0
<1>1. SumFunctionOnSet(f, S) <= Cardinality(S) * 0 /\ SumFunctionOnSet(f, S) \in Nat
  BY SumBounded, SumOfNats
<1>2. Cardinality(S) \in Nat
  BY FS_CardinalityType
<1>3. QED
  BY <1>1, <1>2

\* A factor of every element is a factor of the sum.
LEMMA SumScaled ==
  ASSUME NEW S, IsFiniteSet(S), NEW f, NEW g, NEW k \in Int,
         \A x \in S : f[x] \in Int /\ g[x] = k * f[x]
  PROVE  SumFunctionOnSet(g, S) = k * SumFunctionOnSet(f, S)
<1> DEFINE T == {s \in SUBSET S : SumFunctionOnSet(g, s) = k * SumFunctionOnSet(f, s)}
<1>1. {} \in T
  BY SumOfNone
<1>2. ASSUME NEW s \in SUBSET S, NEW x \in S \ s, s \in T PROVE s \cup {x} \in T
  <2>1. IsFiniteSet(s)
    BY FS_Subset
  <2>2. \A y \in S : g[y] \in Int
    OBVIOUS
  <2>3. /\ SumFunctionOnSet(f, s \cup {x}) = f[x] + SumFunctionOnSet(f, s)
        /\ SumFunctionOnSet(g, s \cup {x}) = g[x] + SumFunctionOnSet(g, s)
    BY <2>1, <2>2, SumWith
  <2>4. SumFunctionOnSet(f, s) \in Int
    BY <2>1, SumWithout
  <2>5. k * (f[x] + SumFunctionOnSet(f, s)) = k * f[x] + k * SumFunctionOnSet(f, s)
    BY <2>4
  <2>6. QED
    BY <1>2, <2>3, <2>5
<1>3. S \in T
  <2> HIDE DEF T
  <2> QED BY <1>1, <1>2, SetInduction
<1>4. QED
  BY <1>3
=============================================================================
