---------------------------- MODULE AllocationProofs ----------------------------
(***************************************************************************)
(* What the arithmetic of Allocation computes, for any number of           *)
(* contributors, any contributions, any pool and any rule the code         *)
(* accepts: the shares of a pass add up to the pool, the larger            *)
(* contribution has no smaller share, and the whole allocation pays out    *)
(* all there is room for and nobody past the capacity.                     *)
(***************************************************************************)
EXTENDS Allocation, SumLemmas

-----------------------------------------------------------------------------
(* Ranks.  A relation ranks the elements of a set; the first n are those with *)
(* fewer than n ahead of them.                                               *)

Ahead(R, S, x) == {y \in S : <<y, x>> \in R}

Ranks(R, S) ==
  /\ \A x \in S : <<x, x>> \notin R
  /\ \A x, y, z \in S : <<x, y>> \in R /\ <<y, z>> \in R => <<x, z>> \in R
  /\ \A x, y \in S : x # y => <<x, y>> \in R \/ <<y, x>> \in R

First(n, R, S) == {x \in S : Cardinality(Ahead(R, S, x)) < n}

\* A set of numbers with an element has a smallest one.
LEMMA SmallestNumber ==
  ASSUME NEW S \in SUBSET Nat, S # {}
  PROVE  \E n \in S : \A m \in S : n <= m
<1>1. PICK n \in S : \A m \in S : <<m, n>> \notin OpToRel(<, Nat)
  BY NatLessThanWellFounded, WFMin, Zenon
<1>2. \A m \in S : ~(m < n)
  BY <1>1 DEF OpToRel
<1>3. QED
  BY <1>2

\* Who is ahead of another has strictly fewer ahead.
LEMMA AheadHasFewer ==
  ASSUME NEW S, IsFiniteSet(S), NEW R, Ranks(R, S), NEW x \in S
  PROVE  /\ Cardinality(Ahead(R, S, x)) \in Nat
         /\ Ahead(R, S, x) \subseteq S /\ IsFiniteSet(Ahead(R, S, x))
         /\ \A y \in Ahead(R, S, x) :
              Cardinality(Ahead(R, S, y)) < Cardinality(Ahead(R, S, x))
<1>1. \A y \in S : IsFiniteSet(Ahead(R, S, y)) /\ Cardinality(Ahead(R, S, y)) \in Nat
  <2>1. \A y \in S : Ahead(R, S, y) \subseteq S
    BY DEF Ahead
  <2>2. QED
    BY <2>1, FS_Subset, FS_CardinalityType
<1>2. ASSUME NEW y \in Ahead(R, S, x)
      PROVE  Cardinality(Ahead(R, S, y)) < Cardinality(Ahead(R, S, x))
  <2>1. Ahead(R, S, y) \subseteq Ahead(R, S, x) /\ y \notin Ahead(R, S, y) /\ y \in S
    BY <1>2 DEF Ahead, Ranks
  <2>2. Cardinality(Ahead(R, S, y)) <= Cardinality(Ahead(R, S, x))
    BY <1>1, <2>1, FS_Subset
  <2>3. Cardinality(Ahead(R, S, y)) # Cardinality(Ahead(R, S, x))
    <3>1. Ahead(R, S, y) # Ahead(R, S, x)
      BY <1>2, <2>1
    <3>2. QED
      BY <1>1, <2>1, <3>1, FS_Subset
  <2>4. QED
    BY <1>1, <2>1, <2>2, <2>3
<1>3. QED
  BY <1>1, <1>2 DEF Ahead

\* The first n and one more: exactly one element has n ahead of it.
LEMMA NextInRank ==
  ASSUME NEW S, IsFiniteSet(S), NEW R, Ranks(R, S), NEW n \in Nat,
         Cardinality(First(n, R, S)) = n, n < Cardinality(S)
  PROVE  Cardinality(First(n + 1, R, S)) = n + 1
<1> DEFINE Rank(x) == Cardinality(Ahead(R, S, x))
           Left == S \ First(n, R, S)
<1>1. \A x \in S : Rank(x) \in Nat /\ \A y \in S : <<y, x>> \in R => Rank(y) < Rank(x)
  BY AheadHasFewer DEF Ahead
<1>2. First(n, R, S) \subseteq S /\ IsFiniteSet(First(n, R, S))
  BY FS_Subset DEF First
<1>3. Left # {}
  <2>1. First(n, R, S) # S
    BY FS_CardinalityType
  <2>2. QED
    BY <1>2, <2>1
<1>4. PICK x \in Left : \A y \in Left : Rank(x) <= Rank(y)
  <2>1. {Rank(y) : y \in Left} \in SUBSET Nat /\ {Rank(y) : y \in Left} # {}
    BY <1>1, <1>3
  <2>2. PICK m \in {Rank(y) : y \in Left} : \A k \in {Rank(y) : y \in Left} : m <= k
    <3> DEFINE Found == {Rank(y) : y \in Left}
    <3> HIDE DEF Found
    <3> SUFFICES \E m \in Found : \A k \in Found : m <= k
      BY DEF Found
    <3>1. Found \in SUBSET Nat /\ Found # {}
      BY <2>1 DEF Found
    <3>2. QED
      BY <3>1, SmallestNumber
  <2>3. QED
    BY <2>2
<1>5. Rank(x) = n
  <2>1. Rank(x) >= n
    BY <1>1, <1>4 DEF First
  <2>2. Ahead(R, S, x) \subseteq First(n, R, S)
    <3>1. ASSUME NEW y \in Ahead(R, S, x), y \notin First(n, R, S) PROVE FALSE
      <4>1. y \in Left /\ Rank(y) < Rank(x)
        BY <1>1, <3>1 DEF Ahead
      <4>2. QED
        BY <1>1, <1>4, <4>1
    <3>2. QED
      BY <3>1
  <2>3. Rank(x) <= n
    BY <1>2, <2>2, FS_Subset
  <2>4. QED
    BY <1>1, <2>1, <2>3
<1>6. First(n + 1, R, S) = First(n, R, S) \cup {x}
  <2>1. ASSUME NEW y \in S, Rank(y) = n PROVE y = x
    <3>1. ~(Rank(y) < Rank(x)) /\ ~(Rank(x) < Rank(y))
      BY <1>1, <1>5, <2>1
    <3>2. <<x, y>> \notin R /\ <<y, x>> \notin R
      BY <1>1, <1>4, <3>1
    <3>3. QED
      BY <1>4, <3>2 DEF Ranks
  <2>2. ASSUME NEW y \in S
        PROVE  Rank(y) < n + 1 <=> Rank(y) < n \/ y = x
    BY <1>1, <1>5, <2>1
  <2> HIDE DEF Rank
  <2>3. /\ First(n, R, S) = {y \in S : Rank(y) < n}
        /\ First(n + 1, R, S) = {y \in S : Rank(y) < n + 1}
    BY DEF First, Rank
  <2>4. QED
    BY <1>4, <2>2, <2>3
<1>7. QED
  BY <1>2, <1>4, <1>6, FS_AddElement

\* There are n elements among the first n.
LEMMA FirstCount ==
  ASSUME NEW S, IsFiniteSet(S), NEW R, Ranks(R, S), NEW n \in Nat, n <= Cardinality(S)
  PROVE  Cardinality(First(n, R, S)) = n
<1> DEFINE T == {k \in Nat : k <= Cardinality(S) => Cardinality(First(k, R, S)) = k}
<1>1. 0 \in T
  <2>1. First(0, R, S) = {}
    BY AheadHasFewer DEF First
  <2>2. QED
    BY <2>1, FS_EmptySet
<1>2. ASSUME NEW k \in Nat, k \in T PROVE k + 1 \in T
  <2>1. Cardinality(S) \in Nat
    BY FS_CardinalityType
  <2>2. CASE k < Cardinality(S)
    <3>1. Cardinality(First(k, R, S)) = k
      BY <1>2, <2>1, <2>2
    <3>2. QED
      BY <2>2, <3>1, NextInRank
  <2>3. CASE ~(k < Cardinality(S))
    BY <2>1, <2>3
  <2>4. QED
    BY <2>2, <2>3
<1>3. \A k \in Nat : k \in T
  <2> HIDE DEF T
  <2> QED BY <1>1, <1>2, CountUp
<1>4. QED
  BY <1>3

\* Counting is summing ones.
LEMMA SumOfOnes ==
  ASSUME NEW S, IsFiniteSet(S), NEW P \in SUBSET S, NEW f,
         \A x \in S : f[x] = IF x \in P THEN 1 ELSE 0
  PROVE  SumFunctionOnSet(f, S) = Cardinality(P)
<1> DEFINE T == {s \in SUBSET S : SumFunctionOnSet(f, s) = Cardinality(s \cap P)}
<1>1. {} \in T
  <2>1. {} \cap P = {}
    OBVIOUS
  <2>2. QED
    BY <2>1, SumOfNone, FS_EmptySet
<1>2. ASSUME NEW s \in SUBSET S, NEW x \in S \ s, s \in T PROVE s \cup {x} \in T
  <2>1. IsFiniteSet(s) /\ IsFiniteSet(s \cap P) /\ Cardinality(s \cap P) \in Nat
    BY FS_Subset, FS_CardinalityType
  <2>2. \A y \in s \cup {x} : f[y] \in Int
    OBVIOUS
  <2>3. SumFunctionOnSet(f, s \cup {x}) = f[x] + SumFunctionOnSet(f, s)
    BY <2>1, <2>2, SumWith
  <2>4. CASE x \in P
    <3>1. (s \cup {x}) \cap P = (s \cap P) \cup {x} /\ x \notin s \cap P
      BY <2>4
    <3>2. Cardinality((s \cup {x}) \cap P) = Cardinality(s \cap P) + 1
      BY <2>1, <3>1, FS_AddElement
    <3>3. QED
      BY <1>2, <2>1, <2>3, <2>4, <3>2
  <2>5. CASE x \notin P
    <3>1. (s \cup {x}) \cap P = s \cap P
      BY <2>5
    <3>2. QED
      BY <1>2, <2>1, <2>3, <2>5, <3>1
  <2>6. QED
    BY <2>4, <2>5
<1>3. S \in T
  <2> HIDE DEF T
  <2> QED BY <1>1, <1>2, SetInduction
<1>4. S \cap P = P
  OBVIOUS
<1>5. QED
  BY <1>3, <1>4

-----------------------------------------------------------------------------
(* The shares of one pass, taken apart. *)

\* The shares rounded down, what the rounding took off each, in parts of one unit over the
\* sum of the contributions, and the units left over.
Floors(pool, c, A) == [i \in A |-> (pool * c[i]) \div SumFunctionOnSet(c, A)]

Fractions(pool, c, A) == [i \in A |-> (pool * c[i]) % SumFunctionOnSet(c, A)]

Residual(pool, c, A) == pool - SumFunctionOnSet(Floors(pool, c, A), A)

\* The larger fraction first, and of two equal ones the earlier position.
Outranking(pool, c, A) ==
  {p \in A \X A :
     \/ Fractions(pool, c, A)[p[1]] > Fractions(pool, c, A)[p[2]]
     \/ Fractions(pool, c, A)[p[1]] = Fractions(pool, c, A)[p[2]] /\ p[1] < p[2]}

Rewarded(pool, c, A) == First(Residual(pool, c, A), Outranking(pool, c, A), A)

\* The shares in these terms.
LEMMA SharesInParts ==
  ASSUME NEW pool, NEW c, NEW A
  PROVE  Shares(pool, c, A) =
           [i \in A |-> Floors(pool, c, A)[i] + (IF i \in Rewarded(pool, c, A) THEN 1 ELSE 0)]
<1> DEFINE floors == Floors(pool, c, A)
           fractions == Fractions(pool, c, A)
           R == Outranking(pool, c, A)
           Outranks(i, j) == fractions[i] > fractions[j] \/ (fractions[i] = fractions[j] /\ i < j)
           rewarded == {i \in A : Cardinality({j \in A : Outranks(j, i)}) < Residual(pool, c, A)}
<1>1. Shares(pool, c, A) = [i \in A |-> floors[i] + (IF i \in rewarded THEN 1 ELSE 0)]
  BY DEF Shares, Floors, Fractions, Residual
<1>2. ASSUME NEW i \in A PROVE {j \in A : Outranks(j, i)} = Ahead(R, A, i)
  BY <1>2 DEF Outranking, Ahead
<1>3. rewarded = Rewarded(pool, c, A)
  <2>1. Rewarded(pool, c, A) = {i \in A : Cardinality(Ahead(R, A, i)) < Residual(pool, c, A)}
    BY DEF Rewarded, First
  <2> HIDE DEF Outranks, R
  <2>2. QED
    BY <1>2, <2>1
<1>4. QED
  BY <1>1, <1>3

\* The inputs of a pass: a pool, and positions with contributions of whole units.
PassInput(pool, c, A) ==
  /\ pool \in Nat
  /\ A \in SUBSET Nat /\ IsFiniteSet(A) /\ A # {}
  /\ \A i \in A : c[i] \in Nat /\ c[i] > 0

\* Whole division: the quotient and the rest, and nothing lost between them.
LEMMA Division ==
  ASSUME NEW n \in Nat, NEW d \in Nat, d > 0
  PROVE  /\ n \div d \in Nat /\ n % d \in Nat /\ n % d < d
         /\ n = d * (n \div d) + (n % d)
OBVIOUS

\* A larger dividend has no smaller quotient.
LEMMA DivisionMonotone ==
  ASSUME NEW m \in Nat, NEW n \in Nat, m <= n, NEW d \in Nat, d > 0
  PROVE  m \div d <= n \div d
<1> DEFINE q == m \div d
           r == n \div d
           k == m % d
           l == n % d
<1>1. /\ q \in Nat /\ k \in Nat /\ k < d /\ m = d * q + k
      /\ r \in Nat /\ l \in Nat /\ l < d /\ n = d * r + l
  BY Division
<1> HIDE DEF q, r, k, l
<1> SUFFICES ASSUME q > r PROVE FALSE
  BY <1>1 DEF q, r
<1>2. q - (r + 1) \in Nat
  BY <1>1
<1>3. d * (q - (r + 1)) >= 0
  BY <1>2
<1>4. d * q = d * r + d + d * (q - (r + 1))
  BY <1>1, <1>2
<1>5. d * q \in Nat /\ d * r \in Nat
  BY <1>1
<1>6. QED
  BY <1>1, <1>3, <1>4, <1>5

\* The contributions of somebody add up to something.
LEMMA SomethingIsThere ==
  ASSUME NEW pool, NEW c, NEW A, PassInput(pool, c, A)
  PROVE  SumFunctionOnSet(c, A) \in Nat /\ SumFunctionOnSet(c, A) > 0
<1>1. PICK i \in A : c[i] \in Nat /\ c[i] > 0
  BY DEF PassInput
<1>2. SumFunctionOnSet(c, A) \in Nat /\ c[i] <= SumFunctionOnSet(c, A)
  BY SumOfNats DEF PassInput
<1>3. QED
  BY <1>1, <1>2

\* Every part is a whole amount.
LEMMA PartsType ==
  ASSUME NEW pool, NEW c, NEW A, PassInput(pool, c, A), NEW i \in A
  PROVE  /\ Floors(pool, c, A)[i] \in Nat
         /\ Fractions(pool, c, A)[i] \in Nat
         /\ Fractions(pool, c, A)[i] < SumFunctionOnSet(c, A)
         /\ pool * c[i] = SumFunctionOnSet(c, A) * Floors(pool, c, A)[i] + Fractions(pool, c, A)[i]
<1> DEFINE n == pool * c[i]
           d == SumFunctionOnSet(c, A)
<1>1. n \in Nat /\ d \in Nat /\ d > 0
  <2>1. pool \in Nat /\ c[i] \in Nat
    BY DEF PassInput
  <2>2. n \in Nat
    BY <2>1
  <2>3. QED
    BY <2>2, SomethingIsThere
<1> HIDE DEF n, d
<1>2. n \div d \in Nat /\ n % d \in Nat /\ n % d < d /\ n = d * (n \div d) + (n % d)
  BY <1>1, Division
<1>3. Floors(pool, c, A)[i] = n \div d /\ Fractions(pool, c, A)[i] = n % d
  BY DEF Floors, Fractions, n, d
<1>4. QED
  BY <1>2, <1>3 DEF n, d

\* The units left over are fewer than the contributors.
LEMMA ResidualIsSmall ==
  ASSUME NEW pool, NEW c, NEW A, PassInput(pool, c, A)
  PROVE  Residual(pool, c, A) \in Nat /\ Residual(pool, c, A) <= Cardinality(A)
<1> DEFINE d == SumFunctionOnSet(c, A)
           whole == SumFunctionOnSet(Floors(pool, c, A), A)
           parts == SumFunctionOnSet(Fractions(pool, c, A), A)
           dividends == [i \in A |-> pool * c[i]]
           multiples == [i \in A |-> d * Floors(pool, c, A)[i]]
           n == Cardinality(A)
<1>1. /\ d \in Nat /\ d > 0 /\ pool \in Nat /\ IsFiniteSet(A) /\ n \in Nat
      /\ \A i \in A : c[i] \in Int
  <2>1. pool \in Nat /\ IsFiniteSet(A) /\ \A i \in A : c[i] \in Int
    BY DEF PassInput
  <2>2. d \in Nat /\ d > 0
    BY SomethingIsThere
  <2>3. QED
    BY <2>1, <2>2, FS_CardinalityType
<1>2. \A i \in A : /\ Floors(pool, c, A)[i] \in Nat /\ Fractions(pool, c, A)[i] \in Nat
                   /\ Fractions(pool, c, A)[i] < d
                   /\ dividends[i] = multiples[i] + Fractions(pool, c, A)[i]
                   /\ dividends[i] = pool * c[i] /\ multiples[i] = d * Floors(pool, c, A)[i]
  BY PartsType
<1> HIDE DEF dividends, multiples, n
<1>3. SumFunctionOnSet(dividends, A) = pool * d
  <2>1. \A i \in A : c[i] \in Int /\ dividends[i] = pool * c[i]
    BY <1>1, <1>2
  <2>2. QED
    <3>1. IsFiniteSet(A) /\ pool \in Int
      BY <1>1
    <3> HIDE DEF d
    <3>2. SumFunctionOnSet(dividends, A) = pool * SumFunctionOnSet(c, A)
      BY <2>1, <3>1, SumScaled
    <3>3. QED
      BY <3>2 DEF d
<1>4. SumFunctionOnSet(multiples, A) = d * whole
  <2>1. \A i \in A : Floors(pool, c, A)[i] \in Int /\ multiples[i] = d * Floors(pool, c, A)[i]
    BY <1>2
  <2>2. QED
    <3>1. IsFiniteSet(A) /\ d \in Int
      BY <1>1
    <3> HIDE DEF d
    <3>2. SumFunctionOnSet(multiples, A) = d * SumFunctionOnSet(Floors(pool, c, A), A)
      BY <2>1, <3>1, SumScaled
    <3>3. QED
      BY <3>2
<1>5. SumFunctionOnSet(dividends, A) = SumFunctionOnSet(multiples, A) + parts
  <2>1. \A i \in A : /\ multiples[i] \in Int /\ Fractions(pool, c, A)[i] \in Int
                     /\ dividends[i] = multiples[i] + Fractions(pool, c, A)[i]
    BY <1>1, <1>2
  <2>2. IsFiniteSet(A)
    BY <1>1
  <2>3. QED
    BY <2>1, <2>2, SumAdded, Z3
<1>6. parts \in Nat /\ whole \in Nat
  BY <1>1, <1>2, SumOfNats
<1>7. parts <= n * d
  <2>1. \A i \in A : Fractions(pool, c, A)[i] \in Int /\ Fractions(pool, c, A)[i] <= d
    BY <1>1, <1>2
  <2>2. QED
    <3>1. IsFiniteSet(A) /\ d \in Int
      BY <1>1
    <3> HIDE DEF d
    <3>2. SumFunctionOnSet(Fractions(pool, c, A), A) <= Cardinality(A) * d
      BY <2>1, <3>1, SumBounded
    <3>3. QED
      BY <3>2 DEF n
<1>8. Residual(pool, c, A) = pool - whole
  BY DEF Residual
<1> DEFINE r == pool - whole
<1>9. d * r = parts /\ r \in Int
  <2>1. pool * d = d * whole + parts
    BY <1>3, <1>4, <1>5
  <2> HIDE DEF d, whole, parts
  <2>2. d * (pool - whole) = pool * d - d * whole
    BY <1>1, <1>6
  <2>3. pool * d \in Nat /\ d * whole \in Nat
    BY <1>1, <1>6
  <2>4. QED
    BY <1>1, <1>6, <2>1, <2>2, <2>3
<1> HIDE DEF r, d, parts, n, whole
<1>10. r >= 0
  <2> SUFFICES ASSUME r < 0 PROVE FALSE
    BY <1>9
  <2>1. d * r < 0
    BY <1>1, <1>9
  <2>2. QED
    BY <1>6, <1>9, <2>1
<1>11. r <= n
  <2> SUFFICES ASSUME r > n PROVE FALSE
    BY <1>1, <1>9
  <2>1. d * (r - n) > 0
    BY <1>1, <1>9
  <2>2. d * (r - n) = d * r - n * d
    BY <1>1, <1>9
  <2>3. d * r \in Int /\ n * d \in Int
    BY <1>1, <1>9
  <2>4. QED
    BY <1>7, <1>9, <2>1, <2>2, <2>3
<1>12. QED
  BY <1>8, <1>9, <1>10, <1>11 DEF r, n, whole

\* The fractions, with positions to tell equal ones apart, rank the contributors.
LEMMA OutrankingRanks ==
  ASSUME NEW pool, NEW c, NEW A, PassInput(pool, c, A)
  PROVE  Ranks(Outranking(pool, c, A), A)
<1> DEFINE f == Fractions(pool, c, A)
           R == Outranking(pool, c, A)
<1>1. \A i \in A : f[i] \in Int /\ i \in Int
  <2>1. \A i \in A : f[i] \in Nat
    BY PartsType
  <2>2. A \in SUBSET Nat
    BY DEF PassInput
  <2>3. QED
    BY <2>1, <2>2
<1>2. \A i, j \in A : <<i, j>> \in R <=> f[i] > f[j] \/ (f[i] = f[j] /\ i < j)
  BY DEF Outranking
<1> HIDE DEF f, R
<1>3. QED
  BY <1>1, <1>2 DEF Ranks, R

\* The shares are whole amounts and add up to the pool: the units the rounding left over
\* all find somebody, and no unit is paid that is not there.
THEOREM SharesExact ==
  ASSUME NEW pool, NEW c, NEW A, PassInput(pool, c, A)
  PROVE  /\ Shares(pool, c, A) \in [A -> Nat]
         /\ SumFunctionOnSet(Shares(pool, c, A), A) = pool
<1> DEFINE shares == Shares(pool, c, A)
           floors == Floors(pool, c, A)
           ones == [i \in A |-> IF i \in Rewarded(pool, c, A) THEN 1 ELSE 0]
<1>1. shares = [i \in A |-> floors[i] + ones[i]]
  BY SharesInParts
<1>2. /\ IsFiniteSet(A) /\ pool \in Nat
      /\ \A i \in A : floors[i] \in Nat
  <2>1. \A i \in A : floors[i] \in Nat
    BY PartsType
  <2>2. QED
    BY <2>1 DEF PassInput
<1>3. \A i \in A : ones[i] = IF i \in Rewarded(pool, c, A) THEN 1 ELSE 0
  OBVIOUS
<1>4. Rewarded(pool, c, A) \in SUBSET A
  BY DEF Rewarded, First
<1> HIDE DEF floors, ones
<1>5. shares \in [A -> Nat] /\ \A i \in A : ones[i] \in Nat
  BY <1>1, <1>2, <1>3
<1>6. SumFunctionOnSet(ones, A) = Residual(pool, c, A)
  <2>1. SumFunctionOnSet(ones, A) = Cardinality(Rewarded(pool, c, A))
    BY <1>2, <1>3, <1>4, SumOfOnes
  <2>2. Cardinality(Rewarded(pool, c, A)) = Residual(pool, c, A)
    BY <1>2, OutrankingRanks, ResidualIsSmall, FirstCount DEF Rewarded
  <2>3. QED
    BY <2>1, <2>2
<1>7. SumFunctionOnSet(shares, A) = SumFunctionOnSet(floors, A) + SumFunctionOnSet(ones, A)
  <2>1. \A i \in A : floors[i] \in Int /\ ones[i] \in Int /\ shares[i] = floors[i] + ones[i]
    BY <1>1, <1>2, <1>5
  <2>2. IsFiniteSet(A)
    BY <1>2
  <2> HIDE DEF shares
  <2>3. QED
    BY <2>1, <2>2, SumAdded, Z3
<1>8. SumFunctionOnSet(floors, A) \in Int
  <2>1. \A i \in A : floors[i] \in Int
    BY <1>2
  <2>2. QED
    BY <1>2, <2>1, SumWithout
<1>9. SumFunctionOnSet(shares, A) = pool
  BY <1>2, <1>6, <1>7, <1>8 DEF Residual, floors
<1>10. QED
  BY <1>5, <1>9

\* Whoever put in more has no smaller share of a pool: rounding and the order of the
\* leftover units never turn two contributors around.
THEOREM LargerShare ==
  ASSUME NEW pool, NEW c, NEW A, PassInput(pool, c, A), pool > 0,
         NEW i \in A, NEW j \in A, c[i] > c[j]
  PROVE  Shares(pool, c, A)[i] >= Shares(pool, c, A)[j]
<1> DEFINE f == Floors(pool, c, A)
           r == Fractions(pool, c, A)
           d == SumFunctionOnSet(c, A)
           R == Outranking(pool, c, A)
           won == Rewarded(pool, c, A)
<1>1. /\ Shares(pool, c, A)[i] = f[i] + (IF i \in won THEN 1 ELSE 0)
      /\ Shares(pool, c, A)[j] = f[j] + (IF j \in won THEN 1 ELSE 0)
  BY SharesInParts
<1>2. /\ f[i] \in Nat /\ r[i] \in Nat /\ f[j] \in Nat /\ r[j] \in Nat
      /\ pool * c[i] = d * f[i] + r[i] /\ pool * c[j] = d * f[j] + r[j]
      /\ d \in Nat /\ d > 0
  BY PartsType, SomethingIsThere
<1>3. pool * c[i] > pool * c[j] /\ pool * c[i] \in Nat /\ pool * c[j] \in Nat
  <2>1. pool \in Nat /\ c[i] \in Nat /\ c[j] \in Nat
    BY DEF PassInput
  <2>2. pool * (c[i] - c[j]) > 0
    BY <2>1
  <2>3. pool * (c[i] - c[j]) = pool * c[i] - pool * c[j]
    BY <2>1
  <2>4. pool * c[i] \in Nat /\ pool * c[j] \in Nat
    BY <2>1
  <2>5. QED
    BY <2>2, <2>3, <2>4
<1>4. f[i] >= f[j]
  <2>1. (pool * c[j]) \div d <= (pool * c[i]) \div d
    <3> DEFINE m == pool * c[j]
               n == pool * c[i]
    <3>1. m \in Nat /\ n \in Nat /\ m <= n
      BY <1>3
    <3> HIDE DEF m, n, d
    <3>2. m \div d <= n \div d
      BY <1>2, <3>1, DivisionMonotone
    <3>3. QED
      BY <3>2 DEF m, n
  <2>2. QED
    BY <2>1 DEF Floors
<1> HIDE DEF f, r, d, won
<1>5. CASE f[i] = f[j]
  <2>1. r[i] > r[j]
    BY <1>2, <1>3, <1>5
  <2>2. <<i, j>> \in R
    BY <2>1 DEF Outranking, r
  <2>3. i \in Ahead(R, A, j)
    BY <2>2 DEF Ahead
  <2>4. /\ Cardinality(Ahead(R, A, i)) < Cardinality(Ahead(R, A, j))
        /\ Cardinality(Ahead(R, A, i)) \in Nat /\ Cardinality(Ahead(R, A, j)) \in Nat
        /\ Residual(pool, c, A) \in Nat
    BY <2>3, OutrankingRanks, AheadHasFewer, ResidualIsSmall DEF PassInput
  <2>5. j \in won => i \in won
    BY <2>4 DEF won, Rewarded, First
  <2>6. QED
    BY <1>1, <1>2, <1>5, <2>5
<1>6. CASE f[i] # f[j]
  BY <1>1, <1>2, <1>4, <1>6
<1>7. QED
  BY <1>5, <1>6

-----------------------------------------------------------------------------
(* Caps and capacities. *)

LEMMA LesserOfTwo ==
  ASSUME NEW a \in Nat, NEW b \in Nat
  PROVE  Lesser(a, b) \in Nat /\ Lesser(a, b) <= a /\ Lesser(a, b) <= b /\ Lesser(a, b) \in {a, b}
BY DEF Lesser

\* The cap of a whole amount is a whole amount.
LEMMA CapIsNat == ASSUME NEW c \in Nat PROVE Cap(c) \in Nat
<1> DEFINE n == c * CapNumerator
<1>1. n \in Nat /\ CapDenominator \in Nat /\ CapDenominator > 0
  BY RuleAssumption
<1> HIDE DEF n
<1>2. n \div CapDenominator \in Nat
  BY <1>1
<1>3. QED
  BY <1>2 DEF Cap, n

\* What is left of a cap is a whole amount, and what fits into it keeps to the cap.
LEMMA RemainingWithinCap ==
  ASSUME NEW cap \in Nat, NEW paid \in Nat
  PROVE  /\ Remaining(cap, paid) \in Nat
         /\ paid <= cap => \A more \in Nat : more <= Remaining(cap, paid) => paid + more <= cap
         /\ paid >= cap => Remaining(cap, paid) = 0
BY DEF Remaining

-----------------------------------------------------------------------------
(* One pass. *)

\* An allocation in progress: contributors at their positions, what they put in, what each
\* may be paid and has been given so far, and the pool that is left.
InProgress(I, c, capacity, payments, pool) ==
  /\ I \in SUBSET Nat /\ IsFiniteSet(I)
  /\ \A i \in I : c[i] \in Nat /\ c[i] > 0
  /\ capacity \in [I -> Nat] /\ payments \in [I -> Nat] /\ pool \in Nat
  /\ \A i \in I : payments[i] <= capacity[i]

\* What a pass pays.
PaidInPass(c, capacity, payments, pool) ==
  Truncated(Shares(pool, c, Active(capacity, payments)), capacity, payments)

\* Whoever put in more has been given no less, unless the capacity stopped it.
Ordered(I, c, capacity, payments) ==
  \A i, j \in I :
    c[i] > c[j] /\ i \in Active(capacity, payments) => payments[i] >= payments[j]

\* Those a pass pays are fit for it.
LEMMA ActiveIsInput ==
  ASSUME NEW I, NEW c, NEW capacity, NEW payments, NEW pool,
         InProgress(I, c, capacity, payments, pool), Active(capacity, payments) # {}
  PROVE  PassInput(pool, c, Active(capacity, payments))
<1>1. Active(capacity, payments) \subseteq I
  BY DEF InProgress, Active
<1>2. IsFiniteSet(Active(capacity, payments))
  BY <1>1, FS_Subset DEF InProgress
<1>3. QED
  BY <1>1, <1>2 DEF InProgress, PassInput

\* What each contributor is paid in a pass: the share, cut to what was left, or nothing.
LEMMA PaidEach ==
  ASSUME NEW I, NEW c, NEW capacity, NEW payments, NEW pool,
         InProgress(I, c, capacity, payments, pool), Active(capacity, payments) # {}
  PROVE  LET A == Active(capacity, payments)
             shares == Shares(pool, c, A)
             paid == PaidInPass(c, capacity, payments, pool)
         IN  /\ paid \in [I -> Nat]
             /\ A \in SUBSET I
             /\ \A i \in A :
                  /\ shares[i] \in Nat /\ capacity[i] - payments[i] \in Nat
                  /\ payments[i] < capacity[i]
                  /\ paid[i] = payments[i] + Lesser(shares[i], capacity[i] - payments[i])
             /\ \A i \in I \ A : paid[i] = payments[i] /\ payments[i] = capacity[i]
             /\ \A i \in I : paid[i] <= capacity[i] /\ payments[i] <= paid[i]
<1> DEFINE A == Active(capacity, payments)
           shares == Shares(pool, c, A)
           paid == PaidInPass(c, capacity, payments, pool)
<1>1. shares \in [A -> Nat]
  BY ActiveIsInput, SharesExact
<1>2. A \in SUBSET I /\ \A i \in I : i \in A <=> capacity[i] - payments[i] > 0
  BY DEF InProgress, Active
<1>3. \A i \in I : payments[i] \in Nat /\ capacity[i] \in Nat /\ payments[i] <= capacity[i]
  BY DEF InProgress
<1> HIDE DEF A, shares
<1>4. paid = [i \in I |-> IF i \in A THEN payments[i] + Lesser(shares[i], capacity[i] - payments[i])
                                   ELSE payments[i]]
  BY <1>1 DEF PaidInPass, Truncated, InProgress, A, shares
<1> HIDE DEF paid
<1>5. ASSUME NEW i \in A
      PROVE  /\ shares[i] \in Nat /\ capacity[i] - payments[i] \in Nat
             /\ payments[i] < capacity[i]
             /\ paid[i] = payments[i] + Lesser(shares[i], capacity[i] - payments[i])
             /\ paid[i] \in Nat /\ paid[i] <= capacity[i] /\ payments[i] <= paid[i]
  <2>1. /\ shares[i] \in Nat /\ capacity[i] - payments[i] \in Nat
        /\ payments[i] < capacity[i]
        /\ paid[i] = payments[i] + Lesser(shares[i], capacity[i] - payments[i])
    BY <1>1, <1>2, <1>3, <1>4
  <2>2. /\ Lesser(shares[i], capacity[i] - payments[i]) \in Nat
        /\ Lesser(shares[i], capacity[i] - payments[i]) <= capacity[i] - payments[i]
    BY <2>1, LesserOfTwo
  <2>3. QED
    BY <1>2, <1>3, <2>1, <2>2
<1>6. ASSUME NEW i \in I \ A
      PROVE  /\ paid[i] = payments[i] /\ payments[i] = capacity[i]
             /\ paid[i] \in Nat
  BY <1>2, <1>3, <1>4
<1>7. paid \in [I -> Nat]
  <2>1. \A i \in I : paid[i] \in Nat
    BY <1>5, <1>6
  <2>2. paid = [i \in I |-> paid[i]]
    BY <1>4
  <2>3. QED
    BY <2>1, <2>2
<1>8. \A i \in I : paid[i] <= capacity[i] /\ payments[i] <= paid[i]
  BY <1>3, <1>5, <1>6
<1>9. QED
  BY <1>2, <1>5, <1>6, <1>7, <1>8 DEF A, shares, paid

\* A pass takes out of the pool exactly what it pays, and either empties it or takes somebody
\* to the capacity: the loop makes at most one pass for every contributor.
THEOREM PassExact ==
  ASSUME NEW I, NEW c, NEW capacity, NEW payments, NEW pool,
         InProgress(I, c, capacity, payments, pool), Active(capacity, payments) # {},
         NEW paid, paid = PaidInPass(c, capacity, payments, pool),
         NEW left,
         left = pool - (SumFunctionOnSet(paid, I) - SumFunctionOnSet(payments, I))
  PROVE  /\ InProgress(I, c, capacity, paid, left)
         /\ SumFunctionOnSet(paid, I) + left = SumFunctionOnSet(payments, I) + pool
         /\ Active(capacity, paid) \subseteq Active(capacity, payments)
         /\ left = 0 \/ Active(capacity, paid) # Active(capacity, payments)
<1> DEFINE A == Active(capacity, payments)
           shares == Shares(pool, c, A)
           gain == [i \in I |-> paid[i] - payments[i]]
           Sum(f, S) == SumFunctionOnSet(f, S)
<1>1. /\ paid \in [I -> Nat]
      /\ A \in SUBSET I
      /\ \A i \in A :
           /\ shares[i] \in Nat /\ capacity[i] - payments[i] \in Nat
           /\ payments[i] < capacity[i]
           /\ paid[i] = payments[i] + Lesser(shares[i], capacity[i] - payments[i])
      /\ \A i \in I \ A : paid[i] = payments[i] /\ payments[i] = capacity[i]
      /\ \A i \in I : paid[i] <= capacity[i] /\ payments[i] <= paid[i]
  BY PaidEach
<1>2. Sum(shares, A) = pool
  BY ActiveIsInput, SharesExact
<1>3. /\ pool \in Nat /\ IsFiniteSet(I) /\ IsFiniteSet(A) /\ IsFiniteSet(I \ A)
      /\ \A i \in I : payments[i] \in Nat /\ capacity[i] \in Nat
  BY <1>1, FS_Subset DEF InProgress
<1>4. /\ \A i \in I : gain[i] \in Nat /\ paid[i] = payments[i] + gain[i] /\ paid[i] \in Nat
      /\ \A i \in A : gain[i] = Lesser(shares[i], capacity[i] - payments[i])
      /\ \A i \in I \ A : gain[i] = 0
  <2>1. \A i \in I : gain[i] = paid[i] - payments[i]
    OBVIOUS
  <2> HIDE DEF gain, A, shares
  <2>2. \A i \in I : gain[i] \in Nat /\ paid[i] = payments[i] + gain[i] /\ paid[i] \in Nat
    BY <1>1, <1>3, <2>1
  <2>3. ASSUME NEW i \in A PROVE gain[i] = Lesser(shares[i], capacity[i] - payments[i])
    <3>1. Lesser(shares[i], capacity[i] - payments[i]) \in Nat
      BY <1>1, LesserOfTwo
    <3>2. QED
      BY <1>1, <1>3, <2>1, <3>1
  <2>4. QED
    BY <1>1, <1>3, <2>1, <2>2, <2>3
<1> HIDE DEF gain, A, shares
<1>5. Sum(paid, I) = Sum(payments, I) + Sum(gain, I)
  <2>1. \A i \in I : payments[i] \in Int /\ gain[i] \in Int /\ paid[i] = payments[i] + gain[i]
    BY <1>3, <1>4
  <2>2. IsFiniteSet(I)
    BY <1>3
  <2>3. QED
    BY <2>1, <2>2, SumAdded, Z3
<1>6. Sum(gain, I) = Sum(gain, A)
  <2>1. \A i \in I : gain[i] \in Int
    BY <1>4
  <2>2. Sum(gain, I) = Sum(gain, A) + Sum(gain, I \ A)
    BY <1>1, <1>3, <2>1, SumSplit
  <2>3. Sum(gain, I \ A) = 0
    BY <1>3, <1>4, SumOfZeros
  <2>4. Sum(gain, A) \in Int
    BY <1>1, <1>3, <2>1, SumWithout
  <2>5. QED
    BY <2>2, <2>3, <2>4
<1>7. Sum(gain, A) <= pool
  <2>1. ASSUME NEW i \in A
        PROVE  gain[i] <= shares[i] /\ gain[i] \in Int /\ shares[i] \in Int
    <3>1. Lesser(shares[i], capacity[i] - payments[i]) <= shares[i]
      BY <1>1, LesserOfTwo
    <3>2. QED
      BY <1>1, <1>4, <3>1
  <2>2. Sum(gain, A) <= Sum(shares, A)
    <3>1. IsFiniteSet(A)
      BY <1>3
    <3>2. QED
      BY <2>1, <3>1, SumRelates, Z3
  <2>3. QED
    BY <1>2, <2>2
<1>8. Sum(gain, A) \in Nat /\ Sum(payments, I) \in Nat
  BY <1>1, <1>3, <1>4, SumOfNats
<1>9. /\ left = pool - Sum(gain, A) /\ left \in Nat
      /\ Sum(paid, I) + left = Sum(payments, I) + pool
  BY <1>3, <1>5, <1>6, <1>7, <1>8
<1>10. InProgress(I, c, capacity, paid, left)
  BY <1>1, <1>9 DEF InProgress
<1>11. Active(capacity, paid) \subseteq A
  <2>1. Active(capacity, paid) = {i \in I : capacity[i] - paid[i] > 0}
    BY <1>1 DEF Active
  <2>2. ASSUME NEW i \in I \ A PROVE ~(capacity[i] - paid[i] > 0)
    BY <1>1, <1>3
  <2>3. QED
    BY <2>1, <2>2
<1>12. ASSUME Active(capacity, paid) = A PROVE left = 0
  <2>1. \A i \in A : capacity[i] - paid[i] > 0
    BY <1>12 DEF Active
  <2>2. ASSUME NEW i \in A PROVE gain[i] = shares[i] /\ gain[i] \in Int
    <3>1. /\ Lesser(shares[i], capacity[i] - payments[i]) \in {shares[i], capacity[i] - payments[i]}
          /\ gain[i] = Lesser(shares[i], capacity[i] - payments[i])
      BY <1>1, <1>4, LesserOfTwo
    <3>2. gain[i] # capacity[i] - payments[i]
      BY <1>1, <1>3, <1>4, <2>1
    <3>3. QED
      BY <1>1, <1>4, <3>1, <3>2
  <2>3. Sum(gain, A) = Sum(shares, A)
    <3>1. IsFiniteSet(A) /\ \A i \in A : gain[i] \in Int /\ gain[i] = shares[i]
      BY <1>3, <2>2
    <3>2. QED
      BY <3>1, SumSame, Z3
  <2>4. QED
    BY <1>2, <1>3, <1>9, <2>3
<1>13. QED
  BY <1>9, <1>10, <1>11, <1>12 DEF A

\* A pass keeps the order: whoever put in more has no smaller share.
LEMMA PassOrdered ==
  ASSUME NEW I, NEW c, NEW capacity, NEW payments, NEW pool, pool > 0,
         InProgress(I, c, capacity, payments, pool), Active(capacity, payments) # {},
         Ordered(I, c, capacity, payments)
  PROVE  Ordered(I, c, capacity, PaidInPass(c, capacity, payments, pool))
<1> DEFINE A == Active(capacity, payments)
           shares == Shares(pool, c, A)
           paid == PaidInPass(c, capacity, payments, pool)
<1>1. /\ paid \in [I -> Nat]
      /\ A \in SUBSET I
      /\ \A i \in A :
           /\ shares[i] \in Nat /\ capacity[i] - payments[i] \in Nat
           /\ payments[i] < capacity[i]
           /\ paid[i] = payments[i] + Lesser(shares[i], capacity[i] - payments[i])
      /\ \A i \in I \ A : paid[i] = payments[i] /\ payments[i] = capacity[i]
      /\ \A i \in I : paid[i] <= capacity[i] /\ payments[i] <= paid[i]
  BY PaidEach
<1>2. \A i \in I : payments[i] \in Nat /\ capacity[i] \in Nat
  BY DEF InProgress
<1> SUFFICES ASSUME NEW i \in I, NEW j \in I, c[i] > c[j], i \in Active(capacity, paid)
             PROVE  paid[i] >= paid[j]
  BY DEF Ordered
<1>3. capacity[i] - paid[i] > 0
  BY <1>1 DEF Active
<1>4. j \in A /\ i \in A => shares[i] >= shares[j]
  BY ActiveIsInput, LargerShare
<1> HIDE DEF A, shares, paid
<1>5. i \in A
  BY <1>1, <1>2, <1>3
<1>6. payments[i] >= payments[j]
  BY <1>5 DEF Ordered, A
<1>7. paid[i] = payments[i] + shares[i]
  <2>1. Lesser(shares[i], capacity[i] - payments[i]) \in {shares[i], capacity[i] - payments[i]}
    BY <1>1, <1>5, LesserOfTwo
  <2>2. Lesser(shares[i], capacity[i] - payments[i]) # capacity[i] - payments[i]
    BY <1>1, <1>2, <1>3, <1>5
  <2>3. QED
    BY <1>1, <1>5, <2>1, <2>2
<1>8. CASE j \in A
  <2>1. /\ Lesser(shares[j], capacity[j] - payments[j]) <= shares[j]
        /\ Lesser(shares[j], capacity[j] - payments[j]) \in Nat
    BY <1>1, <1>8, LesserOfTwo
  <2>2. paid[j] <= payments[j] + shares[j]
    BY <1>1, <1>2, <1>8, <2>1
  <2>3. QED
    BY <1>1, <1>2, <1>4, <1>5, <1>6, <1>7, <1>8, <2>2
<1>9. CASE j \notin A
  BY <1>1, <1>2, <1>5, <1>6, <1>7, <1>9
<1>10. QED
  BY <1>8, <1>9

-----------------------------------------------------------------------------
(* The whole allocation.  Its passes are a recursive function; that there is *)
(* one, and what it holds after every pass, is shown by counting up.         *)

\* When nobody can be paid any more the pool is empty, if it never held more than the
\* capacities have room for.
LEMMA NobodyActive ==
  ASSUME NEW I, NEW c, NEW capacity, NEW payments, NEW pool,
         InProgress(I, c, capacity, payments, pool), Active(capacity, payments) = {},
         SumFunctionOnSet(payments, I) + pool <= SumFunctionOnSet(capacity, I)
  PROVE  pool = 0
<1>1. \A i \in I : payments[i] \in Int /\ payments[i] = capacity[i]
  BY DEF InProgress, Active
<1>2. IsFiniteSet(I) /\ pool \in Nat
  BY DEF InProgress
<1>3. SumFunctionOnSet(payments, I) = SumFunctionOnSet(capacity, I)
  BY <1>1, <1>2, SumSame, Z3
<1>4. SumFunctionOnSet(payments, I) \in Int
  BY <1>1, <1>2, SumWithout
<1>5. QED
  BY <1>2, <1>3, <1>4

\* What the capacities have room for is a whole amount, and a run starts with no more.
LEMMA RoomForPool ==
  ASSUME NEW I, IsFiniteSet(I), NEW capacity \in [I -> Nat], NEW obligation \in Nat
  PROVE  /\ Lesser(obligation, SumFunctionOnSet(capacity, I)) \in Nat
         /\ Lesser(obligation, SumFunctionOnSet(capacity, I)) <= SumFunctionOnSet(capacity, I)
<1>1. SumFunctionOnSet(capacity, I) \in Nat
  <2>1. \A i \in I : capacity[i] \in Nat
    OBVIOUS
  <2>2. QED
    BY <2>1, SumOfNats, Z3
<1>2. QED
  BY <1>1, LesserOfTwo

\* What one more turn makes of the pool and the payments.
Turn(c, capacity, last) ==
  LET active == Active(capacity, last.payments)
      paid == Truncated(Shares(last.pool, c, active), capacity, last.payments)
  IN  IF last.pool > 0 /\ active # {}
      THEN [pool |-> last.pool - (SumFunctionOnSet(paid, DOMAIN c)
                                   - SumFunctionOnSet(last.payments, DOMAIN c)),
            payments |-> paid]
      ELSE last

Start(obligation, c, capacity) ==
  [pool |-> Lesser(obligation, SumFunctionOnSet(capacity, DOMAIN c)),
   payments |-> [i \in DOMAIN c |-> 0]]

Turns(after, n, obligation, c, capacity) ==
  after = [k \in 0..n |-> IF k = 0 THEN Start(obligation, c, capacity)
                          ELSE Turn(c, capacity, after[k - 1])]

\* Allocate in these terms.
LEMMA AllocateUnfolded ==
  ASSUME NEW obligation, NEW c, NEW distributed
  PROVE  LET n == Cardinality(DOMAIN c)
             capacity == Capacities(c, distributed)
         IN  Allocate(obligation, c, distributed) =
               (CHOOSE after : Turns(after, n, obligation, c, capacity))[n].payments
BY DEF Allocate, Turns, Turn, Start

\* There is such a function, whatever the number of turns.
LEMMA TurnsExist ==
  ASSUME NEW n \in Nat, NEW obligation, NEW c, NEW capacity
  PROVE  \E after : Turns(after, n, obligation, c, capacity)
<1> DEFINE T == {m \in Nat : \E after : Turns(after, m, obligation, c, capacity)}
<1>1. 0 \in T
  <2>1. Turns([k \in 0..0 |-> Start(obligation, c, capacity)], 0, obligation, c, capacity)
    BY DEF Turns
  <2>2. QED
    BY <2>1
<1>2. ASSUME NEW m \in Nat, m \in T PROVE m + 1 \in T
  <2>1. PICK after : Turns(after, m, obligation, c, capacity)
    BY <1>2
  <2> DEFINE longer == [k \in 0..(m + 1) |-> IF k = m + 1 THEN Turn(c, capacity, after[m]) ELSE after[k]]
             Next(g, k) == IF k = 0 THEN Start(obligation, c, capacity) ELSE Turn(c, capacity, g[k - 1])
  <2>2. \A k \in 0..m : after[k] = Next(after, k)
    BY <2>1 DEF Turns
  <2>3. ASSUME NEW k \in 0..(m + 1) PROVE longer[k] = Next(longer, k)
    <3>1. CASE k = m + 1
      <4>1. longer[k] = Turn(c, capacity, after[m]) /\ longer[k - 1] = after[m] /\ k # 0
        BY <3>1
      <4>2. QED
        BY <4>1
    <3>2. CASE k \in 0..m
      <4>1. longer[k] = after[k] /\ (k # 0 => longer[k - 1] = after[k - 1])
        BY <3>2
      <4>2. QED
        BY <2>2, <3>2, <4>1
    <3>3. QED
      BY <3>1, <3>2
  <2>4. longer = [k \in 0..(m + 1) |-> Next(longer, k)]
    <3>1. longer = [k \in 0..(m + 1) |-> longer[k]]
      OBVIOUS
    <3> HIDE DEF longer, Next
    <3>2. QED
      BY <2>3, <3>1
  <2>5. Turns(longer, m + 1, obligation, c, capacity)
    <3> HIDE DEF longer
    <3> QED BY <2>4 DEF Turns
  <2>6. QED
    BY <2>5
<1>3. \A m \in Nat : m \in T
  <2> HIDE DEF T
  <2> QED BY <1>1, <1>2, CountUp
<1>4. QED
  BY <1>3

\* What holds after the k-th of n turns.
After(k, n, obligation, c, capacity, state) ==
  /\ InProgress(DOMAIN c, c, capacity, state.payments, state.pool)
  /\ Ordered(DOMAIN c, c, capacity, state.payments)
  /\ SumFunctionOnSet(state.payments, DOMAIN c) + state.pool
       = Lesser(obligation, SumFunctionOnSet(capacity, DOMAIN c))
  /\ state.pool = 0 \/ Cardinality(Active(capacity, state.payments)) <= n - k

\* The inputs of an allocation.
AllocationInput(obligation, c, capacity) ==
  /\ obligation \in Nat
  /\ DOMAIN c \in SUBSET Nat /\ IsFiniteSet(DOMAIN c)
  /\ \A i \in DOMAIN c : c[i] \in Nat /\ c[i] > 0
  /\ capacity \in [DOMAIN c -> Nat]

\* The allocation starts with all there is room for in the pool.
LEMMA AfterStart ==
  ASSUME NEW obligation, NEW c, NEW capacity, AllocationInput(obligation, c, capacity)
  PROVE  After(0, Cardinality(DOMAIN c), obligation, c, capacity, Start(obligation, c, capacity))
<1> DEFINE I == DOMAIN c
           none == [i \in I |-> 0]
           pool == Lesser(obligation, SumFunctionOnSet(capacity, I))
<1>1. /\ IsFiniteSet(I) /\ I \in SUBSET Nat /\ obligation \in Nat
      /\ \A i \in I : c[i] \in Nat /\ c[i] > 0
      /\ capacity \in [I -> Nat]
  BY DEF AllocationInput
<1>2. pool \in Nat
  BY <1>1, RoomForPool
<1>3. SumFunctionOnSet(none, I) = 0
  <2>1. \A i \in I : none[i] = 0
    OBVIOUS
  <2> HIDE DEF none, I
  <2>2. QED
    BY <1>1, <2>1, SumOfZeros
<1>4. InProgress(I, c, capacity, none, pool)
  BY <1>1, <1>2 DEF InProgress
<1>5. Ordered(I, c, capacity, none)
  BY DEF Ordered
<1>6. Cardinality(Active(capacity, none)) <= Cardinality(I) - 0
  <2>1. Active(capacity, none) \subseteq I
    BY DEF Active
  <2>2. /\ Cardinality(Active(capacity, none)) <= Cardinality(I)
        /\ Cardinality(I) \in Nat
    BY <1>1, <2>1, FS_Subset, FS_CardinalityType
  <2>3. QED
    BY <2>2
<1>7. Start(obligation, c, capacity).pool = pool /\ Start(obligation, c, capacity).payments = none
  BY DEF Start
<1> HIDE DEF none, pool
<1>8. SumFunctionOnSet(none, I) + pool = pool
  BY <1>2, <1>3
<1>9. QED
  BY <1>4, <1>5, <1>6, <1>7, <1>8 DEF After, pool

\* Every turn empties the pool or has one contributor fewer to pay, or there was nothing
\* left to do.
LEMMA AfterTurn ==
  ASSUME NEW obligation, NEW c, NEW capacity, AllocationInput(obligation, c, capacity),
         NEW n \in Nat, NEW k \in Nat, NEW last, After(k, n, obligation, c, capacity, last)
  PROVE  After(k + 1, n, obligation, c, capacity, Turn(c, capacity, last))
<1> DEFINE I == DOMAIN c
           payments == last.payments
           pool == last.pool
           active == Active(capacity, payments)
           paid == PaidInPass(c, capacity, payments, pool)
           left == pool - (SumFunctionOnSet(paid, I) - SumFunctionOnSet(payments, I))
<1>1. /\ InProgress(I, c, capacity, payments, pool)
      /\ Ordered(I, c, capacity, payments)
      /\ SumFunctionOnSet(payments, I) + pool = Lesser(obligation, SumFunctionOnSet(capacity, I))
      /\ pool = 0 \/ Cardinality(active) <= n - k
  BY DEF After
<1>2. active \subseteq I /\ IsFiniteSet(active) /\ Cardinality(active) \in Nat /\ pool \in Nat
  <2>1. active \subseteq I /\ IsFiniteSet(I) /\ pool \in Nat
    BY <1>1 DEF InProgress, Active
  <2>2. QED
    BY <2>1, FS_Subset, FS_CardinalityType
<1>3. CASE pool > 0 /\ active # {}
  <2>1. /\ Turn(c, capacity, last).pool = left
        /\ Turn(c, capacity, last).payments = paid
    BY <1>3 DEF Turn, PaidInPass
  <2>2. /\ InProgress(I, c, capacity, paid, left)
        /\ SumFunctionOnSet(paid, I) + left = SumFunctionOnSet(payments, I) + pool
        /\ Active(capacity, paid) \subseteq active
        /\ left = 0 \/ Active(capacity, paid) # active
    <3>1. InProgress(I, c, capacity, payments, pool) /\ Active(capacity, payments) # {}
      BY <1>1, <1>3
    <3>2. /\ paid = PaidInPass(c, capacity, payments, pool)
          /\ left = pool - (SumFunctionOnSet(paid, I) - SumFunctionOnSet(payments, I))
      OBVIOUS
    <3> HIDE DEF I, payments, pool, paid, left, active
    <3>3. /\ InProgress(I, c, capacity, paid, left)
          /\ SumFunctionOnSet(paid, I) + left = SumFunctionOnSet(payments, I) + pool
          /\ Active(capacity, paid) \subseteq Active(capacity, payments)
          /\ left = 0 \/ Active(capacity, paid) # Active(capacity, payments)
      BY <3>1, <3>2, PassExact
    <3>4. QED
      BY <3>3 DEF active
  <2>3. Ordered(I, c, capacity, paid)
    BY <1>1, <1>3, PassOrdered
  <2>4. left = 0 \/ Cardinality(Active(capacity, paid)) <= n - (k + 1)
    <3>1. /\ IsFiniteSet(Active(capacity, paid)) /\ Cardinality(Active(capacity, paid)) \in Nat
          /\ Active(capacity, paid) # active
               => Cardinality(Active(capacity, paid)) < Cardinality(active)
      <4> HIDE DEF active, paid
      <4>1. /\ Cardinality(Active(capacity, paid)) <= Cardinality(active)
            /\ IsFiniteSet(Active(capacity, paid))
            /\ Cardinality(Active(capacity, paid)) = Cardinality(active)
                 => Active(capacity, paid) = active
        BY <1>2, <2>2, FS_Subset
      <4>2. Cardinality(Active(capacity, paid)) \in Nat
        BY <4>1, FS_CardinalityType
      <4>3. QED
        BY <1>2, <4>1, <4>2
    <3> HIDE DEF active, paid, left, pool
    <3>2. QED
      BY <1>1, <1>2, <1>3, <2>2, <3>1
  <2> HIDE DEF paid, left, payments, pool, active
  <2>5. QED
    BY <1>1, <2>1, <2>2, <2>3, <2>4 DEF After
<1>4. CASE ~(pool > 0 /\ active # {})
  <2>1. Turn(c, capacity, last) = last
    BY <1>4 DEF Turn
  <2>2. pool = 0 \/ Cardinality(active) <= n - (k + 1) \/ active = {}
    BY <1>1, <1>2, <1>4
  <2>3. active = {} => pool = 0
    <3> SUFFICES ASSUME active = {} PROVE pool = 0
      OBVIOUS
    <3>1. SumFunctionOnSet(payments, I) + pool <= SumFunctionOnSet(capacity, I)
      BY <1>1, RoomForPool DEF AllocationInput
    <3> HIDE DEF payments, pool, I
    <3>2. QED
      BY <1>1, <3>1, NobodyActive DEF active
  <2>4. QED
    BY <1>1, <2>1, <2>2, <2>3 DEF After
<1>5. QED
  BY <1>3, <1>4

\* The turns of an allocation, as Allocate chooses them.
Passes(obligation, c, capacity) ==
  CHOOSE after : Turns(after, Cardinality(DOMAIN c), obligation, c, capacity)

\* They are a start and one turn after the other, and after each of them the amounts are
\* as After says.
LEMMA AfterEachTurn ==
  ASSUME NEW obligation, NEW c, NEW capacity, AllocationInput(obligation, c, capacity)
  PROVE  LET n == Cardinality(DOMAIN c)
             after == Passes(obligation, c, capacity)
         IN  /\ n \in Nat
             /\ after[0] = Start(obligation, c, capacity)
             /\ \A k \in 0..n : k + 1 \in 0..n => after[k + 1] = Turn(c, capacity, after[k])
             /\ \A k \in 0..n : After(k, n, obligation, c, capacity, after[k])
<1> DEFINE n == Cardinality(DOMAIN c)
           after == Passes(obligation, c, capacity)
           T == {k \in Nat : k <= n => After(k, n, obligation, c, capacity, after[k])}
<1>1. n \in Nat
  BY FS_CardinalityType DEF AllocationInput
<1>2. Turns(after, n, obligation, c, capacity)
  <2> HIDE DEF n
  <2>1. \E f : Turns(f, n, obligation, c, capacity)
    BY <1>1, TurnsExist
  <2>2. QED
    BY <2>1 DEF Passes, n
<1> HIDE DEF after
<1>3. \A k \in 0..n : after[k] = IF k = 0 THEN Start(obligation, c, capacity)
                                 ELSE Turn(c, capacity, after[k - 1])
  BY <1>2 DEF Turns
<1>4. after[0] = Start(obligation, c, capacity)
  BY <1>1, <1>3
<1>5. ASSUME NEW k \in Nat, k + 1 <= n PROVE after[k + 1] = Turn(c, capacity, after[k])
  <2>1. k + 1 \in 0..n /\ k + 1 # 0 /\ (k + 1) - 1 = k
    BY <1>1, <1>5
  <2> HIDE DEF n
  <2>2. QED
    BY <1>3, <2>1
<1>6. 0 \in T
  BY <1>4, AfterStart
<1>7. ASSUME NEW k \in Nat, k \in T PROVE k + 1 \in T
  <2> SUFFICES ASSUME k + 1 <= n PROVE After(k + 1, n, obligation, c, capacity, after[k + 1])
    OBVIOUS
  <2>1. After(k, n, obligation, c, capacity, after[k])
    BY <1>1, <1>7
  <2> HIDE DEF n
  <2>2. QED
    BY <1>1, <1>5, <2>1, AfterTurn
<1>8. \A k \in Nat : k \in T
  <2> HIDE DEF T
  <2> QED BY <1>6, <1>7, CountUp
<1>9. \A k \in 0..n : After(k, n, obligation, c, capacity, after[k])
  BY <1>1, <1>8
<1> HIDE DEF n
<1>10. \A k \in 0..n : k + 1 \in 0..n => after[k + 1] = Turn(c, capacity, after[k])
  BY <1>1, <1>5
<1>11. QED
  BY <1>1, <1>4, <1>9, <1>10 DEF after, n

\* Once there is nothing left to do a turn changes nothing: the loop of the code stops there,
\* and the payments are those of the last turn.
LEMMA StoppedEarly ==
  ASSUME NEW obligation, NEW distributed, NEW c,
         AllocationInput(obligation, c, Capacities(c, distributed)),
         NEW k \in 0..Cardinality(DOMAIN c),
         LET capacity == Capacities(c, distributed)
             state == Passes(obligation, c, capacity)[k]
         IN  ~(state.pool > 0 /\ Active(capacity, state.payments) # {})
  PROVE  Allocate(obligation, c, distributed)
           = Passes(obligation, c, Capacities(c, distributed))[k].payments
<1> DEFINE n == Cardinality(DOMAIN c)
           capacity == Capacities(c, distributed)
           after == Passes(obligation, c, capacity)
           T == {d \in Nat : k + d <= n => after[k + d] = after[k]}
<1>1. Allocate(obligation, c, distributed) = after[n].payments
  BY AllocateUnfolded DEF Passes
<1>2. /\ n \in Nat
      /\ \A j \in 0..n : j + 1 \in 0..n => after[j + 1] = Turn(c, capacity, after[j])
  BY AfterEachTurn
<1>3. Turn(c, capacity, after[k]) = after[k]
  BY DEF Turn
<1> HIDE DEF after, capacity
<1>4. 0 \in T
  OBVIOUS
<1>5. ASSUME NEW d \in Nat, d \in T PROVE d + 1 \in T
  <2> SUFFICES ASSUME k + (d + 1) <= n PROVE after[k + (d + 1)] = after[k]
    OBVIOUS
  <2>1. after[k + d] = after[k]
    BY <1>2, <1>5
  <2> HIDE DEF n
  <2>2. /\ k + d \in 0..n /\ (k + d) + 1 \in 0..n /\ k + (d + 1) = (k + d) + 1
    <3>1. k \in 0..n
      BY DEF n
    <3>2. QED
      BY <1>2, <3>1
  <2>3. QED
    BY <1>2, <1>3, <2>1, <2>2
<1>6. \A d \in Nat : d \in T
  <2> HIDE DEF T
  <2> QED BY <1>4, <1>5, CountUp
<1>7. after[n] = after[k]
  <2>1. n - k \in Nat /\ k + (n - k) = n
    BY <1>2
  <2>2. QED
    BY <1>2, <1>6, <2>1
<1>8. QED
  BY <1>1, <1>7 DEF after, capacity

\* The allocation of a run: whole amounts, none past its capacity, that add up to the whole
\* obligation or, when the capacities have less room than that, to all of it; and whoever put
\* in more is paid no less unless the capacity stopped it.  As many turns as there are
\* contributors are enough, so the check after the loop that the pool is empty cannot fail.
THEOREM AllocateExact ==
  ASSUME NEW obligation, NEW c, NEW distributed,
         AllocationInput(obligation, c, Capacities(c, distributed))
  PROVE  LET I == DOMAIN c
             capacity == Capacities(c, distributed)
             paid == Allocate(obligation, c, distributed)
         IN  /\ paid \in [I -> Nat]
             /\ \A i \in I : paid[i] <= capacity[i]
             /\ SumFunctionOnSet(paid, I) = Lesser(obligation, SumFunctionOnSet(capacity, I))
             /\ Ordered(I, c, capacity, paid)
<1> DEFINE I == DOMAIN c
           n == Cardinality(I)
           capacity == Capacities(c, distributed)
           after == Passes(obligation, c, capacity)
<1>1. n \in Nat
  BY FS_CardinalityType DEF AllocationInput
<1>2. Allocate(obligation, c, distributed) = after[n].payments
  BY AllocateUnfolded DEF Passes
<1>3. After(n, n, obligation, c, capacity, after[n])
  BY <1>1, AfterEachTurn
<1> HIDE DEF after, capacity
<1>4. AllocationInput(obligation, c, capacity)
  BY DEF capacity
<1> DEFINE paid == after[n].payments
           pool == after[n].pool
<1>5. /\ InProgress(I, c, capacity, paid, pool)
      /\ Ordered(I, c, capacity, paid)
      /\ SumFunctionOnSet(paid, I) + pool = Lesser(obligation, SumFunctionOnSet(capacity, I))
      /\ pool = 0 \/ Cardinality(Active(capacity, paid)) <= n - n
  BY <1>3 DEF After
<1> HIDE DEF paid, pool
<1>6. /\ paid \in [I -> Nat] /\ IsFiniteSet(I)
      /\ \A i \in I : paid[i] \in Nat /\ capacity[i] \in Nat /\ paid[i] <= capacity[i]
      /\ pool \in Nat /\ obligation \in Nat
  BY <1>4, <1>5 DEF InProgress, AllocationInput
<1>7. pool = 0
  <2> SUFFICES ASSUME Cardinality(Active(capacity, paid)) <= n - n PROVE pool = 0
    BY <1>5
  <2>1. IsFiniteSet(Active(capacity, paid)) /\ Active(capacity, paid) \subseteq I
    <3>1. Active(capacity, paid) \subseteq I
      BY <1>6 DEF Active
    <3>2. QED
      BY <1>6, <3>1, FS_Subset
  <2>2. Active(capacity, paid) = {}
    <3>1. Cardinality(Active(capacity, paid)) \in Nat
      BY <2>1, FS_CardinalityType
    <3>2. Cardinality(Active(capacity, paid)) = 0
      BY <1>1, <3>1
    <3>3. QED
      BY <2>1, <3>2, FS_EmptySet
  <2>3. SumFunctionOnSet(paid, I) + pool <= SumFunctionOnSet(capacity, I)
    BY <1>4, <1>5, RoomForPool DEF AllocationInput
  <2>4. QED
    BY <1>5, <2>2, <2>3, NobodyActive
<1>8. SumFunctionOnSet(paid, I) = Lesser(obligation, SumFunctionOnSet(capacity, I))
  <2>1. SumFunctionOnSet(paid, I) \in Nat
    <3>1. IsFiniteSet(I) /\ \A i \in I : paid[i] \in Nat
      BY <1>6
    <3>2. QED
      BY <3>1, SumOfNats, Z3
  <2>2. QED
    BY <1>5, <1>7, <2>1
<1>9. Allocate(obligation, c, distributed) = paid
  BY <1>2 DEF paid
<1>10. QED
  BY <1>5, <1>6, <1>8, <1>9 DEF capacity
=============================================================================
