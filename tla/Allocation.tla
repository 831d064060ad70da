----------------------------- MODULE Allocation -----------------------------
(***************************************************************************)
(* The arithmetic of packages/domain/src/revenue-share.ts: the cap on what *)
(* a contributor may be paid, and one pass of the capped pro-rata          *)
(* allocation (buildCappedAllocations).  Amounts are whole minor units     *)
(* (bigint in the code, so there is no overflow); contributors are         *)
(* positions 1..n of the input, since the tie-break is by position.        *)
(***************************************************************************)
EXTENDS Integers, FiniteSets, Functions

CONSTANTS CapNumerator, CapDenominator   \* the rule's cap, 3/2 in the demo rule

\* validateRule
ASSUME RuleAssumption ==
  CapDenominator \in Nat \ {0} /\ CapNumerator \in Nat /\ CapDenominator <= CapNumerator

Cap(contribution) == (contribution * CapNumerator) \div CapDenominator

Remaining(cap, distributed) == IF cap > distributed THEN cap - distributed ELSE 0

Capacities(contribution, distributed) ==
  [i \in DOMAIN contribution |-> Remaining(Cap(contribution[i]), distributed[i])]

Lesser(a, b) == IF a < b THEN a ELSE b

\* The contributors who can still be paid something.
Active(capacity, payments) == {i \in DOMAIN payments : capacity[i] - payments[i] > 0}

----------------------------------------------------------------------------
\* Two slips in the shares: the units left over are kept, or go to the smallest
\* remainders.
SharesFloored(pool, contribution, A) ==
  [i \in A |-> (pool * contribution[i]) \div SumFunctionOnSet(contribution, A)]

SharesBySmallest(pool, contribution, A) ==
  LET total == SumFunctionOnSet(contribution, A)
      base == [i \in A |-> (pool * contribution[i]) \div total]
      remainder == [i \in A |-> (pool * contribution[i]) % total]
      residual == pool - SumFunctionOnSet(base, A)
      rewarded == {i \in A : Cardinality({j \in A : remainder[j] < remainder[i]}) < residual}
  IN  [i \in A |-> base[i] + (IF i \in rewarded THEN 1 ELSE 0)]

\* The shares of one pass: the pool is split over the active contributors A in
\* proportion to their contributions, each share rounded down, and the units left
\* over go one each to the largest remainders, the earlier position first when two
\* are equal.
Shares(pool, contribution, A) ==
  LET total == SumFunctionOnSet(contribution, A)
      base == [i \in A |-> (pool * contribution[i]) \div total]
      remainder == [i \in A |-> (pool * contribution[i]) % total]
      residual == pool - SumFunctionOnSet(base, A)
      Outranks(i, j) == remainder[i] > remainder[j] \/ (remainder[i] = remainder[j] /\ i < j)
      rewarded == {i \in A : Cardinality({j \in A : Outranks(j, i)}) < residual}
  IN  [i \in A |-> base[i] + (IF i \in rewarded THEN 1 ELSE 0)]

\* A slip: the payment that crosses the cap is not cut.
Uncut(shares, capacity, payments) ==
  [i \in DOMAIN payments |-> payments[i] + (IF i \in DOMAIN shares THEN shares[i] ELSE 0)]

\* A payment that would cross the cap is cut to what was left of it.
Truncated(shares, capacity, payments) ==
  [i \in DOMAIN payments |->
     IF i \in DOMAIN shares THEN payments[i] + Lesser(shares[i], capacity[i] - payments[i])
                            ELSE payments[i]]

\* The whole allocation: the pool is what the capacities leave room for, and passes
\* are made until it is empty, at most one for every contributor.
Allocate(obligation, contribution, distributed) ==
  LET n == Cardinality(DOMAIN contribution)
      capacity == Capacities(contribution, distributed)
      Total(f) == SumFunctionOnSet(f, DOMAIN contribution)
      after[k \in 0..n] ==
        IF k = 0
        THEN [pool |-> Lesser(obligation, Total(capacity)),
              payments |-> [i \in DOMAIN contribution |-> 0]]
        ELSE LET last == after[k - 1]
                 active == Active(capacity, last.payments)
                 paid == Truncated(Shares(last.pool, contribution, active), capacity, last.payments)
             IN  IF last.pool > 0 /\ active # {}
                 THEN [pool |-> last.pool - (Total(paid) - Total(last.payments)), payments |-> paid]
                 ELSE last
  IN  after[n].payments
=============================================================================
