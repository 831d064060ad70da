--------------------------- MODULE RevenueShareProofs ---------------------------
(***************************************************************************)
(* A revenue-share agreement over its life, for any number of contributors,*)
(* any contributions and obligations, any rule the code accepts and any    *)
(* number of runs: nobody is paid past the cap, no unit of a run is lost,  *)
(* the order of the contributions is kept, every turn of the loop counts,  *)
(* and the loop pays what Allocate computes in one piece.  What a single   *)
(* pass computes is AllocationProofs'.                                     *)
(***************************************************************************)
EXTENDS RevenueShare, AllocationProofs

\* The amounts are whole.
Amounts ==
  /\ contribution \in [Contributors -> Nat \ {0}]
  /\ distributed \in [Contributors -> Nat]
  /\ capacity \in [Contributors -> Nat]
  /\ payments \in [Contributors -> Nat]
  /\ pool \in Nat /\ distributable \in Nat

\* Earlier runs kept to the cap.
PaidWithinCap == \A i \in Contributors : distributed[i] <= Cap(contribution[i])

\* The run in progress keeps to the capacities it began with, which are what the
\* earlier runs left; what it has paid and what it still has to pay are what it began
\* with; and it has kept the order so far.
RunIsExact ==
  pc = "allocating" =>
    /\ \A i \in Contributors :
         /\ capacity[i] = Remaining(Cap(contribution[i]), distributed[i])
         /\ payments[i] <= capacity[i]
    /\ Total(payments) + pool = distributable
    /\ distributable <= Total(capacity)
    /\ Ordered(Contributors, contribution, capacity, payments)

IInv == Amounts /\ PaidWithinCap /\ RunIsExact

-----------------------------------------------------------------------------
\* The contributors are finitely many positions.
LEMMA Positions ==
  /\ Contributors \in SUBSET Nat
  /\ IsFiniteSet(Contributors)
BY AgreementAssumption, FS_Interval DEF Contributors

\* The capacities a run begins with are whole amounts.
LEMMA CapacitiesType ==
  ASSUME Amounts
  PROVE  Capacities(contribution, distributed) \in [Contributors -> Nat]
<1>1. ASSUME NEW i \in Contributors
      PROVE  Remaining(Cap(contribution[i]), distributed[i]) \in Nat
  BY <1>1, CapIsNat, RemainingWithinCap DEF Amounts
<1>2. DOMAIN contribution = Contributors
  BY DEF Amounts
<1>3. QED
  BY <1>1, <1>2 DEF Capacities

\* A run that is allocating is an allocation in progress.
LEMMA RunInProgress ==
  ASSUME IInv, pc = "allocating"
  PROVE  InProgress(Contributors, contribution, capacity, payments, pool)
BY Positions DEF IInv, Amounts, RunIsExact, InProgress

\* A new agreement satisfies the inductive invariant.
LEMMA InitIInv == Init => IInv
<1> SUFFICES ASSUME Init PROVE IInv
  OBVIOUS
<1>1. Amounts
  BY AgreementAssumption DEF Init, Nothing, Amounts
<1>2. PaidWithinCap
  <2> SUFFICES ASSUME NEW i \in Contributors PROVE distributed[i] <= Cap(contribution[i])
    BY DEF PaidWithinCap
  <2>1. distributed[i] = 0 /\ contribution[i] \in Nat
    BY <1>1 DEF Init, Nothing, Amounts
  <2>2. QED
    BY <2>1, CapIsNat
<1>3. RunIsExact
  BY DEF Init, RunIsExact
<1>4. QED
  BY <1>1, <1>2, <1>3 DEF IInv

\* A run begins with the capacities that are left and a pool they have room for, and has
\* paid nothing.
LEMMA BeginIInv ==
  ASSUME IInv, NEW obligation \in Nat, Begin(obligation)
  PROVE  IInv'
<1>1. /\ capacity' = Capacities(contribution, distributed)
      /\ payments' = Nothing
      /\ distributable' = Lesser(obligation, Total(capacity'))
      /\ pool' = distributable'
      /\ UNCHANGED <<contribution, distributed>>
  BY DEF Begin
<1> DEFINE c == Capacities(contribution, distributed)
<1>2. c \in [Contributors -> Nat]
  BY CapacitiesType DEF IInv
<1> HIDE DEF c
<1>3. Lesser(obligation, Total(c)) \in Nat /\ Lesser(obligation, Total(c)) <= Total(c)
  BY <1>2, Positions, RoomForPool DEF Total
<1>4. Total(Nothing) = 0
  <2>1. \A i \in Contributors : Nothing[i] = 0
    BY DEF Nothing
  <2>2. QED
    BY <2>1, Positions, SumOfZeros DEF Total
<1>5. capacity' = c /\ distributable' = Lesser(obligation, Total(c)) /\ pool' = Lesser(obligation, Total(c))
  BY <1>1 DEF c, Total
<1>6. Amounts'
  BY <1>1, <1>2, <1>3, <1>5 DEF IInv, Amounts, Nothing
<1>7. ASSUME NEW i \in Contributors
      PROVE  /\ capacity'[i] = Remaining(Cap(contribution[i]), distributed[i])
             /\ payments'[i] = 0 /\ capacity'[i] \in Nat
  BY <1>1, <1>2, <1>5, <1>7 DEF IInv, Amounts, Capacities, Nothing, c
<1>8. /\ Total(payments') + pool' = distributable'
      /\ distributable' <= Total(capacity')
  BY <1>1, <1>3, <1>4, <1>5
<1>9. Ordered(Contributors, contribution', capacity', payments')
  BY <1>7 DEF Ordered
<1>10. RunIsExact'
  BY <1>1, <1>7, <1>8, <1>9 DEF RunIsExact, Total
<1>11. PaidWithinCap'
  BY <1>1 DEF IInv, PaidWithinCap
<1>12. QED
  BY <1>6, <1>10, <1>11 DEF IInv

\* A pass is one of AllocationProofs.
LEMMA PassInTerms ==
  ASSUME IInv, Pass
  PROVE  /\ InProgress(Contributors, contribution, capacity, payments, pool)
         /\ Active(capacity, payments) # {} /\ pool > 0
         /\ payments' = PaidInPass(contribution, capacity, payments, pool)
         /\ pool' = pool - (SumFunctionOnSet(payments', Contributors)
                             - SumFunctionOnSet(payments, Contributors))
<1>1. pc = "allocating" /\ pool > 0 /\ Active(capacity, payments) # {}
  BY DEF Pass
<1>2. payments' = PaidInPass(contribution, capacity, payments, pool)
  BY DEF Pass, PaidInPass
<1>3. QED
  BY <1>1, <1>2, RunInProgress DEF Pass, Total

\* A pass keeps the account, the capacities and the order.
LEMMA PassIInv ==
  ASSUME IInv, Pass
  PROVE  IInv'
<1>1. pc = "allocating" /\ UNCHANGED <<contribution, distributed, pc, capacity, distributable>>
  BY DEF Pass
<1> DEFINE paid == payments'
           left == pool'
<1>2. /\ InProgress(Contributors, contribution, capacity, payments, pool)
      /\ Active(capacity, payments) # {} /\ pool > 0
      /\ paid = PaidInPass(contribution, capacity, payments, pool)
      /\ left = pool - (SumFunctionOnSet(paid, Contributors)
                         - SumFunctionOnSet(payments, Contributors))
  BY PassInTerms
<1> HIDE DEF paid, left
<1>3. /\ InProgress(Contributors, contribution, capacity, paid, left)
      /\ SumFunctionOnSet(paid, Contributors) + left
           = SumFunctionOnSet(payments, Contributors) + pool
  BY <1>2, PassExact
<1>4. Ordered(Contributors, contribution, capacity, paid)
  <2>1. Ordered(Contributors, contribution, capacity, payments)
    BY <1>1 DEF IInv, RunIsExact
  <2>2. QED
    BY <1>2, <2>1, PassOrdered
<1>5. /\ payments' = paid /\ pool' = left
      /\ paid \in [Contributors -> Nat] /\ left \in Nat
      /\ \A i \in Contributors : paid[i] <= capacity[i]
  BY <1>3 DEF paid, left, InProgress
<1>6. Amounts' /\ PaidWithinCap'
  BY <1>1, <1>5 DEF IInv, Amounts, PaidWithinCap
<1>7. Total(paid) + left = distributable
  BY <1>1, <1>3 DEF IInv, RunIsExact, Total
<1>8. RunIsExact'
  <2>1. /\ \A i \in Contributors : capacity[i] = Remaining(Cap(contribution[i]), distributed[i])
        /\ distributable <= Total(capacity)
    BY <1>1 DEF IInv, RunIsExact
  <2>2. QED
    BY <1>1, <1>4, <1>5, <1>7, <2>1 DEF RunIsExact, Total
<1>9. QED
  BY <1>6, <1>8 DEF IInv

\* What a run paid fits into what the earlier runs left of the cap.
LEMMA AllocatingWithinCap ==
  ASSUME IInv, pc = "allocating", NEW i \in Contributors
  PROVE  distributed[i] + payments[i] <= Cap(contribution[i])
<1>1. /\ contribution[i] \in Nat /\ distributed[i] \in Nat /\ payments[i] \in Nat
      /\ distributed[i] <= Cap(contribution[i])
      /\ payments[i] <= Remaining(Cap(contribution[i]), distributed[i])
  BY DEF IInv, Amounts, PaidWithinCap, RunIsExact
<1>2. QED
  BY <1>1, CapIsNat, RemainingWithinCap

\* A run is paid: its payments join what was distributed.
LEMMA PayIInv ==
  ASSUME IInv, Pay
  PROVE  IInv'
<1>1. /\ distributed' = [i \in Contributors |-> distributed[i] + payments[i]]
      /\ pc = "allocating" /\ pc' = "idle"
      /\ UNCHANGED <<contribution, capacity, distributable, pool, payments>>
  BY DEF Pay
<1>2. Amounts'
  BY <1>1 DEF IInv, Amounts
<1>3. PaidWithinCap'
  BY <1>1, AllocatingWithinCap DEF PaidWithinCap
<1>4. QED
  BY <1>1, <1>2, <1>3 DEF IInv, RunIsExact

\* Every step keeps the inductive invariant.
LEMMA NextIInv == IInv /\ [Next]_vars => IInv'
<1> SUFFICES ASSUME IInv, [Next]_vars PROVE IInv'
  OBVIOUS
<1>1. CASE UNCHANGED vars
  BY <1>1 DEF vars, IInv, Amounts, PaidWithinCap, RunIsExact, Total
<1>2. ASSUME NEW obligation \in 0..MaxObligation, Begin(obligation) PROVE IInv'
  <2>1. obligation \in Nat
    BY AgreementAssumption
  <2>2. QED
    BY <1>2, <2>1, BeginIInv
<1>3. CASE Pass
  BY <1>3, PassIInv
<1>4. CASE Pay
  BY <1>4, PayIInv
<1>5. QED
  BY <1>1, <1>2, <1>3, <1>4 DEF Next

\* The inductive invariant holds in every reachable state.
LEMMA Invariance == Spec => []IInv
BY InitIInv, NextIInv, PTL DEF Spec

-----------------------------------------------------------------------------
\* Over all the runs of an agreement, and in the middle of an allocation, nobody is
\* paid more than the cap (contributorCapMinorUnits, remainingCapacityMinorUnits).
THEOREM CapHolds == Spec => []CapNeverExceeded
<1>1. IInv => CapNeverExceeded
  <2> SUFFICES ASSUME IInv, NEW i \in Contributors
               PROVE  distributed[i] + (IF pc = "allocating" THEN payments[i] ELSE 0)
                        <= Cap(contribution[i])
    BY DEF CapNeverExceeded
  <2>1. CASE pc = "allocating"
    BY <2>1, AllocatingWithinCap
  <2>2. CASE pc # "allocating"
    BY <2>2 DEF IInv, Amounts, PaidWithinCap
  <2>3. QED
    BY <2>1, <2>2
<1>2. QED
  BY <1>1, Invariance, PTL

\* Every unit of a run is paid to somebody or still in the pool, and when nobody can be paid
\* any more the pool is empty: the check after the while loop cannot fail.
THEOREM Conservation == Spec => []NothingLost
<1>1. IInv => NothingLost
  <2> SUFFICES ASSUME IInv, pc = "allocating"
               PROVE  /\ Total(payments) + pool = distributable
                      /\ Active(capacity, payments) = {} => pool = 0
    BY DEF NothingLost
  <2>1. Total(payments) + pool = distributable /\ distributable <= Total(capacity)
    BY DEF IInv, RunIsExact
  <2>2. QED
    BY <2>1, RunInProgress, NobodyActive DEF Total
<1>2. QED
  BY <1>1, Invariance, PTL

\* Whoever put in more is paid no less, unless the cap stopped it, in every state of an
\* allocation and whatever the rounding and the redistribution did.
THEOREM OrderIsKept == Spec => []LargerIsPaidNoLess
<1>1. IInv => LargerIsPaidNoLess
  BY DEF IInv, RunIsExact, Ordered, LargerIsPaidNoLess
<1>2. QED
  BY <1>1, Invariance, PTL

\* Every turn of the while loop empties the pool or takes a contributor to the cap for good,
\* so it turns at most once for every contributor; that is what its end rests on.
THEOREM EveryTurnCounts ==
  Spec => [][Pass => \/ pool' = 0
                     \/ /\ Active(capacity, payments)' \subseteq Active(capacity, payments)
                        /\ Active(capacity, payments)' # Active(capacity, payments)]_vars
<1>1. ASSUME IInv, Pass
      PROVE  \/ pool' = 0
             \/ /\ Active(capacity, payments)' \subseteq Active(capacity, payments)
                /\ Active(capacity, payments)' # Active(capacity, payments)
  <2> DEFINE paid == payments'
             left == pool'
  <2>1. /\ InProgress(Contributors, contribution, capacity, payments, pool)
        /\ Active(capacity, payments) # {}
        /\ paid = PaidInPass(contribution, capacity, payments, pool)
        /\ left = pool - (SumFunctionOnSet(paid, Contributors)
                           - SumFunctionOnSet(payments, Contributors))
    BY <1>1, PassInTerms
  <2> HIDE DEF paid, left
  <2>2. /\ Active(capacity, paid) \subseteq Active(capacity, payments)
        /\ left = 0 \/ Active(capacity, paid) # Active(capacity, payments)
    BY <2>1, PassExact
  <2>3. capacity' = capacity
    BY <1>1 DEF Pass
  <2>4. QED
    BY <2>2, <2>3 DEF paid, left, Active
<1>2. QED
  BY <1>1, Invariance, PTL DEF Spec

-----------------------------------------------------------------------------
(* The loop and the allocation as a whole.                                   *)

\* What a run has done so far is what some turn of its allocation leaves.
RunIsAtATurn ==
  pc = "allocating" =>
    \E k \in 0..Cardinality(Contributors) :
      Passes(distributable, contribution, capacity)[k] = [pool |-> pool, payments |-> payments]

\* A run in progress allocates what was left of the caps when it began.
LEMMA RunInput ==
  IInv /\ pc = "allocating" =>
    /\ capacity = Capacities(contribution, distributed)
    /\ DOMAIN contribution = Contributors
    /\ AllocationInput(distributable, contribution, capacity)
<1> SUFFICES ASSUME IInv, pc = "allocating"
             PROVE  /\ capacity = Capacities(contribution, distributed)
                    /\ DOMAIN contribution = Contributors
                    /\ AllocationInput(distributable, contribution, capacity)
  OBVIOUS
<1>1. DOMAIN contribution = Contributors /\ capacity \in [Contributors -> Nat]
  BY DEF IInv, Amounts
<1>2. capacity = Capacities(contribution, distributed)
  BY <1>1 DEF IInv, RunIsExact, Capacities
<1>3. AllocationInput(distributable, contribution, capacity)
  BY <1>1, Positions DEF IInv, Amounts, AllocationInput
<1>4. QED
  BY <1>1, <1>2, <1>3

\* A run begins at the start of its allocation: its pool is already cut to the room there is.
LEMMA BeginsAtTheStart ==
  ASSUME IInv, NEW obligation \in Nat, Begin(obligation)
  PROVE  RunIsAtATurn'
<1>1. IInv' /\ pc' = "allocating"
  BY BeginIInv DEF Begin
<1>2. /\ DOMAIN contribution' = Contributors
      /\ AllocationInput(distributable', contribution', capacity')
  <2>1. (IInv /\ pc = "allocating" =>
           /\ capacity = Capacities(contribution, distributed)
           /\ DOMAIN contribution = Contributors
           /\ AllocationInput(distributable, contribution, capacity))'
    BY RunInput, PTL
  <2>2. QED
    BY <1>1, <2>1
<1>3. /\ distributable' <= Total(capacity')
      /\ distributable' \in Nat /\ Total(capacity') \in Nat
  <2>1. distributable' <= Total(capacity') /\ distributable' \in Nat
    BY <1>1 DEF IInv, Amounts, RunIsExact, Total
  <2>2. \A i \in Contributors : capacity'[i] \in Nat
    BY <1>1 DEF IInv, Amounts
  <2>3. QED
    BY <2>1, <2>2, Positions, SumOfNats DEF Total
<1>4. Lesser(distributable', Total(capacity')) = distributable'
  BY <1>3 DEF Lesser
<1>5. Start(distributable', contribution', capacity') = [pool |-> pool', payments |-> payments']
  BY <1>2, <1>4 DEF Start, Total, Begin, Nothing
<1>6. Passes(distributable', contribution', capacity')[0] = [pool |-> pool', payments |-> payments']
  BY <1>2, <1>5, AfterEachTurn
<1>7. 0 \in 0..Cardinality(Contributors)
  BY Positions, FS_CardinalityType
<1>8. QED
  BY <1>6, <1>7 DEF RunIsAtATurn

\* A pass is the next turn: there is one, because the turns so far have not used them up.
LEMMA PassIsATurn ==
  ASSUME IInv, RunIsAtATurn, Pass
  PROVE  RunIsAtATurn'
<1> DEFINE n == Cardinality(Contributors)
           after == Passes(distributable, contribution, capacity)
           state == [pool |-> pool, payments |-> payments]
           next == [pool |-> pool', payments |-> payments']
<1>1. /\ pc = "allocating" /\ pool > 0 /\ Active(capacity, payments) # {}
      /\ UNCHANGED <<contribution, capacity, distributable>>
  BY DEF Pass
<1>2. PICK k \in 0..n : after[k] = state
  BY <1>1 DEF RunIsAtATurn
<1>3. /\ DOMAIN contribution = Contributors
      /\ AllocationInput(distributable, contribution, capacity)
  BY <1>1, RunInput
<1> HIDE DEF after
<1>4. /\ n \in Nat
      /\ k + 1 \in 0..n => after[k + 1] = Turn(contribution, capacity, after[k])
      /\ After(k, n, distributable, contribution, capacity, after[k])
  BY <1>3, AfterEachTurn DEF after
<1>5. k < n
  <2>1. pool = 0 \/ Cardinality(Active(capacity, payments)) <= n - k
    BY <1>2, <1>4 DEF After
  <2>2. /\ IsFiniteSet(Active(capacity, payments))
        /\ Cardinality(Active(capacity, payments)) \in Nat
    <3>1. Active(capacity, payments) \subseteq Contributors
      BY DEF Active, IInv, Amounts
    <3>2. QED
      BY <3>1, Positions, FS_Subset, FS_CardinalityType
  <2>3. Cardinality(Active(capacity, payments)) # 0
    BY <1>1, <2>2, FS_EmptySet
  <2> HIDE DEF n
  <2>4. QED
    BY <1>1, <1>4, <2>1, <2>2, <2>3
<1>6. Turn(contribution, capacity, state) = next
  <2>1. /\ payments' = PaidInPass(contribution, capacity, payments, pool)
        /\ pool' = pool - (SumFunctionOnSet(payments', Contributors)
                            - SumFunctionOnSet(payments, Contributors))
    BY PassInTerms
  <2>2. state.pool = pool /\ state.payments = payments
    OBVIOUS
  <2> HIDE DEF state
  <2>3. QED
    BY <1>1, <1>3, <2>1, <2>2 DEF Turn, PaidInPass
<1>7. k + 1 \in 0..n /\ after[k + 1] = next
  <2>1. k + 1 \in 0..n
    <3> HIDE DEF n
    <3> QED BY <1>4, <1>5
  <2>2. QED
    BY <1>2, <1>4, <1>6, <2>1
<1>8. QED
  BY <1>1, <1>7 DEF RunIsAtATurn, after

\* The loop taken pass by pass, as it is here, pays exactly what Allocate computes in one piece
\* for the distribution: of what there was room for, among what earlier runs left of the caps.
THEOREM LoopIsTheAllocation ==
  Spec => [][Pay => distributed' =
                      [i \in Contributors |->
                         distributed[i]
                           + Allocate(distributable, contribution, distributed)[i]]]_vars
<1>1. ASSUME IInv, RunIsAtATurn, [Next]_vars
      PROVE  RunIsAtATurn'
  <2>1. CASE UNCHANGED vars
    BY <1>1, <2>1 DEF vars, RunIsAtATurn
  <2>2. ASSUME NEW obligation \in 0..MaxObligation, Begin(obligation) PROVE RunIsAtATurn'
    <3>1. obligation \in Nat
      BY AgreementAssumption
    <3>2. QED
      BY <1>1, <2>2, <3>1, BeginsAtTheStart
  <2>3. CASE Pass
    BY <1>1, <2>3, PassIsATurn
  <2>4. CASE Pay
    BY <2>4 DEF Pay, RunIsAtATurn
  <2>5. QED
    BY <1>1, <2>1, <2>2, <2>3, <2>4 DEF Next
<1>2. Init => RunIsAtATurn
  BY DEF Init, RunIsAtATurn
<1>3. ASSUME IInv, RunIsAtATurn, Pay
      PROVE  distributed' = [i \in Contributors |->
                               distributed[i] + Allocate(distributable, contribution, distributed)[i]]
  <2> DEFINE after == Passes(distributable, contribution, capacity)
             state == [pool |-> pool, payments |-> payments]
  <2>1. /\ pc = "allocating"
        /\ ~(pool > 0 /\ Active(capacity, payments) # {})
        /\ distributed' = [i \in Contributors |-> distributed[i] + payments[i]]
    <3>1. pc = "allocating" /\ pool \in Nat
      BY <1>3 DEF Pay, IInv, Amounts
    <3>2. QED
      BY <1>3, <3>1 DEF Pay
  <2>2. /\ capacity = Capacities(contribution, distributed)
        /\ DOMAIN contribution = Contributors
        /\ AllocationInput(distributable, contribution, capacity)
    BY <1>3, <2>1, RunInput
  <2>3. PICK k \in 0..Cardinality(Contributors) : after[k] = state
    BY <1>3, <2>1 DEF RunIsAtATurn
  <2>4. state.pool = pool /\ state.payments = payments
    OBVIOUS
  <2>5. Allocate(distributable, contribution, distributed) = after[k].payments
    BY <2>1, <2>2, <2>3, <2>4, StoppedEarly
  <2>6. QED
    BY <2>1, <2>3, <2>4, <2>5
<1>4. QED
  BY <1>1, <1>2, <1>3, Invariance, PTL DEF Spec
=============================================================================
