---------------------------- MODULE RevenueShare ----------------------------
(***************************************************************************)
(* A revenue-share agreement over its life: run after run an obligation is *)
(* allocated to the contributors by passes (allocateCappedRevenueShare and *)
(* the while loop of buildCappedAllocations), until every contributor has  *)
(* been paid their cap.  Here each run is paid in full before the next one *)
(* is allocated; module Distribution is about what happens when it is not. *)
(***************************************************************************)
EXTENDS Allocation

CONSTANTS
  N,             \* the number of contributors
  Contributions, \* the amounts a contributor may have put in
  MaxObligation  \* bound: the largest obligation of one run

ASSUME AgreementAssumption ==
  N \in Nat /\ Contributions \subseteq Nat \ {0} /\ MaxObligation \in Nat

Contributors == 1..N

VARIABLES
  contribution,  \* what each contributor put in; it never changes
  distributed,   \* what each has been paid by earlier runs
  pc,            \* "idle" between runs, "allocating" in one
  capacity,      \* what each could still be paid when this run began
  distributable, \* what this run allocates in all
  pool,          \* the part of it not allocated yet
  payments       \* what this run pays each contributor so far

vars == <<contribution, distributed, pc, capacity, distributable, pool, payments>>

Nothing == [i \in Contributors |-> 0]

Init ==
  /\ contribution \in [Contributors -> Contributions]
  /\ distributed = Nothing
  /\ pc = "idle"
  /\ capacity = Nothing /\ distributable = 0 /\ pool = 0 /\ payments = Nothing

Total(f) == SumFunctionOnSet(f, Contributors)

\* A slip: the pool is not clamped to what the caps leave room for.
BeginUnclamped(obligation) ==
  /\ pc = "idle"
  /\ pc' = "allocating"
  /\ capacity' = Capacities(contribution, distributed)
  /\ distributable' = obligation
  /\ pool' = obligation
  /\ payments' = Nothing
  /\ UNCHANGED <<contribution, distributed>>

\* A run starts with as much of the obligation as the caps leave room for.
Begin(obligation) ==
  /\ pc = "idle"
  /\ pc' = "allocating"
  /\ capacity' = Capacities(contribution, distributed)
  /\ distributable' = Lesser(obligation, Total(capacity'))
  /\ pool' = distributable'
  /\ payments' = Nothing
  /\ UNCHANGED <<contribution, distributed>>

\* One turn of the while loop.  Shares are whole amounts, never negative.
Pass ==
  /\ pc = "allocating"
  /\ pool > 0
  /\ Active(capacity, payments) # {}
  /\ \E shares \in {Shares(pool, contribution, Active(capacity, payments))} :
       /\ shares \in [Active(capacity, payments) -> Nat]
       /\ payments' = Truncated(shares, capacity, payments)
  /\ pool' = pool - (Total(payments') - Total(payments))
  /\ UNCHANGED <<contribution, distributed, pc, capacity, distributable>>

\* The loop ends, and the run is paid.
Pay ==
  /\ pc = "allocating"
  /\ pool <= 0 \/ Active(capacity, payments) = {}
  /\ distributed' = [i \in Contributors |-> distributed[i] + payments[i]]
  /\ pc' = "idle"
  /\ UNCHANGED <<contribution, capacity, distributable, pool, payments>>

Next == (\E obligation \in 0..MaxObligation : Begin(obligation)) \/ Pass \/ Pay

Spec == Init /\ [][Next]_vars

\* The loop runs on by itself once a run has begun.
FairSpec == Spec /\ WF_vars(Pass) /\ WF_vars(Pay)

-----------------------------------------------------------------------------
\* Over all the runs nobody is ever paid more than the cap, not even in the middle
\* of an allocation ("truncating every payment at that contributor's remaining
\* capacity").
CapNeverExceeded ==
  \A i \in Contributors :
    distributed[i] + (IF pc = "allocating" THEN payments[i] ELSE 0) <= Cap(contribution[i])

\* Every unit of a run is paid to somebody or still in the pool, and when the loop
\* ends the pool is empty ("Defensive, not a live branch": the check that would
\* report invalid_contributor cannot fail).
NothingLost ==
  /\ pc = "allocating" => Total(payments) + pool = distributable
  /\ (pc = "allocating" /\ Active(capacity, payments) = {}) => pool = 0

\* Whoever put in more is paid no less, unless the cap stopped it: truncation and
\* redistribution never turn the order around.
LargerIsPaidNoLess ==
  pc = "allocating" =>
    \A i, j \in Contributors :
      (contribution[i] > contribution[j] /\ i \in Active(capacity, payments)) =>
        payments[i] >= payments[j]

\* Every run that begins is paid: the loop cannot spin.
RunsEnd == pc = "allocating" ~> pc = "idle"
=============================================================================
