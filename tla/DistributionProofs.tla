------------------------- MODULE DistributionProofs -------------------------
(***************************************************************************)
(* The loop and the distributions it confirms.                             *)
(*                                                                         *)
(* What the loop writes of a row is true and stays, for any number of      *)
(* envelopes, processes and crashes, any batch size and any schedule; its  *)
(* ticks take finitely many steps, put no row off for longer than the      *)
(* largest back-off, and conclude the expired row they write.  As long as  *)
(* one process runs, what it says of a refusal stays true and what it puts *)
(* off moves forward.  Spec is that of module Confirmation, which          *)
(* Distribution extends.                                                   *)
(*                                                                         *)
(* The distribution's requests leave the loop a behaviour of that module,  *)
(* whatever is due of the periods and however it is allocated; what is     *)
(* submitted is exactly what the caps leave of the obligation; a period is *)
(* paid twice only over a row the loop gave up, for any number of          *)
(* distributions, processes and crashes; and nobody is paid past the cap   *)
(* as long as every distribution is derived after the one before is        *)
(* confirmed.                                                              *)
(***************************************************************************)
EXTENDS Distribution, SequenceTheorems, AllocationProofs

-----------------------------------------------------------------------------
(* The loop. *)

Reasons == {"none", "expired", "unsuccessful"}
Records == [env : Envelopes, attempts : 0..(MaxBackoff + 1)]

\* The state is shaped as TypeOK says.
RowShape == row \in [Envelopes -> Rows]

CoreShape == core \in [Envelopes -> {"unknown", "queued", "ok", "bad"}]

WorkerShape ==
  /\ worker \in [Workers -> Ticks]
  /\ \A w \in Workers : worker[w].pc # "idle" => worker[w].todo # <<>>

\* A confirmation on its way to the row has the ledger behind it.
VerdictBacked ==
  \A w \in Workers :
    worker[w].pc = "write" /\ worker[w].verdict = "confirmed" => core[Current(w)] = "ok"

\* A row gives a reason exactly when it failed.
WhyOfFailed == \A e \in Envelopes : row[e].why # "none" => row[e].state = "failed"

Shape == clock \in Nat /\ RowShape /\ CoreShape /\ WorkerShape

IInv == Shape /\ VerdictBacked /\ WhyOfFailed /\ EvidenceBacked

-----------------------------------------------------------------------------
\* A function on 1..n is a sequence of length n.
LEMMA FunctionIsSeq ==
  ASSUME NEW S, NEW n \in Nat, NEW f \in [1..n -> S]
  PROVE  f \in Seq(S) /\ Len(f) = n
OBVIOUS

\* What follows the head of a sequence of several.
LEMMA TailOfSeveral ==
  ASSUME NEW S, NEW s \in Seq(S), s # <<>>
  PROVE  /\ Head(s) \in S /\ Tail(s) \in Seq(S)
         /\ Len(s) # 1 => Tail(s) # <<>>
<1>1. Len(s) \in Nat /\ Len(s) # 0
  BY EmptySeq
<1>2. Head(s) \in S /\ Tail(s) \in Seq(S) /\ Len(Tail(s)) = Len(s) - 1
  BY HeadTailProperties
<1>3. QED
  BY <1>1, <1>2

\* A delay is a whole number: a power of two counts the subsets of some set.
LEMMA BackoffIsNat ==
  ASSUME NEW attempts \in Nat
  PROVE  Backoff(attempts) \in Nat
<1> DEFINE k == IF attempts > 1 THEN attempts - 1 ELSE 0
<1>1. k \in Nat
  OBVIOUS
<1> HIDE DEF k
<1>2. IsFiniteSet(1..k) /\ Cardinality(1..k) = k
  BY <1>1, FS_Interval
<1>3. IsFiniteSet(SUBSET (1..k)) /\ Cardinality(SUBSET (1..k)) = 2 ^ k
  BY <1>2, FS_SUBSET
<1>4. 2 ^ k \in Nat
  BY <1>3, FS_CardinalityType
<1>5. \A d \in Nat : Minimum(InitialBackoff * d, MaxBackoff) \in Nat
  BY ConfirmationAssumption DEF Minimum
<1>6. Backoff(attempts) = Minimum(InitialBackoff * 2 ^ k, MaxBackoff)
  BY DEF Backoff, k
<1>7. QED
  BY <1>4, <1>5, <1>6

\* What a process holds of an envelope is an envelope.
LEMMA CurrentIsEnvelope ==
  ASSUME WorkerShape, NEW w \in Workers, worker[w].pc # "idle"
  PROVE  /\ Current(w) \in Envelopes
         /\ Head(worker[w].todo) \in Records
         /\ Tail(worker[w].todo) \in Seq(Records)
         /\ Len(worker[w].todo) # 1 => Tail(worker[w].todo) # <<>>
<1>1. worker[w].todo \in Seq(Records) /\ worker[w].todo # <<>>
  BY DEF WorkerShape, Ticks, Records
<1>2. /\ Head(worker[w].todo) \in Records
      /\ Tail(worker[w].todo) \in Seq(Records)
      /\ Len(worker[w].todo) # 1 => Tail(worker[w].todo) # <<>>
  BY <1>1, TailOfSeveral
<1>3. Current(w) \in Envelopes
  BY <1>2 DEF Current, Records
<1>4. QED
  BY <1>2, <1>3

\* Going on to the next record, or to the end of the tick, leaves no verdict open.
LEMMA NextRecordShape ==
  ASSUME WorkerShape, NEW w \in Workers, worker[w].pc # "idle", NextRecord(w)
  PROVE  /\ WorkerShape'
         /\ worker'[w].pc \in {"idle", "take"}
         /\ \A v \in Workers \ {w} : worker'[v] = worker[v]
<1>1. /\ Tail(worker[w].todo) \in Seq(Records)
      /\ Len(worker[w].todo) # 1 => Tail(worker[w].todo) # <<>>
  BY CurrentIsEnvelope
<1> DEFINE new == IF Len(worker[w].todo) = 1 THEN Idle
                  ELSE [Idle EXCEPT !.pc = "take", !.now = worker[w].now,
                                    !.todo = Tail(worker[w].todo)]
<1>2. worker' = [worker EXCEPT ![w] = new]
  BY DEF NextRecord
<1>3. new \in Ticks /\ new.pc \in {"idle", "take"} /\ (new.pc # "idle" => new.todo # <<>>)
  <2>1. CASE Len(worker[w].todo) = 1
    <3>1. <<>> \in Seq(Records)
      BY EmptySeq
    <3>2. Idle \in Ticks /\ Idle.pc = "idle"
      BY <3>1 DEF Idle, Ticks, Records
    <3>3. QED
      BY <2>1, <3>2
  <2>2. CASE Len(worker[w].todo) # 1
    <3>1. worker[w].now \in Nat
      BY DEF WorkerShape, Ticks
    <3>2. QED
      BY <1>1, <2>2, <3>1 DEF Idle, Ticks, Records
  <2>3. QED
    BY <2>1, <2>2
<1> HIDE DEF new
<1>4. QED
  BY <1>2, <1>3 DEF WorkerShape

\* A tick begins with a batch of rows that wait.
LEMMA BatchOfPending ==
  ASSUME RowShape, NEW t, Due(t) # {}, NEW q \in FoundPending(t)
  PROVE  /\ DOMAIN q = 1..Len([i \in DOMAIN q |-> [env |-> q[i], attempts |-> row[q[i]].attempts]])
         /\ [i \in DOMAIN q |-> [env |-> q[i], attempts |-> row[q[i]].attempts]] \in Seq(Records)
         /\ DOMAIN q # {}
         /\ \A i \in DOMAIN q : q[i] \in Envelopes /\ row[q[i]].state = "submitted"
         /\ IsInjective(q)
<1> DEFINE n == Minimum(BatchSize, Cardinality(Due(t)))
<1> DEFINE todo == [i \in DOMAIN q |-> [env |-> q[i], attempts |-> row[q[i]].attempts]]
<1>1. Due(t) \subseteq Envelopes /\ IsFiniteSet(Due(t))
  BY ConfirmationAssumption, FS_Subset DEF Due
<1>2. Cardinality(Due(t)) \in Nat /\ Cardinality(Due(t)) # 0
  BY <1>1, FS_CardinalityType, FS_EmptySet
<1>3. n \in Nat /\ n >= 1
  BY <1>2, ConfirmationAssumption DEF Minimum
<1>4. q \in [1..n -> Due(t)] /\ IsInjective(q)
  BY DEF FoundPending
<1>5. \A i \in 1..n : q[i] \in Envelopes /\ row[q[i]].state = "submitted"
  BY <1>4 DEF Due
<1>6. DOMAIN q = 1..n
  BY <1>4
<1>7. \A i \in 1..n : [env |-> q[i], attempts |-> row[q[i]].attempts] \in Records
  BY <1>5 DEF RowShape, Rows, Records
<1>8. todo \in [1..n -> Records]
  BY <1>6, <1>7
<1>9. todo \in Seq(Records) /\ Len(todo) = n
  <2> HIDE DEF todo, n
  <2> QED
    BY <1>3, <1>8, FunctionIsSeq
<1>10. QED
  BY <1>3, <1>4, <1>5, <1>6, <1>9

-----------------------------------------------------------------------------
\* What an envelope came to in a ledger, no step changes.
LedgerKept == \A e \in Envelopes : core[e] \in {"ok", "bad"} => core'[e] = core[e]

\* A process moves on without touching a row: enough to look at where it moves to.
LEMMA WorkerMoves ==
  ASSUME IInv, NEW w \in Workers,
         worker' \in [Workers -> Ticks], worker'[w].pc # "idle", worker'[w].todo # <<>>,
         \A v \in Workers \ {w} : worker'[v] = worker[v],
         row' = row, clock' = clock, CoreShape', LedgerKept,
         worker'[w].pc = "write" /\ worker'[w].verdict = "confirmed" =>
           core'[Current(w)'] = "ok"
  PROVE  IInv'
<1>1. clock' \in Nat
  BY DEF IInv, Shape
<1>2. WorkerShape'
  BY DEF IInv, Shape, WorkerShape
<1>3. RowShape' /\ WhyOfFailed'
  BY DEF IInv, Shape, RowShape, WhyOfFailed
<1>4. VerdictBacked'
  <2>1. ASSUME NEW v \in Workers, worker'[v].pc = "write", worker'[v].verdict = "confirmed"
        PROVE  core'[Current(v)'] = "ok"
    <3>1. CASE v = w
      BY <2>1, <3>1
    <3>2. CASE v # w
      <4>1. worker'[v] = worker[v] /\ Current(v)' = Current(v)
        BY <3>2 DEF Current
      <4>2. worker[v].pc = "write" /\ worker[v].verdict = "confirmed" /\ Current(v) \in Envelopes
        BY <2>1, <4>1, CurrentIsEnvelope DEF IInv, Shape
      <4>3. QED
        BY <4>1, <4>2 DEF IInv, VerdictBacked, LedgerKept
    <3>3. QED
      BY <3>1, <3>2
  <2>2. QED
    BY <2>1 DEF VerdictBacked
<1>5. EvidenceBacked'
  BY DEF IInv, EvidenceBacked, LedgerKept
<1>6. QED
  BY <1>1, <1>2, <1>3, <1>4, <1>5 DEF IInv, Shape

\* The environment touches neither a process nor a row that exists.
LEMMA OutsideMoves ==
  ASSUME IInv, worker' = worker, row' = row, clock' \in Nat, CoreShape', LedgerKept
  PROVE  IInv'
<1>1. Shape' /\ WhyOfFailed'
  BY DEF IInv, Shape, RowShape, WorkerShape, WhyOfFailed
<1>2. \A w \in Workers : worker[w].pc = "write" => Current(w) \in Envelopes
  BY CurrentIsEnvelope DEF IInv, Shape
<1>3. VerdictBacked'
  BY <1>2 DEF IInv, VerdictBacked, Current, LedgerKept
<1>4. EvidenceBacked'
  BY DEF IInv, EvidenceBacked, LedgerKept
<1>5. QED
  BY <1>1, <1>3, <1>4 DEF IInv

\* Nothing is submitted, offered or concluded at first.
LEMMA InitIInv == Init => IInv
<1> SUFFICES ASSUME Init PROVE IInv
  OBVIOUS
<1>1. <<>> \in Seq(Records)
  BY EmptySeq
<1>2. Idle \in Ticks
  BY <1>1 DEF Ticks, Idle, Records
<1>3. WorkerShape /\ \A w \in Workers : worker[w].pc = "idle"
  BY <1>2 DEF Init, WorkerShape, Idle
<1>4. RowShape
  BY ConfirmationAssumption DEF Init, RowShape, Rows, Absent, Terminal
<1>5. CoreShape
  BY DEF Init, CoreShape
<1>6. VerdictBacked /\ WhyOfFailed /\ EvidenceBacked
  BY <1>3 DEF Init, VerdictBacked, WhyOfFailed, EvidenceBacked, Absent
<1>7. QED
  BY <1>3, <1>4, <1>5, <1>6 DEF Init, IInv, Shape

\* The clock passes.
LEMMA TickIInv ==
  ASSUME IInv, Tick
  PROVE  IInv'
BY OutsideMoves DEF Tick, IInv, Shape, CoreShape, LedgerKept

\* The ledger takes only what is queued.
LEMMA IncludeIInv ==
  ASSUME IInv, NEW e \in Envelopes, NEW outcome \in {"ok", "bad"}, Include(e, outcome)
  PROVE  IInv'
BY OutsideMoves DEF Include, IInv, Shape, CoreShape, LedgerKept

\* Core forgets only what is queued.
LEMMA DropIInv ==
  ASSUME IInv, NEW e \in Envelopes, Drop(e)
  PROVE  IInv'
BY OutsideMoves DEF Drop, IInv, Shape, CoreShape, LedgerKept

\* A new row waits.
LEMMA PersistIInv ==
  ASSUME IInv, NEW e \in Envelopes, NEW expires \in Expiries, Persist(e, expires)
  PROVE  IInv' /\ \A f \in Envelopes \ {e} : row'[f] = row[f]
<1>1. /\ \A f \in Envelopes \ {e} : row'[f] = row[f]
      /\ row'[e] = [state |-> "submitted", why |-> "none", attempts |-> 0,
                    next |-> clock, expires |-> expires]
      /\ row' = [f \in Envelopes |-> row'[f]]
      /\ UNCHANGED <<clock, core, worker>>
  BY DEF Persist, IInv, Shape, RowShape
<1>2. RowShape'
  BY <1>1, ConfirmationAssumption DEF IInv, Shape, RowShape, Rows, Terminal, Expiries
<1>3. CoreShape' /\ WorkerShape' /\ VerdictBacked'
  BY <1>1 DEF IInv, Shape, CoreShape, WorkerShape, VerdictBacked, Current
<1>4. WhyOfFailed' /\ EvidenceBacked'
  BY <1>1 DEF IInv, WhyOfFailed, EvidenceBacked
<1>5. QED
  BY <1>1, <1>2, <1>3, <1>4 DEF IInv, Shape

-----------------------------------------------------------------------------
\* A tick begins at the first record of its batch.
LEMMA StartTickIInv ==
  ASSUME IInv, NEW w \in Workers, StartTick(w)
  PROVE  IInv'
<1>1. PICK q \in FoundPending(clock) :
        worker' = [worker EXCEPT ![w] =
          [Idle EXCEPT !.pc = "take", !.now = clock,
             !.todo = [i \in DOMAIN q |-> [env |-> q[i], attempts |-> row[q[i]].attempts]]]]
  BY DEF StartTick
<1> DEFINE todo == [i \in DOMAIN q |-> [env |-> q[i], attempts |-> row[q[i]].attempts]]
<1> DEFINE t == [Idle EXCEPT !.pc = "take", !.now = clock, !.todo = todo]
<1>2. todo \in Seq(Records) /\ DOMAIN q = 1..Len(todo) /\ DOMAIN q # {}
  BY BatchOfPending DEF StartTick, IInv, Shape
<1>3. todo # <<>>
  BY <1>2, EmptySeq
<1>4. t \in Ticks /\ t.pc = "take" /\ t.todo # <<>>
  <2> HIDE DEF todo
  <2> QED
    BY <1>2, <1>3 DEF IInv, Shape, Idle, Ticks, Records
<1>5. worker' = [worker EXCEPT ![w] = t]
  BY <1>1
<1>6. row' = row /\ clock' = clock /\ CoreShape' /\ LedgerKept
  BY DEF StartTick, IInv, Shape, CoreShape, LedgerKept
<1> HIDE DEF t
<1>7. /\ worker' \in [Workers -> Ticks] /\ worker'[w] = t
      /\ \A v \in Workers \ {w} : worker'[v] = worker[v]
  BY <1>4, <1>5 DEF IInv, Shape, WorkerShape
<1>8. QED
  BY <1>4, <1>6, <1>7, WorkerMoves

Verdicts == {"none", "expired", "deferred", "confirmed", "unsuccessful"}

\* A process goes on within an attempt: to the next call, or to a verdict, which has the
\* ledger behind it if it confirms.
LEMMA AttemptMoves ==
  ASSUME IInv, NEW w \in Workers, worker[w].pc # "idle",
         NEW verdict \in Verdicts, Decide(w, verdict),
         row' = row, clock' = clock, CoreShape', LedgerKept,
         verdict = "confirmed" => core'[Current(w)] = "ok"
  PROVE  IInv'
<1>1. worker \in [Workers -> Ticks] /\ worker[w].todo # <<>>
  BY DEF IInv, Shape, WorkerShape
<1>2. /\ worker' \in [Workers -> Ticks] /\ worker'[w].pc = "write"
      /\ worker'[w].verdict = verdict /\ worker'[w].todo = worker[w].todo
      /\ \A v \in Workers \ {w} : worker'[v] = worker[v]
  <2> DEFINE t == [worker[w] EXCEPT !.pc = "write", !.verdict = verdict]
  <2>1. worker' = [worker EXCEPT ![w] = t]
    BY DEF Decide
  <2>2. /\ t \in Ticks /\ t.pc = "write"
        /\ t.verdict = verdict /\ t.todo = worker[w].todo
    <3>1. worker[w] \in Ticks
      BY <1>1
    <3>2. QED
      BY <3>1 DEF Ticks, Verdicts
  <2> HIDE DEF t
  <2>3. QED
    BY <1>1, <2>1, <2>2
<1>3. QED
  BY <1>1, <1>2, WorkerMoves DEF Current

\* The step to the next call leaves the verdict as it was.
LEMMA CallMoves ==
  ASSUME IInv, NEW w \in Workers, worker[w].pc # "idle", NEW pc \in {"offer", "lookup"},
         worker' = [worker EXCEPT ![w].pc = pc],
         row' = row, clock' = clock, CoreShape', LedgerKept
  PROVE  IInv'
<1>1. worker \in [Workers -> Ticks] /\ worker[w].todo # <<>>
  BY DEF IInv, Shape, WorkerShape
<1>2. /\ worker' \in [Workers -> Ticks] /\ worker'[w].pc = pc
      /\ worker'[w].todo = worker[w].todo
      /\ \A v \in Workers \ {w} : worker'[v] = worker[v]
  BY <1>1 DEF Ticks
<1>3. QED
  BY <1>1, <1>2, WorkerMoves

\* An expired envelope is concluded, any other offered.
LEMMA TakeIInv ==
  ASSUME IInv, NEW w \in Workers, Take(w)
  PROVE  IInv'
<1>1. worker[w].pc # "idle" /\ row' = row /\ clock' = clock /\ CoreShape' /\ LedgerKept
  BY DEF Take, IInv, Shape, CoreShape, LedgerKept
<1>2. CASE Decide(w, "expired")
  BY <1>1, <1>2, AttemptMoves DEF Verdicts
<1>3. CASE worker' = [worker EXCEPT ![w].pc = "offer"]
  BY <1>1, <1>3, CallMoves
<1>4. QED
  BY <1>2, <1>3 DEF Take

\* Core takes an envelope only when it does not know it.
LEMMA CoreTakes ==
  ASSUME IInv, NEW e \in Envelopes, CoreMayTake(e), core' = [core EXCEPT ![e] = "queued"]
  PROVE  CoreShape' /\ LedgerKept
BY DEF CoreMayTake, IInv, Shape, CoreShape, LedgerKept

\* An offer that core takes, or has taken before.
LEMMA OfferAcceptedIInv ==
  ASSUME IInv, NEW w \in Workers, OfferAccepted(w)
  PROVE  IInv'
<1>1. worker[w].pc # "idle" /\ row' = row /\ clock' = clock
  BY DEF OfferAccepted
<1>2. Current(w) \in Envelopes
  BY <1>1, CurrentIsEnvelope DEF IInv, Shape
<1>3. CASE core' = core
  <2>1. CoreShape' /\ LedgerKept
    BY <1>3 DEF IInv, Shape, CoreShape, LedgerKept
  <2>2. QED
    BY <1>1, <2>1, CallMoves DEF OfferAccepted
<1>4. CASE core' # core
  <2>1. CoreShape' /\ LedgerKept
    BY <1>2, <1>4, CoreTakes DEF OfferAccepted
  <2>2. QED
    BY <1>1, <2>1, CallMoves DEF OfferAccepted
<1>5. QED
  BY <1>3, <1>4

\* An offer that core refuses.
LEMMA OfferRejectedIInv ==
  ASSUME IInv, NEW w \in Workers, OfferRejected(w)
  PROVE  IInv'
<1>1. worker[w].pc # "idle" /\ row' = row /\ clock' = clock /\ CoreShape' /\ LedgerKept
  BY DEF OfferRejected, IInv, Shape, CoreShape, LedgerKept
<1>2. QED
  BY <1>1, AttemptMoves DEF OfferRejected, Verdicts

\* An offer without an answer, taken or not.
LEMMA OfferUnansweredIInv ==
  ASSUME IInv, NEW w \in Workers, OfferUnanswered(w)
  PROVE  IInv'
<1>1. worker[w].pc # "idle" /\ row' = row /\ clock' = clock
  BY DEF OfferUnanswered
<1>2. Current(w) \in Envelopes
  BY <1>1, CurrentIsEnvelope DEF IInv, Shape
<1>3. CoreShape' /\ LedgerKept
  <2>1. CASE core' = core
    BY <2>1 DEF IInv, Shape, CoreShape, LedgerKept
  <2>2. CASE core' # core
    BY <1>2, <2>2, CoreTakes DEF OfferUnanswered
  <2>3. QED
    BY <2>1, <2>2
<1>4. QED
  BY <1>1, <1>3, AttemptMoves DEF OfferUnanswered, Verdicts

\* What Horizon shows is what a ledger holds.
LEMMA LookUpIInv ==
  ASSUME IInv, NEW w \in Workers, LookUp(w)
  PROVE  IInv'
<1>1. worker[w].pc # "idle" /\ row' = row /\ clock' = clock /\ core' = core /\ CoreShape' /\ LedgerKept
  BY DEF LookUp, IInv, Shape, CoreShape, LedgerKept
<1>2. CASE core[Current(w)] = "ok" /\ Decide(w, "confirmed")
  BY <1>1, <1>2, AttemptMoves DEF Verdicts
<1>3. CASE core[Current(w)] = "bad" /\ Decide(w, "unsuccessful")
  BY <1>1, <1>3, AttemptMoves DEF Verdicts
<1>4. CASE Decide(w, "deferred")
  BY <1>1, <1>4, AttemptMoves DEF Verdicts
<1>5. QED
  BY <1>2, <1>3, <1>4 DEF LookUp

\* The conditional update leaves every row alone but a waiting one, and that one is
\* concluded with the verdict or keeps waiting.
LEMMA WriteRow ==
  ASSUME IInv, NEW w \in Workers, Write(w)
  PROVE  /\ RowShape'
         /\ \A e \in Envelopes :
              row[e].state # "submitted" \/ e # Current(w) => row'[e] = row[e]
         /\ row[Current(w)].state = "submitted" =>
              IF worker[w].verdict = "deferred"
              THEN row'[Current(w)].state = "submitted" /\ row'[Current(w)].why = "none"
              ELSE IF worker[w].verdict = "confirmed"
              THEN row'[Current(w)].state = "confirmed" /\ row'[Current(w)].why = "none"
              ELSE /\ row'[Current(w)].state = "failed"
                   /\ row'[Current(w)].why = worker[w].verdict
<1> DEFINE e == Current(w)
<1> DEFINE new == IF worker[w].verdict = "deferred" THEN Deferred(w, e)
                  ELSE Concluded(e, worker[w].verdict)
<1>1. e \in Envelopes /\ Head(worker[w].todo) \in Records
  BY CurrentIsEnvelope DEF IInv, Shape, Write
<1>2. row' = IF row[e].state = "submitted" THEN [row EXCEPT ![e] = new] ELSE row
  BY DEF Write, Transition
<1>3. worker[w].verdict \in Verdicts
  BY DEF IInv, Shape, WorkerShape, Ticks, Verdicts
<1>4. CASE row[e].state # "submitted"
  BY <1>2, <1>4 DEF IInv, Shape, RowShape
<1>5. CASE row[e].state = "submitted"
  <2>1. row[e] \in Rows /\ row[e].why = "none"
    BY <1>1, <1>5 DEF IInv, Shape, RowShape, Rows, Reasons, WhyOfFailed
  <2>2. CASE worker[w].verdict = "deferred"
    <3>1. Counted(Head(worker[w].todo).attempts) \in 0..(MaxBackoff + 1)
      BY <1>1, ConfirmationAssumption DEF Records, Counted, Minimum
    <3>2. PICK a \in 0..(MaxBackoff + 1) :
            new = [row[e] EXCEPT !.attempts = a, !.next = worker[w].now + Backoff(a)]
      BY <2>2, <3>1 DEF Deferred
    <3>3. worker[w].now + Backoff(a) \in Nat
      <4>1. worker[w].now \in Nat
        BY DEF IInv, Shape, WorkerShape, Ticks
      <4>2. a \in Nat
        BY ConfirmationAssumption
      <4>3. Backoff(a) \in Nat
        BY <4>2, BackoffIsNat
      <4>4. QED
        BY <4>1, <4>3
    <3>4. /\ new \in Rows /\ new.state = "submitted" /\ new.why = "none"
      BY <1>5, <2>1, <3>2, <3>3 DEF Rows
    <3> HIDE DEF new
    <3>5. QED
      BY <1>1, <1>2, <1>5, <2>2, <3>4 DEF IInv, Shape, RowShape
  <2>3. CASE worker[w].verdict = "confirmed"
    <3>1. new = [row[e] EXCEPT !.state = "confirmed"]
      BY <2>3 DEF Concluded
    <3>2. new \in Rows /\ new.state = "confirmed" /\ new.why = "none"
      BY <2>1, <3>1 DEF Rows, Terminal
    <3> HIDE DEF new
    <3>3. QED
      BY <1>1, <1>2, <1>5, <2>3, <3>2 DEF IInv, Shape, RowShape
  <2>4. CASE worker[w].verdict \notin {"deferred", "confirmed"}
    <3>1. new = [row[e] EXCEPT !.state = "failed", !.why = worker[w].verdict]
      BY <2>4 DEF Concluded
    <3>2. new \in Rows /\ new.state = "failed" /\ new.why = worker[w].verdict
      BY <1>3, <2>1, <2>4, <3>1 DEF Rows, Terminal, Reasons, Verdicts
    <3> HIDE DEF new
    <3>3. QED
      BY <1>1, <1>2, <1>5, <2>4, <3>2 DEF IInv, Shape, RowShape
  <2>5. QED
    BY <2>2, <2>3, <2>4
<1>6. QED
  BY <1>4, <1>5

\* A process that leaves a record, or its tick, has no verdict open.
LEMMA LeaveMoves ==
  ASSUME IInv, NEW w \in Workers, WorkerShape', worker'[w].pc # "write",
         \A v \in Workers \ {w} : worker'[v] = worker[v], core' = core
  PROVE  CoreShape' /\ VerdictBacked'
<1>1. CoreShape'
  BY DEF IInv, Shape, CoreShape
<1>2. ASSUME NEW v \in Workers, worker'[v].pc = "write"
      PROVE  v # w /\ worker[v].pc = "write" /\ worker'[v] = worker[v] /\ Current(v)' = Current(v)
  BY <1>2 DEF Current
<1>3. VerdictBacked'
  BY <1>2 DEF IInv, VerdictBacked
<1>4. QED
  BY <1>1, <1>3

\* What lands in the row is what the ledger showed.
LEMMA WriteIInv ==
  ASSUME IInv, NEW w \in Workers, Write(w)
  PROVE  IInv'
<1>1. worker[w].pc = "write" /\ NextRecord(w) /\ clock' = clock /\ core' = core
  BY DEF Write
<1>2. /\ WorkerShape' /\ worker'[w].pc # "write"
      /\ \A v \in Workers \ {w} : worker'[v] = worker[v]
  BY <1>1, NextRecordShape DEF IInv, Shape
<1>3. CoreShape' /\ VerdictBacked'
  BY <1>1, <1>2, LeaveMoves
<1>4. Current(w) \in Envelopes
  BY <1>1, CurrentIsEnvelope DEF IInv, Shape
<1>5. WhyOfFailed'
  BY <1>4, WriteRow DEF IInv, WhyOfFailed
<1>6. EvidenceBacked'
  BY <1>1, <1>4, WriteRow DEF IInv, EvidenceBacked, VerdictBacked
<1>7. QED
  BY <1>1, <1>2, <1>3, <1>5, <1>6, WriteRow DEF IInv, Shape

\* Nothing lands.
LEMMA WriteFailsIInv ==
  ASSUME IInv, NEW w \in Workers, WriteFails(w)
  PROVE  IInv'
<1>1. /\ worker[w].pc = "write" /\ NextRecord(w)
      /\ clock' = clock /\ core' = core /\ row' = row
  BY DEF WriteFails
<1>2. /\ WorkerShape' /\ worker'[w].pc # "write"
      /\ \A v \in Workers \ {w} : worker'[v] = worker[v]
  BY <1>1, NextRecordShape DEF IInv, Shape
<1>3. CoreShape' /\ VerdictBacked'
  BY <1>1, <1>2, LeaveMoves
<1>4. QED
  BY <1>1, <1>2, <1>3 DEF IInv, Shape, RowShape, WhyOfFailed, EvidenceBacked

\* A process that dies forgets its verdict.
LEMMA CrashIInv ==
  ASSUME IInv, NEW w \in Workers, Crash(w)
  PROVE  IInv'
<1>1. worker' = [worker EXCEPT ![w] = Idle] /\ clock' = clock /\ core' = core /\ row' = row
  BY DEF Crash
<1>2. Idle \in Ticks /\ Idle.pc = "idle"
  <2>1. <<>> \in Seq(Records)
    BY EmptySeq
  <2>2. QED
    BY <2>1 DEF Idle, Ticks, Records
<1>3. /\ WorkerShape' /\ worker'[w].pc # "write"
      /\ \A v \in Workers \ {w} : worker'[v] = worker[v]
  BY <1>1, <1>2 DEF IInv, Shape, WorkerShape
<1>4. CoreShape' /\ VerdictBacked'
  BY <1>1, <1>3, LeaveMoves
<1>5. QED
  BY <1>1, <1>3, <1>4 DEF IInv, Shape, RowShape, WhyOfFailed, EvidenceBacked

\* Every step keeps the inductive invariant.
LEMMA NextIInv == IInv /\ [Next]_vars => IInv'
<1> SUFFICES ASSUME IInv, [Next]_vars PROVE IInv'
  OBVIOUS
<1>1. CASE Tick
  BY <1>1, TickIInv
<1>2. CASE SubmitNext
  BY <1>2, PersistIInv DEF SubmitNext
<1>3. CASE LedgerNext
  BY <1>3, IncludeIInv, DropIInv DEF LedgerNext
<1>4. CASE LoopNext
  <2>1. PICK w \in Workers :
          StartTick(w) \/ Step(w) \/ Write(w) \/ WriteFails(w) \/ Crash(w)
    BY <1>4 DEF LoopNext
  <2>2. CASE Step(w)
    BY <2>2, TakeIInv, OfferAcceptedIInv, OfferRejectedIInv, OfferUnansweredIInv, LookUpIInv
       DEF Step
  <2>3. CASE StartTick(w) \/ Write(w) \/ WriteFails(w) \/ Crash(w)
    BY <2>3, StartTickIInv, WriteIInv, WriteFailsIInv, CrashIInv
  <2>4. QED
    BY <2>1, <2>2, <2>3
<1>5. CASE UNCHANGED vars
  BY <1>5, OutsideMoves DEF vars, IInv, Shape, CoreShape, LedgerKept
<1>6. QED
  BY <1>1, <1>2, <1>3, <1>4, <1>5 DEF Next

\* The inductive invariant holds throughout.
LEMMA Inductive == Spec => []IInv
<1>1. QED
  BY InitIInv, NextIInv, PTL DEF Spec

\* The state of the loop is well shaped: whole instants and counts, rows and ticks as the
\* code's types have them, and a process in a tick with a record in hand.
THEOREM TypeCorrect == Spec => []TypeOK
<1>1. Init => crashes \in Nat
  BY DEF Init
<1>2. ASSUME crashes \in Nat, [Next]_vars PROVE (crashes \in Nat)'
  <2>1. CASE LoopNext
    <3>1. crashes' = crashes \/ \E w \in Workers : Crash(w)
      BY <2>1 DEF LoopNext, StartTick, Step, Take, OfferAccepted, OfferRejected, OfferUnanswered,
                  LookUp, Write, WriteFails
    <3>2. QED
      BY <1>2, <3>1 DEF Crash
  <2>2. CASE ~LoopNext
    BY <1>2, <2>2 DEF Next, Tick, SubmitNext, Persist, LedgerNext, Include, Drop, vars
  <2>3. QED
    BY <2>1, <2>2
<1>3. IInv /\ crashes \in Nat => TypeOK
  BY DEF IInv, Shape, RowShape, CoreShape, WorkerShape, TypeOK
<1>4. QED
  BY <1>1, <1>2, <1>3, Inductive, PTL DEF Spec

\* A row the loop confirms, the ledger holds: `confirmed' is written only with the
\* evidence it claims (recordConfirmation), by any number of processes, however stale
\* the record each of them works from.
THEOREM EvidenceHolds == Spec => []EvidenceBacked
<1>1. IInv => EvidenceBacked
  BY DEF IInv
<1>2. QED
  BY <1>1, Inductive, PTL

\* A row that exists is written by Write alone, and a row by Persist only once.
LEMMA OnlyWrites ==
  ASSUME IInv, [Next]_vars, NEW e \in Envelopes, row'[e] # row[e]
  PROVE  \/ row[e].state = "absent"
         \/ row[e].state = "submitted" /\ \E w \in Workers : Write(w)
<1>1. CASE SubmitNext
  <2>1. PICK f \in Envelopes, expires \in Expiries : Persist(f, expires)
    BY <1>1 DEF SubmitNext
  <2>2. f = e
    BY <2>1, PersistIInv
  <2>3. QED
    BY <2>1, <2>2 DEF Persist
<1>2. CASE \E w \in Workers : Write(w)
  BY <1>2, WriteRow
<1>3. CASE row' = row
  BY <1>3
<1>4. SubmitNext \/ (\E w \in Workers : Write(w)) \/ row' = row
  BY DEF Next, Tick, LedgerNext, Include, Drop, LoopNext, StartTick, Step, Take, OfferAccepted,
         OfferRejected, OfferUnanswered, LookUp, WriteFails, Crash, vars
<1>5. QED
  BY <1>1, <1>2, <1>3, <1>4

\* A conclusion is never rewritten, whoever comes late to it (transition's "WHERE
\* state = 'submitted'").
THEOREM ConclusionsStand == Spec => TerminalIsFinal
<1>1. IInv /\ [Next]_vars =>
        [\A e \in Envelopes : row[e].state \in Terminal => row'[e] = row[e]]_vars
  BY OnlyWrites DEF Terminal
<1>2. QED
  BY <1>1, Inductive, PTL DEF Spec, TerminalIsFinal

-----------------------------------------------------------------------------
(* Any number of processes, and either answer of core. *)

\* A row fails for a reason.
Accounted ==
  /\ \A w \in Workers : worker[w].pc = "write" => worker[w].verdict # "none"
  /\ \A e \in Envelopes : row[e].state = "failed" => row[e].why # "none"

\* A process that comes to a verdict has one.
LEMMA VerdictIsOne ==
  ASSUME IInv, [Next]_vars, Accounted, NEW w \in Workers, worker'[w].pc = "write"
  PROVE  worker'[w].verdict # "none"
<1>1. WorkerShape
  BY DEF IInv, Shape
<1>2. ASSUME NEW v \in Workers, NEW verdict, verdict # "none", Decide(v, verdict)
      PROVE  worker'[w].verdict # "none"
  <2>1. CASE v = w
    BY <1>1, <1>2, <2>1 DEF Decide, WorkerShape, Ticks
  <2>2. CASE v # w
    BY <1>1, <1>2, <2>2 DEF Decide, WorkerShape, Accounted
  <2>3. QED
    BY <2>1, <2>2
<1>3. ASSUME NEW v \in Workers, NEW t, t.pc # "write", worker' = [worker EXCEPT ![v] = t]
      PROVE  worker'[w].verdict # "none"
  BY <1>1, <1>3 DEF WorkerShape, Accounted
<1>4. ASSUME NEW v \in Workers, Step(v)
      PROVE  worker'[w].verdict # "none"
  <2>1. CASE Take(v)
    <3>1. CASE worker[v].now >= row[Current(v)].expires
      BY <1>2, <2>1, <3>1 DEF Take
    <3>2. CASE ~(worker[v].now >= row[Current(v)].expires)
      <4>1. worker' = [worker EXCEPT ![v] = [worker[v] EXCEPT !.pc = "offer"]]
        BY <2>1, <3>2 DEF Take
      <4>2. [worker[v] EXCEPT !.pc = "offer"].pc # "write"
        BY <1>1 DEF WorkerShape, Ticks
      <4>3. QED
        BY <1>3, <4>1, <4>2
    <3>3. QED
      BY <3>1, <3>2
  <2>2. CASE OfferAccepted(v)
    <3>1. worker' = [worker EXCEPT ![v] = [worker[v] EXCEPT !.pc = "lookup"]]
      BY <2>2 DEF OfferAccepted
    <3>2. [worker[v] EXCEPT !.pc = "lookup"].pc # "write"
      BY <1>1 DEF WorkerShape, Ticks
    <3>3. QED
      BY <1>3, <3>1, <3>2
  <2>3. CASE OfferRejected(v) \/ OfferUnanswered(v) \/ LookUp(v)
    BY <1>2, <2>3 DEF OfferRejected, OfferUnanswered, LookUp
  <2>4. QED
    BY <1>4, <2>1, <2>2, <2>3 DEF Step
<1>5. ASSUME NEW v \in Workers, StartTick(v)
      PROVE  worker'[w].verdict # "none"
  <2>1. PICK todo :
          worker' = [worker EXCEPT ![v] =
            [Idle EXCEPT !.pc = "take", !.now = clock, !.todo = todo]]
    BY <1>5 DEF StartTick
  <2>2. [Idle EXCEPT !.pc = "take", !.now = clock, !.todo = todo].pc # "write"
    BY DEF Idle
  <2>3. QED
    BY <1>3, <2>1, <2>2
<1>6. ASSUME NEW v \in Workers, Write(v) \/ WriteFails(v)
      PROVE  worker'[w].verdict # "none"
  <2>1. worker'[v].pc # "write" /\ \A u \in Workers \ {v} : worker'[u] = worker[u]
    BY <1>1, <1>6, NextRecordShape DEF Write, WriteFails
  <2>2. QED
    BY <2>1 DEF Accounted
<1>7. ASSUME NEW v \in Workers, Crash(v)
      PROVE  worker'[w].verdict # "none"
  BY <1>3, <1>7 DEF Crash, Idle
<1>8. worker' = worker \/ LoopNext
  BY DEF Next, Tick, SubmitNext, Persist, LedgerNext, Include, Drop, vars
<1>9. QED
  BY <1>4, <1>5, <1>6, <1>7, <1>8 DEF LoopNext, Accounted

\* What a step may do to a row: submit it, conclude it for a reason, or put it off.
LEMMA RowMoves ==
  ASSUME IInv, [Next]_vars, Accounted, NEW e \in Envelopes, row'[e] # row[e]
  PROVE  \/ /\ row[e].state = "absent" /\ row'[e].state = "submitted"
            /\ \E expires : Persist(e, expires)
         \/ /\ row[e].state = "submitted" /\ row'[e].state \in {"submitted", "confirmed", "failed"}
            /\ row'[e].state = "failed" => row'[e].why # "none"
<1>1. CASE SubmitNext
  <2>1. PICK f \in Envelopes, expires \in Expiries : Persist(f, expires)
    BY <1>1 DEF SubmitNext
  <2>2. f = e
    BY <2>1, PersistIInv
  <2>3. QED
    BY <2>1, <2>2 DEF Persist, IInv, Shape, RowShape
<1>2. CASE \E w \in Workers : Write(w)
  <2>1. PICK w \in Workers : Write(w)
    BY <1>2
  <2>2. worker[w].verdict # "none" /\ Current(w) \in Envelopes
    BY <2>1, CurrentIsEnvelope DEF Write, Accounted, IInv, Shape
  <2>3. QED
    BY <2>1, <2>2, WriteRow
<1>3. CASE ~SubmitNext /\ ~\E w \in Workers : Write(w)
  BY <1>3 DEF Next, Tick, LedgerNext, Include, Drop, LoopNext, StartTick, Step, Take,
         OfferAccepted, OfferRejected, OfferUnanswered, LookUp, WriteFails, Crash, vars
<1>4. QED
  BY <1>1, <1>2, <1>3

\* Every step accounts for the row it concludes.
LEMMA AccountedStays ==
  ASSUME IInv, [Next]_vars, Accounted
  PROVE  Accounted'
<1>1. \A v \in Workers : worker'[v].pc = "write" => worker'[v].verdict # "none"
  BY VerdictIsOne
<1>2. \A e \in Envelopes : row'[e].state = "failed" => row'[e].why # "none"
  BY RowMoves DEF Accounted
<1>3. QED
  BY <1>1, <1>2 DEF Accounted

\* A row that exists stays, and what is confirmed stays confirmed.
LEMMA RowsStay ==
  ASSUME IInv, [Next]_vars
  PROVE  /\ \A e \in Envelopes : row[e].state # "absent" => row'[e].state # "absent"
         /\ Confirmed \subseteq Confirmed'
<1>1. ASSUME NEW e \in Envelopes, row[e].state # "absent"
      PROVE  /\ row'[e].state # "absent"
             /\ row[e].state = "confirmed" => row'[e].state = "confirmed"
  <2>1. CASE row'[e] = row[e]
    BY <1>1, <2>1
  <2>2. CASE row'[e] # row[e]
    <3>1. row[e].state = "submitted" /\ \E w \in Workers : Write(w)
      BY <1>1, <2>2, OnlyWrites
    <3>2. PICK w \in Workers : Write(w)
      BY <3>1
    <3>3. e = Current(w)
      BY <2>2, <3>2, WriteRow
    <3>4. QED
      BY <3>1, <3>2, <3>3, WriteRow
  <2>3. QED
    BY <2>1, <2>2
<1>2. QED
  BY <1>1 DEF Confirmed

\* Every record in hand is of a row that exists, and core has nothing that no row
\* stands for.
RecordsExist ==
  \A w \in Workers : \A n \in 1..Len(worker[w].todo) :
    row[worker[w].todo[n].env].state # "absent"

OfferedExist == \A e \in Envelopes : core[e] # "unknown" => row[e].state # "absent"

\* What a process has in hand after a step, it had before, or has just found waiting.
LEMMA RecordsMove ==
  ASSUME IInv, [Next]_vars, NEW w \in Workers, NEW n \in 1..Len(worker'[w].todo)
  PROVE  \/ row[worker'[w].todo[n].env].state = "submitted"
         \/ \E k \in 1..Len(worker[w].todo) : worker'[w].todo[n] = worker[w].todo[k]
<1>1. /\ worker \in [Workers -> Ticks]
      /\ worker[w].todo \in Seq(Records)
      /\ Len(worker[w].todo) \in Nat
  <2>1. worker \in [Workers -> Ticks] /\ worker[w].todo \in Seq(Records)
    BY DEF IInv, Shape, WorkerShape, Ticks, Records
  <2>2. QED
    BY <2>1, LenProperties
<1>2. CASE worker'[w].todo = worker[w].todo
  <2>1. n \in 1..Len(worker[w].todo) /\ worker'[w].todo[n] = worker[w].todo[n]
    BY <1>2
  <2>2. QED
    BY <2>1
<1>3. CASE worker'[w].todo # worker[w].todo
  <2>1. ASSUME NEW v \in Workers, NEW verdict, Decide(v, verdict)
        PROVE  FALSE
    BY <1>1, <1>3, <2>1 DEF Decide, Ticks
  <2>2. ASSUME NEW v \in Workers, NEW pc, worker' = [worker EXCEPT ![v].pc = pc]
        PROVE  FALSE
    BY <1>1, <1>3, <2>2 DEF Ticks
  <2>3. ASSUME NEW v \in Workers, Step(v)
        PROVE  FALSE
    <3>1. CASE Take(v)
      BY <2>1, <2>2, <3>1 DEF Take
    <3>2. CASE OfferAccepted(v)
      BY <2>2, <3>2 DEF OfferAccepted
    <3>3. CASE OfferRejected(v) \/ OfferUnanswered(v) \/ LookUp(v)
      BY <2>1, <3>3 DEF OfferRejected, OfferUnanswered, LookUp
    <3>4. QED
      BY <2>3, <3>1, <3>2, <3>3 DEF Step
  <2>4. ASSUME NEW v \in Workers, StartTick(v)
        PROVE  row[worker'[w].todo[n].env].state = "submitted"
    <3>1. PICK q \in FoundPending(clock) :
            worker' = [worker EXCEPT ![v] =
              [Idle EXCEPT !.pc = "take", !.now = clock,
                 !.todo = [i \in DOMAIN q |-> [env |-> q[i], attempts |-> row[q[i]].attempts]]]]
      BY <2>4 DEF StartTick
    <3> DEFINE todo == [i \in DOMAIN q |-> [env |-> q[i], attempts |-> row[q[i]].attempts]]
    <3>2. /\ DOMAIN q = 1..Len(todo)
          /\ \A i \in DOMAIN q : row[q[i]].state = "submitted"
      <4>1. RowShape /\ Due(clock) # {}
        BY <2>4 DEF StartTick, IInv, Shape
      <4>2. QED
        BY <4>1, BatchOfPending
    <3>3. \A i \in DOMAIN q : todo[i].env = q[i]
      OBVIOUS
    <3>4. worker'[w].todo = todo
      BY <1>1, <1>3, <3>1 DEF Idle
    <3> HIDE DEF todo
    <3>5. QED
      BY <3>2, <3>3, <3>4
  <2>5. ASSUME NEW v \in Workers, worker[v].pc # "idle", NextRecord(v)
        PROVE  \E k \in 1..Len(worker[w].todo) : worker'[w].todo[n] = worker[w].todo[k]
    <3>1. v = w
      BY <1>3, <2>5, NextRecordShape DEF IInv, Shape
    <3>2. worker[w].todo # <<>> /\ Len(worker[w].todo) # 0
      BY <1>1, <2>5, <3>1, EmptySeq DEF IInv, Shape, WorkerShape
    <3>3. CASE Len(worker[w].todo) = 1
      <4>1. worker'[w] = Idle
        BY <1>1, <2>5, <3>1, <3>3 DEF NextRecord
      <4>2. worker'[w].todo = <<>>
        BY <4>1 DEF Idle
      <4>3. QED
        BY <4>2
    <3>4. CASE Len(worker[w].todo) # 1
      <4>1. worker'[w].todo = Tail(worker[w].todo)
        BY <1>1, <2>5, <3>1, <3>4 DEF NextRecord, Idle
      <4>2. /\ Len(worker'[w].todo) = Len(worker[w].todo) - 1
            /\ worker'[w].todo[n] = worker[w].todo[n + 1]
        BY <1>1, <3>2, <4>1
      <4>3. n + 1 \in 1..Len(worker[w].todo)
        BY <1>1, <3>2, <4>2
      <4>4. QED
        BY <4>2, <4>3
    <3>5. QED
      BY <3>3, <3>4
  <2>6. ASSUME NEW v \in Workers, Crash(v)
        PROVE  FALSE
    <3>1. worker'[w] = Idle
      BY <1>1, <1>3, <2>6 DEF Crash
    <3>2. worker'[w].todo = <<>>
      BY <3>1 DEF Idle
    <3>3. QED
      BY <3>2
  <2>7. LoopNext
    BY <1>3 DEF Next, Tick, SubmitNext, Persist, LedgerNext, Include, Drop, vars
  <2>8. PICK v \in Workers :
          StartTick(v) \/ Step(v) \/ Write(v) \/ WriteFails(v) \/ Crash(v)
    BY <2>7 DEF LoopNext
  <2>9. CASE Write(v) \/ WriteFails(v)
    <3>1. worker[v].pc # "idle" /\ NextRecord(v)
      BY <2>9 DEF Write, WriteFails
    <3>2. QED
      BY <2>5, <3>1
  <2>10. QED
    BY <2>3, <2>4, <2>6, <2>8, <2>9
<1>4. QED
  BY <1>2, <1>3

\* An envelope that core may come to hold is that of the row in hand.
LEMMA OnlyTheRowInHand ==
  ASSUME IInv, [Next]_vars, NEW e \in Envelopes, core[e] = "unknown", core'[e] # "unknown"
  PROVE  \E w \in Workers : worker[w].pc = "offer" /\ Current(w) = e /\ UNCHANGED row
<1>1. CoreShape
  BY DEF IInv, Shape
<1>2. ASSUME NEW w \in Workers, OfferAccepted(w) \/ OfferUnanswered(w)
      PROVE  worker[w].pc = "offer" /\ Current(w) = e /\ UNCHANGED row
  <2>1. worker[w].pc = "offer" /\ UNCHANGED row /\ Current(w) \in Envelopes
    BY <1>2, CurrentIsEnvelope DEF OfferAccepted, OfferUnanswered, IInv, Shape
  <2>2. core' = core \/ core' = [core EXCEPT ![Current(w)] = "queued"]
    BY <1>2 DEF OfferAccepted, OfferUnanswered
  <2>3. QED
    BY <1>1, <2>1, <2>2 DEF CoreShape
<1>3. CASE LedgerNext
  BY <1>1, <1>3 DEF LedgerNext, Include, Drop, CoreShape
<1>4. core' = core \/ LedgerNext \/ \E w \in Workers : OfferAccepted(w) \/ OfferUnanswered(w)
  BY DEF Next, Tick, SubmitNext, Persist, LoopNext, StartTick, Step, Take, OfferRejected, LookUp,
         Write, WriteFails, Crash, vars
<1>5. QED
  BY <1>2, <1>3, <1>4

\* What core is offered was read from a row.
LEMMA OfferedStays ==
  ASSUME IInv, [Next]_vars, RecordsExist, OfferedExist
  PROVE  RecordsExist' /\ OfferedExist'
<1>1. \A e \in Envelopes : row[e].state # "absent" => row'[e].state # "absent"
  BY RowsStay
<1>2. ASSUME NEW w \in Workers, NEW n \in 1..Len(worker'[w].todo)
      PROVE  row'[worker'[w].todo[n].env].state # "absent"
  <2>1. WorkerShape'
    BY NextIInv DEF IInv, Shape
  <2>2. worker'[w].todo \in Seq(Records)
    BY <2>1 DEF WorkerShape, Ticks, Records
  <2>3. worker'[w].todo[n] \in Records
    BY <2>2, ElementOfSeq
  <2>4. worker'[w].todo[n].env \in Envelopes
    BY <2>3 DEF Records
  <2>5. row[worker'[w].todo[n].env].state # "absent"
    <3>1. \/ row[worker'[w].todo[n].env].state = "submitted"
          \/ \E k \in 1..Len(worker[w].todo) : worker'[w].todo[n] = worker[w].todo[k]
      BY RecordsMove
    <3>2. \A k \in 1..Len(worker[w].todo) : row[worker[w].todo[k].env].state # "absent"
      BY DEF RecordsExist
    <3>3. CASE row[worker'[w].todo[n].env].state = "submitted"
      BY <3>3
    <3>4. ASSUME NEW k \in 1..Len(worker[w].todo), worker'[w].todo[n] = worker[w].todo[k]
          PROVE  row[worker'[w].todo[n].env].state # "absent"
      BY <3>2, <3>4
    <3>5. QED
      BY <3>1, <3>3, <3>4
  <2>6. QED
    BY <1>1, <2>4, <2>5
<1>3. ASSUME NEW e \in Envelopes, core'[e] # "unknown"
      PROVE  row'[e].state # "absent"
  <2>1. CASE core[e] # "unknown"
    BY <1>1, <2>1 DEF OfferedExist
  <2>2. CASE core[e] = "unknown"
    <3>1. PICK w \in Workers : worker[w].pc = "offer" /\ Current(w) = e /\ UNCHANGED row
      BY <1>3, <2>2, OnlyTheRowInHand
    <3>2. worker[w].todo \in Seq(Records) /\ worker[w].todo # <<>>
      BY <3>1 DEF IInv, Shape, WorkerShape, Ticks, Records
    <3>3. 1 \in 1..Len(worker[w].todo) /\ worker[w].todo[1].env = e
      BY <3>1, <3>2, EmptySeq DEF Current
    <3>4. row[e].state # "absent"
      BY <3>3 DEF RecordsExist
    <3>5. QED
      BY <3>1, <3>4
  <2>3. QED
    BY <2>1, <2>2
<1>4. QED
  BY <1>2, <1>3 DEF RecordsExist, OfferedExist

\* What is known of any number of processes: every failure has a reason, every record in hand
\* a row, and core holds nothing that no row stands for.
Known == IInv /\ Accounted /\ RecordsExist /\ OfferedExist

LEMMA KnownHolds == Spec => []Known
<1>1. Init => Accounted /\ RecordsExist /\ OfferedExist
  BY DEF Init, Accounted, RecordsExist, OfferedExist, Absent, Idle
<1>2. Known /\ [Next]_vars => Accounted' /\ RecordsExist' /\ OfferedExist'
  BY AccountedStays, OfferedStays DEF Known
<1>3. QED
  BY <1>1, <1>2, Inductive, PTL DEF Spec, Known

-----------------------------------------------------------------------------
(* An attempt in time, a tick that ends: what does not wait for fairness of the promise  *)
(* that every row is concluded, for any number of processes.                             *)

\* Where a step takes a process: into a tick with a batch in hand, one call further in the
\* attempt, to the next record of the batch, or out of the tick.
LEMMA ProcessMoves ==
  ASSUME IInv, [Next]_vars, NEW w \in Workers, worker'[w] # worker[w]
  PROVE  \/ /\ worker[w].pc = "idle" /\ worker'[w].pc = "take" /\ worker'[w].now = clock
            /\ Len(worker'[w].todo) <= BatchSize
         \/ /\ worker[w].pc \in {"take", "offer", "lookup"} /\ UNCHANGED row
            /\ worker'[w].todo = worker[w].todo /\ worker'[w].now = worker[w].now
            /\ worker[w].pc = "take" =>
                 \/ worker'[w].pc = "offer" /\ worker[w].now < row[Current(w)].expires
                 \/ worker'[w].pc = "write" /\ worker'[w].verdict = "expired"
            /\ worker[w].pc = "offer" => worker'[w].pc \in {"lookup", "write"}
            /\ worker[w].pc = "lookup" => worker'[w].pc = "write"
         \/ /\ worker[w].pc = "write" /\ worker'[w].pc = "take" /\ worker'[w].now = worker[w].now
            /\ Len(worker'[w].todo) = Len(worker[w].todo) - 1
         \/ worker'[w] = Idle
<1>1. worker \in [Workers -> Ticks] /\ worker[w] \in Ticks
  BY DEF IInv, Shape, WorkerShape
<1>2. ASSUME NEW v \in Workers, NEW verdict, Decide(v, verdict)
      PROVE  /\ v = w /\ worker'[w].pc = "write" /\ worker'[w].verdict = verdict
             /\ worker'[w].todo = worker[w].todo /\ worker'[w].now = worker[w].now
  BY <1>1, <1>2 DEF Decide, Ticks
<1>3. ASSUME NEW v \in Workers, NEW pc, worker' = [worker EXCEPT ![v].pc = pc]
      PROVE  /\ v = w /\ worker'[w].pc = pc
             /\ worker'[w].todo = worker[w].todo /\ worker'[w].now = worker[w].now
  BY <1>1, <1>3 DEF Ticks
<1>4. ASSUME NEW v \in Workers, Take(v)
      PROVE  /\ worker[w].pc = "take" /\ UNCHANGED row
             /\ worker'[w].todo = worker[w].todo /\ worker'[w].now = worker[w].now
             /\ \/ worker'[w].pc = "offer" /\ worker[w].now < row[Current(w)].expires
                \/ worker'[w].pc = "write" /\ worker'[w].verdict = "expired"
  <2>1. CASE worker[v].now >= row[Current(v)].expires
    BY <1>2, <1>4, <2>1 DEF Take
  <2>2. CASE ~(worker[v].now >= row[Current(v)].expires)
    <3>1. v = w
      BY <1>3, <1>4, <2>2 DEF Take
    <3>2. Current(w) \in Envelopes
      BY <1>4, <3>1, CurrentIsEnvelope DEF Take, IInv, Shape
    <3>3. row[Current(w)].expires \in Nat /\ worker[w].now \in Nat
      BY <1>1, <3>2 DEF IInv, Shape, RowShape, Rows, Ticks
    <3>4. QED
      BY <1>3, <1>4, <2>2, <3>1, <3>3 DEF Take
  <2>3. QED
    BY <2>1, <2>2
<1>5. ASSUME NEW v \in Workers, OfferAccepted(v) \/ OfferRejected(v) \/ OfferUnanswered(v) \/ LookUp(v)
      PROVE  /\ worker[w].pc \in {"offer", "lookup"} /\ UNCHANGED row
             /\ worker'[w].todo = worker[w].todo /\ worker'[w].now = worker[w].now
             /\ worker[w].pc = "offer" => worker'[w].pc \in {"lookup", "write"}
             /\ worker[w].pc = "lookup" => worker'[w].pc = "write"
  <2>1. CASE OfferAccepted(v)
    BY <1>3, <2>1 DEF OfferAccepted
  <2>2. CASE OfferRejected(v) \/ OfferUnanswered(v)
    BY <1>2, <2>2 DEF OfferRejected, OfferUnanswered
  <2>3. CASE LookUp(v)
    BY <1>2, <2>3 DEF LookUp
  <2>4. QED
    BY <1>5, <2>1, <2>2, <2>3
<1>6. ASSUME NEW v \in Workers, StartTick(v)
      PROVE  /\ worker[w].pc = "idle" /\ worker'[w].pc = "take" /\ worker'[w].now = clock
             /\ Len(worker'[w].todo) <= BatchSize
  <2>1. PICK q \in FoundPending(clock) :
          worker' = [worker EXCEPT ![v] =
            [Idle EXCEPT !.pc = "take", !.now = clock,
               !.todo = [i \in DOMAIN q |-> [env |-> q[i], attempts |-> row[q[i]].attempts]]]]
    BY <1>6 DEF StartTick
  <2> DEFINE todo == [i \in DOMAIN q |-> [env |-> q[i], attempts |-> row[q[i]].attempts]]
             n == Minimum(BatchSize, Cardinality(Due(clock)))
  <2>2. /\ DOMAIN q = 1..Len(todo) /\ todo \in Seq(Records)
    <3>1. RowShape /\ Due(clock) # {}
      BY <1>6 DEF StartTick, IInv, Shape
    <3>2. QED
      BY <3>1, BatchOfPending
  <2>3. DOMAIN q = 1..n
    BY DEF FoundPending
  <2>4. n \in Nat /\ n <= BatchSize
    <3>1. Due(clock) \subseteq Envelopes /\ IsFiniteSet(Due(clock))
      BY ConfirmationAssumption, FS_Subset DEF Due
    <3>2. Cardinality(Due(clock)) \in Nat
      BY <3>1, FS_CardinalityType
    <3>3. QED
      BY <3>2, ConfirmationAssumption DEF Minimum
  <2> HIDE DEF n
  <2>5. Len(todo) <= BatchSize
    <3>1. Len(todo) \in Nat
      BY <2>2, LenProperties
    <3>2. Len(todo) = n
      BY <2>2, <2>3, <2>4, <3>1
    <3>3. QED
      BY <2>4, <3>2
  <2>6. v = w
    BY <1>1, <2>1
  <2>7. worker'[w] = [Idle EXCEPT !.pc = "take", !.now = clock, !.todo = todo]
    BY <1>1, <2>1, <2>6
  <2> HIDE DEF todo
  <2>8. worker'[w].pc = "take" /\ worker'[w].now = clock /\ worker'[w].todo = todo
    BY <2>7 DEF Idle
  <2>9. QED
    BY <1>6, <2>5, <2>6, <2>8 DEF StartTick
<1>7. ASSUME NEW v \in Workers, Write(v) \/ WriteFails(v)
      PROVE  /\ worker[w].pc = "write"
             /\ \/ worker'[w] = Idle
                \/ /\ worker'[w].pc = "take" /\ worker'[w].now = worker[w].now
                   /\ Len(worker'[w].todo) = Len(worker[w].todo) - 1
  <2>1. worker[v].pc = "write" /\ NextRecord(v) /\ v = w
    BY <1>1, <1>7 DEF Write, WriteFails, NextRecord
  <2>2. CASE Len(worker[w].todo) = 1
    BY <1>1, <2>1, <2>2 DEF NextRecord
  <2>3. CASE Len(worker[w].todo) # 1
    <3>1. /\ worker'[w].pc = "take" /\ worker'[w].now = worker[w].now
          /\ worker'[w].todo = Tail(worker[w].todo)
      BY <1>1, <2>1, <2>3 DEF NextRecord, Idle
    <3>2. worker[w].todo \in Seq(Records) /\ worker[w].todo # <<>>
      BY <2>1 DEF IInv, Shape, WorkerShape, Ticks, Records
    <3>3. Len(Tail(worker[w].todo)) = Len(worker[w].todo) - 1
      BY <3>2, HeadTailProperties
    <3>4. QED
      BY <2>1, <3>1, <3>3
  <2>4. QED
    BY <2>1, <2>2, <2>3
<1>8. ASSUME NEW v \in Workers, Crash(v)
      PROVE  worker'[w] = Idle
  BY <1>1, <1>8 DEF Crash
<1>9. LoopNext
  BY DEF Next, Tick, SubmitNext, Persist, LedgerNext, Include, Drop, vars
<1>10. PICK v \in Workers : StartTick(v) \/ Step(v) \/ Write(v) \/ WriteFails(v) \/ Crash(v)
  BY <1>9 DEF LoopNext
<1>11. CASE StartTick(v)
  BY <1>6, <1>11
<1>12. CASE Step(v)
  <2>1. CASE Take(v)
    BY <1>4, <2>1
  <2>2. CASE OfferAccepted(v) \/ OfferRejected(v) \/ OfferUnanswered(v) \/ LookUp(v)
    BY <1>5, <2>2
  <2>3. QED
    BY <1>12, <2>1, <2>2 DEF Step
<1>13. CASE Write(v) \/ WriteFails(v)
  BY <1>7, <1>13
<1>14. CASE Crash(v)
  BY <1>8, <1>14
<1>15. QED
  BY <1>10, <1>11, <1>12, <1>13, <1>14

\* The steps a process has left in its tick, if it meets neither a crash nor the end of an
\* attempt before its last call: at most four for every record in hand.
CallsLeft(pc) ==
  IF pc = "take" THEN 4 ELSE IF pc = "offer" THEN 3 ELSE IF pc = "lookup" THEN 2 ELSE 1

StepsLeft(w) ==
  IF worker[w].pc = "idle" THEN 0
  ELSE 4 * (Len(worker[w].todo) - 1) + CallsLeft(worker[w].pc)

\* A tick ends: every step a process makes in it leaves it fewer steps, and it never begins
\* with more than four for each of the BatchSize rows it may find (the loop over findPending's
\* batch of confirm-revenue-share-distributions.ts, which nothing extends while it runs).
TickIsFinite ==
  [][\A w \in Workers :
       /\ StepsLeft(w)' \in 0..(4 * BatchSize)
       /\ worker'[w] # worker[w] => worker[w].pc = "idle" \/ StepsLeft(w)' < StepsLeft(w)]_vars

\* Whole steps, none exactly between ticks.
StepsShape ==
  \A w \in Workers :
    /\ StepsLeft(w) \in Nat /\ Len(worker[w].todo) \in Nat
    /\ worker[w].pc # "idle" => StepsLeft(w) > 0

LEMMA StepsAreNat == WorkerShape => StepsShape
<1> SUFFICES ASSUME WorkerShape, NEW w \in Workers
             PROVE  /\ StepsLeft(w) \in Nat /\ Len(worker[w].todo) \in Nat
                    /\ worker[w].pc # "idle" => StepsLeft(w) > 0
  BY DEF StepsShape
<1>1. worker[w].todo \in Seq(Records) /\ (worker[w].pc # "idle" => worker[w].todo # <<>>)
  BY DEF WorkerShape, Ticks, Records
<1>2. Len(worker[w].todo) \in Nat /\ (worker[w].pc # "idle" => Len(worker[w].todo) # 0)
  BY <1>1, EmptySeq, LenProperties
<1>3. CallsLeft(worker[w].pc) \in 1..4
  BY DEF CallsLeft
<1>4. QED
  BY <1>2, <1>3 DEF StepsLeft

\* Every tick is finite, for any number of processes and envelopes and any batch.
THEOREM TicksEnd == Spec => TickIsFinite
<1> DEFINE Few == \A w \in Workers : StepsLeft(w) <= 4 * BatchSize
<1>1. Init => Few
  BY ConfirmationAssumption DEF Init, StepsLeft, Idle
<1>2. IInv /\ Few /\ [Next]_vars =>
        /\ Few'
        /\ \A w \in Workers :
             /\ StepsLeft(w)' \in 0..(4 * BatchSize)
             /\ worker'[w] # worker[w] => worker[w].pc = "idle" \/ StepsLeft(w)' < StepsLeft(w)
  <2> SUFFICES ASSUME IInv, Few, [Next]_vars, NEW w \in Workers
               PROVE  /\ StepsLeft(w)' \in 0..(4 * BatchSize)
                      /\ worker'[w] # worker[w] =>
                           worker[w].pc = "idle" \/ StepsLeft(w)' < StepsLeft(w)
    BY ConfirmationAssumption
  <2>1. /\ StepsLeft(w) \in Nat /\ Len(worker[w].todo) \in Nat
        /\ worker[w].pc # "idle" => StepsLeft(w) > 0
    BY StepsAreNat DEF StepsShape, IInv, Shape
  <2>2. StepsLeft(w)' \in Nat /\ Len(worker'[w].todo) \in Nat
    <3>1. WorkerShape'
      BY NextIInv DEF IInv, Shape
    <3>2. (WorkerShape => StepsShape)'
      BY StepsAreNat, PTL
    <3>3. QED
      BY <3>1, <3>2 DEF StepsShape
  <2>3. BatchSize \in Nat /\ StepsLeft(w) <= 4 * BatchSize
    BY ConfirmationAssumption
  <2>4. CASE worker'[w] = worker[w]
    <3>1. StepsLeft(w)' = StepsLeft(w)
      BY <2>4 DEF StepsLeft
    <3>2. QED
      BY <2>1, <2>3, <2>4, <3>1
  <2>5. CASE worker'[w] # worker[w]
    <3>1. CASE /\ worker[w].pc = "idle" /\ worker'[w].pc = "take"
               /\ Len(worker'[w].todo) <= BatchSize
      BY <2>2, <2>3, <3>1 DEF StepsLeft, CallsLeft
    <3>2. CASE /\ worker[w].pc \in {"take", "offer", "lookup"}
               /\ worker'[w].todo = worker[w].todo
               /\ worker[w].pc = "take" => worker'[w].pc \in {"offer", "write"}
               /\ worker[w].pc = "offer" => worker'[w].pc \in {"lookup", "write"}
               /\ worker[w].pc = "lookup" => worker'[w].pc = "write"
      <4>1. /\ CallsLeft(worker'[w].pc) \in Nat /\ CallsLeft(worker[w].pc) \in Nat
            /\ CallsLeft(worker'[w].pc) < CallsLeft(worker[w].pc)
            /\ worker[w].pc # "idle" /\ worker'[w].pc # "idle"
        BY <3>2 DEF CallsLeft
      <4>2. StepsLeft(w)' < StepsLeft(w)
        BY <2>1, <2>2, <3>2, <4>1 DEF StepsLeft
      <4>3. QED
        BY <2>1, <2>2, <2>3, <4>2
    <3>3. CASE /\ worker[w].pc = "write" /\ worker'[w].pc = "take"
               /\ Len(worker'[w].todo) = Len(worker[w].todo) - 1
      <4>1. StepsLeft(w)' < StepsLeft(w)
        BY <2>1, <2>2, <3>3 DEF StepsLeft, CallsLeft
      <4>2. QED
        BY <2>1, <2>2, <2>3, <4>1
    <3>4. CASE worker'[w] = Idle
      <4>1. StepsLeft(w)' = 0
        BY <3>4 DEF StepsLeft, Idle
      <4>2. QED
        BY <2>1, <2>3, <4>1
    <3>5. QED
      BY <2>5, <3>1, <3>2, <3>3, <3>4, ProcessMoves
  <2>6. QED
    BY <2>4, <2>5
<1> HIDE DEF Few
<1>3. IInv /\ Few /\ [Next]_vars => [\A w \in Workers :
             /\ StepsLeft(w)' \in 0..(4 * BatchSize)
             /\ worker'[w] # worker[w] => worker[w].pc = "idle" \/ StepsLeft(w)' < StepsLeft(w)]_vars
  BY <1>2
<1>4. QED
  BY <1>1, <1>2, <1>3, Inductive, PTL DEF Spec, TickIsFinite

\* The attempt a process is in began before the envelope of its row expired.
InTime(w) == worker[w].now < row[Current(w)].expires

\* A row that waits for its next attempt is never put off by more than MaxBackoff, and never
\* to MaxBackoff past its expiry: whatever answers are lost and however many processes defer it,
\* from then on every tick finds it due (defer's min(..., maxBackoffMs), by the tick's own
\* instant, which was before expires_at).
PutOffInTime ==
  \A e \in Envelopes :
    row[e].state = "submitted" /\ row[e].next > clock =>
      /\ row[e].next <= clock + MaxBackoff
      /\ row[e].next < row[e].expires + MaxBackoff

\* An attempt on an expired row ends in its conclusion, if its write lands: a tick that began
\* at the row's expiry or later leaves the row concluded, by this process or by another that
\* came before it.
ExpiredIsConcluded ==
  [][\A w \in Workers :
       Write(w) /\ ~InTime(w) => row'[Current(w)].state \in Terminal]_vars

\* A tick began in the past, and asks the network, or puts off, only what it found unexpired.
TickInTime(w) ==
  /\ worker[w].now <= clock
  /\ worker[w].pc \in {"offer", "lookup"} => InTime(w)
  /\ worker[w].pc = "write" /\ worker[w].verdict # "expired" => InTime(w)

OnTime == (\A w \in Workers : TickInTime(w)) /\ PutOffInTime

\* The row in hand exists.
LEMMA CurrentExists ==
  ASSUME Known, NEW w \in Workers, worker[w].pc # "idle"
  PROVE  Current(w) \in Envelopes /\ row[Current(w)].state # "absent"
<1>1. Current(w) \in Envelopes /\ worker[w].todo \in Seq(Records) /\ worker[w].todo # <<>>
  BY CurrentIsEnvelope DEF Known, IInv, Shape, WorkerShape, Ticks, Records
<1>2. 1 \in 1..Len(worker[w].todo) /\ worker[w].todo[1].env = Current(w)
  BY <1>1, EmptySeq DEF Current
<1>3. QED
  BY <1>1, <1>2 DEF Known, RecordsExist

\* A delay is at most MaxBackoff.
LEMMA BackoffWithinMax ==
  ASSUME NEW attempts \in Nat
  PROVE  Backoff(attempts) \in Nat /\ Backoff(attempts) <= MaxBackoff
<1>1. Backoff(attempts) \in Nat
  BY BackoffIsNat
<1> DEFINE d == InitialBackoff * 2 ^ (IF attempts > 1 THEN attempts - 1 ELSE 0)
<1>2. Backoff(attempts) = IF d <= MaxBackoff THEN d ELSE MaxBackoff
  BY DEF Backoff, Minimum
<1>3. MaxBackoff \in Nat
  BY ConfirmationAssumption
<1> HIDE DEF d
<1>4. QED
  BY <1>1, <1>2, <1>3

\* What a step does to the times of a row: a new one is due at once, one that exists keeps its
\* expiry, and one that is put off is put off from an instant before it.
LEMMA TimesMove ==
  ASSUME Known, OnTime, [Next]_vars, NEW e \in Envelopes, row'[e] # row[e],
         row'[e].state = "submitted"
  PROVE  \/ row'[e].next = clock
         \/ row'[e].next <= clock + MaxBackoff /\ row'[e].next < row[e].expires + MaxBackoff
<1>1. CASE row[e].state = "absent"
  <2>1. PICK expires : Persist(e, expires)
    BY <1>1, RowMoves DEF Known
  <2>2. QED
    BY <2>1 DEF Persist, Known, IInv, Shape, RowShape
<1>2. CASE row[e].state # "absent"
  <2>1. PICK w \in Workers : Write(w)
    BY <1>2, OnlyWrites DEF Known
  <2>2. /\ row[e].state = "submitted" /\ e = Current(w) /\ worker[w].verdict = "deferred"
        /\ worker[w].pc = "write"
    BY <2>1, WriteRow DEF Known, Write
  <2>3. row'[e] = Deferred(w, e)
    BY <2>1, <2>2 DEF Write, Transition, Known, IInv, Shape, RowShape
  <2> DEFINE attempts == Counted(Head(worker[w].todo).attempts)
  <2>4. attempts \in Nat
    <3>1. Head(worker[w].todo) \in Records
      BY <2>2, CurrentIsEnvelope DEF Known, IInv, Shape
    <3>2. QED
      BY <3>1, ConfirmationAssumption DEF Records, Counted, Minimum
  <2>5. row'[e].next = worker[w].now + Backoff(attempts)
    BY <2>3 DEF Deferred, Known, IInv, Shape, RowShape, Rows
  <2> HIDE DEF attempts
  <2>6. /\ worker[w].now \in Nat /\ worker[w].now <= clock /\ worker[w].now < row[e].expires
        /\ clock \in Nat /\ row[e].expires \in Nat /\ MaxBackoff \in Nat
    BY <2>2, ConfirmationAssumption
    DEF OnTime, TickInTime, InTime, Known, IInv, Shape, WorkerShape, Ticks, RowShape, Rows
  <2>7. Backoff(attempts) \in Nat /\ Backoff(attempts) <= MaxBackoff
    BY <2>4, BackoffWithinMax
  <2>8. QED
    BY <2>5, <2>6, <2>7
<1>3. QED
  BY <1>1, <1>2

\* A row that exists keeps its expiry, which the envelope was signed with.
LEMMA ExpiryStays ==
  ASSUME Known, [Next]_vars, NEW e \in Envelopes, row[e].state # "absent"
  PROVE  row'[e].expires = row[e].expires
<1>1. CASE row'[e] = row[e]
  BY <1>1
<1>2. CASE row'[e] # row[e]
  <2>1. PICK w \in Workers : Write(w)
    BY <1>2, OnlyWrites DEF Known
  <2>2. e = Current(w) /\ row[e].state = "submitted"
    BY <1>2, <2>1, WriteRow DEF Known
  <2>3. row'[e] \in {Deferred(w, e), Concluded(e, worker[w].verdict)}
    BY <2>1, <2>2 DEF Write, Transition, Known, IInv, Shape, RowShape
  <2>4. row[e] \in Rows
    BY DEF Known, IInv, Shape, RowShape
  <2>5. QED
    BY <2>3, <2>4 DEF Deferred, Concluded, Rows
<1>3. QED
  BY <1>1, <1>2

\* Time only passes.
LEMMA ClockPasses ==
  ASSUME IInv, [Next]_vars
  PROVE  clock \in Nat /\ clock' \in Nat /\ clock <= clock'
<1>1. clock' = clock \/ clock' = clock + 1
  BY DEF Next, Tick, SubmitNext, Persist, LedgerNext, Include, Drop, LoopNext, StartTick, Step,
         Take, OfferAccepted, OfferRejected, OfferUnanswered, LookUp, Write, WriteFails, Crash, vars
<1>2. QED
  BY <1>1 DEF IInv, Shape

\* Every step is in time.
LEMMA OnTimeStays ==
  ASSUME Known, OnTime, [Next]_vars
  PROVE  OnTime'
<1>1. clock \in Nat /\ clock' \in Nat /\ clock <= clock' /\ MaxBackoff \in Nat
  BY ClockPasses, ConfirmationAssumption DEF Known
<1>2. PutOffInTime'
  <2> SUFFICES ASSUME NEW e \in Envelopes, row'[e].state = "submitted", row'[e].next > clock'
               PROVE  /\ row'[e].next <= clock' + MaxBackoff
                      /\ row'[e].next < row'[e].expires + MaxBackoff
    BY DEF PutOffInTime
  <2>1. row[e] \in Rows /\ row'[e] \in Rows
    BY NextIInv DEF Known, IInv, Shape, RowShape
  <2>2. CASE row'[e] = row[e]
    BY <1>1, <2>1, <2>2 DEF OnTime, PutOffInTime, Rows
  <2>3. CASE row'[e] # row[e]
    <3>1. row'[e].next # clock
      BY <1>1
    <3>2. row'[e].next <= clock + MaxBackoff /\ row'[e].next < row[e].expires + MaxBackoff
      BY <2>3, <3>1, TimesMove
    <3>3. row[e].state # "absent"
      <4>1. ASSUME row[e].state = "absent" PROVE FALSE
        <5>1. PICK expires : Persist(e, expires)
          BY <2>3, <4>1, RowMoves DEF Known
        <5>2. row'[e].next = clock
          BY <5>1 DEF Persist, Known, IInv, Shape, RowShape
        <5>3. QED
          BY <3>1, <5>2
      <4>2. QED
        BY <4>1
    <3>4. row'[e].expires = row[e].expires
      BY <3>3, ExpiryStays
    <3>5. QED
      BY <1>1, <2>1, <3>2, <3>4 DEF Rows
  <2>4. QED
    BY <2>2, <2>3
<1>3. ASSUME NEW w \in Workers PROVE TickInTime(w)'
  <2>1. worker[w].now \in Nat /\ worker[w].now <= clock
    BY DEF Known, IInv, Shape, WorkerShape, Ticks, OnTime, TickInTime
  <2>2. worker[w].pc # "idle" /\ worker'[w].todo = worker[w].todo =>
          Current(w)' = Current(w) /\ row'[Current(w)].expires = row[Current(w)].expires
    BY CurrentExists, ExpiryStays DEF Current
  <2>3. CASE worker'[w] = worker[w]
    BY <1>1, <2>1, <2>2, <2>3 DEF OnTime, TickInTime, InTime
  <2>4. CASE worker'[w] # worker[w]
    <3>1. CASE worker'[w].pc = "take" /\ worker'[w].now \in {clock, worker[w].now}
      BY <1>1, <2>1, <3>1 DEF TickInTime
    <3>2. CASE /\ worker[w].pc \in {"offer", "lookup"} /\ worker'[w].pc \in {"lookup", "write"}
               /\ worker'[w].todo = worker[w].todo /\ worker'[w].now = worker[w].now
      BY <1>1, <2>1, <2>2, <3>2 DEF OnTime, TickInTime, InTime
    <3>3. CASE /\ worker[w].pc = "take"
               /\ worker'[w].todo = worker[w].todo /\ worker'[w].now = worker[w].now
               /\ \/ worker'[w].pc = "offer" /\ InTime(w)
                  \/ worker'[w].pc = "write" /\ worker'[w].verdict = "expired"
      BY <1>1, <2>1, <2>2, <3>3 DEF TickInTime, InTime
    <3>4. CASE worker'[w] = Idle
      BY <1>1, <3>4 DEF TickInTime, Idle
    <3>5. QED
      BY <2>4, <3>1, <3>2, <3>3, <3>4, ProcessMoves DEF InTime, Known
  <2>5. QED
    BY <2>3, <2>4
<1>4. QED
  BY <1>2, <1>3 DEF OnTime

LEMMA OnTimeHolds == Spec => [](Known /\ OnTime)
<1>1. Init => OnTime
  BY DEF Init, OnTime, TickInTime, PutOffInTime, Idle, Absent
<1>2. Known /\ OnTime /\ [Next]_vars => OnTime'
  BY OnTimeStays
<1>3. QED
  BY <1>1, <1>2, KnownHolds, PTL DEF Spec

\* For any number of processes, envelopes and crashes, any batch and any back-off.
THEOREM PutOffInTimeHolds == Spec => []PutOffInTime
BY OnTimeHolds, PTL DEF OnTime

\* An expired row is concluded by the first write of it that lands, under the same conditions.
THEOREM ExpiredAreConcluded == Spec => ExpiredIsConcluded
<1>1. ASSUME Known, OnTime, NEW w \in Workers, Write(w), ~InTime(w)
      PROVE  row'[Current(w)].state \in Terminal
  <2>1. /\ Current(w) \in Envelopes /\ row[Current(w)].state # "absent"
        /\ worker[w].pc = "write" /\ worker[w].verdict = "expired"
    BY <1>1, CurrentExists DEF Write, OnTime, TickInTime
  <2>2. CASE row[Current(w)].state = "submitted"
    BY <1>1, <2>1, <2>2, WriteRow DEF Known, Terminal
  <2>3. CASE row[Current(w)].state # "submitted"
    BY <1>1, <2>1, <2>3, WriteRow DEF Known, IInv, Shape, RowShape, Rows
  <2>4. QED
    BY <2>2, <2>3
<1>2. Known /\ OnTime =>
        [\A w \in Workers : Write(w) /\ ~InTime(w) => row'[Current(w)].state \in Terminal]_vars
  BY <1>1
<1>3. QED
  BY <1>2, OnTimeHolds, PTL DEF ExpiredIsConcluded

-----------------------------------------------------------------------------
(* One process. *)

\* The records of the only process are different rows, all of them as they were found:
\* still waiting, tried as often as the record says, and due when the tick began.
Waiting(w) ==
  /\ \A i, j \in 1..Len(worker[w].todo) :
       worker[w].todo[i].env = worker[w].todo[j].env => i = j
  /\ \A i \in 1..Len(worker[w].todo) :
       /\ row[worker[w].todo[i].env].state = "submitted"
       /\ row[worker[w].todo[i].env].attempts = worker[w].todo[i].attempts
       /\ row[worker[w].todo[i].env].next <= worker[w].now

\* The row in hand waits.
LEMMA CurrentWaits ==
  ASSUME IInv, NEW w \in Workers, Waiting(w), worker[w].pc # "idle"
  PROVE  /\ Current(w) \in Envelopes
         /\ row[Current(w)].state = "submitted" /\ row[Current(w)].why = "none"
         /\ row[Current(w)].attempts = Head(worker[w].todo).attempts
         /\ row[Current(w)].next <= worker[w].now
<1>1. Current(w) \in Envelopes /\ worker[w].todo \in Seq(Records) /\ worker[w].todo # <<>>
  BY CurrentIsEnvelope DEF IInv, Shape, WorkerShape, Ticks, Records
<1>2. Len(worker[w].todo) \in Nat \ {0}
  BY <1>1, EmptySeq
<1>3. worker[w].todo[1] = Head(worker[w].todo) /\ Head(worker[w].todo).env = Current(w)
  BY <1>1 DEF Current
<1>4. /\ row[Current(w)].state = "submitted"
      /\ row[Current(w)].attempts = Head(worker[w].todo).attempts
      /\ row[Current(w)].next <= worker[w].now
  BY <1>2, <1>3 DEF Waiting
<1>5. row[Current(w)].why = "none"
  BY <1>1, <1>4 DEF IInv, WhyOfFailed, Shape, RowShape, Rows
<1>6. QED
  BY <1>1, <1>4, <1>5

\* The batch holds every row once, as it is.
LEMMA StartTickWaiting ==
  ASSUME IInv, NEW w \in Workers, StartTick(w)
  PROVE  Waiting(w)'
<1>1. PICK q \in FoundPending(clock) :
        worker' = [worker EXCEPT ![w] =
          [Idle EXCEPT !.pc = "take", !.now = clock,
             !.todo = [i \in DOMAIN q |-> [env |-> q[i], attempts |-> row[q[i]].attempts]]]]
  BY DEF StartTick
<1> DEFINE todo == [i \in DOMAIN q |-> [env |-> q[i], attempts |-> row[q[i]].attempts]]
<1>2. /\ DOMAIN q = 1..Len(todo) /\ IsInjective(q)
      /\ \A i \in DOMAIN q : row[q[i]].state = "submitted" /\ row[q[i]].next <= clock
  <2>1. q \in [1..Minimum(BatchSize, Cardinality(Due(clock))) -> Due(clock)]
    BY DEF FoundPending
  <2>2. \A i \in DOMAIN q : q[i] \in Due(clock)
    BY <2>1
  <2>3. DOMAIN q = 1..Len(todo) /\ IsInjective(q)
    BY BatchOfPending DEF StartTick, IInv, Shape
  <2> HIDE DEF todo
  <2>4. QED
    BY <2>2, <2>3 DEF Due
<1>3. \A i \in DOMAIN q : todo[i].env = q[i] /\ todo[i].attempts = row[q[i]].attempts
  OBVIOUS
<1>4. worker'[w].todo = todo /\ worker'[w].now = clock
  BY <1>1 DEF IInv, Shape, WorkerShape, Idle
<1>5. row' = row
  BY DEF StartTick
<1> HIDE DEF todo
<1>6. \A i, j \in DOMAIN q : q[i] = q[j] => i = j
  BY <1>2 DEF IsInjective
<1>7. QED
  BY <1>2, <1>3, <1>4, <1>5, <1>6 DEF Waiting

\* What is in hand is in the table.
LEMMA RecordsAreRows ==
  ASSUME IInv, NEW w \in Workers, NEW i \in 1..Len(worker[w].todo)
  PROVE  worker[w].todo[i].env \in Envelopes
<1>1. worker[w].todo \in Seq(Records)
  BY DEF IInv, Shape, WorkerShape, Ticks, Records
<1>2. worker[w].todo[i] \in Records
  BY <1>1, ElementOfSeq
<1>3. QED
  BY <1>2 DEF Records

\* On to the next record: the others are still as they were found if nothing but the one
\* in hand changed.
LEMMA NextRecordWaiting ==
  ASSUME IInv, NEW w \in Workers, Waiting(w), worker[w].pc # "idle", NextRecord(w),
         \A e \in Envelopes \ {Current(w)} : row'[e] = row[e]
  PROVE  Waiting(w)'
<1>1. worker[w].todo \in Seq(Records) /\ worker[w].todo # <<>>
  BY DEF IInv, Shape, WorkerShape, Ticks, Records
<1>2. Len(worker[w].todo) \in Nat \ {0}
  BY <1>1, EmptySeq
<1>3. CASE Len(worker[w].todo) = 1
  <2>1. worker'[w] = Idle
    BY <1>3 DEF NextRecord, IInv, Shape, WorkerShape
  <2>2. worker'[w].todo = <<>>
    BY <2>1 DEF Idle
  <2>3. QED
    BY <2>2 DEF Waiting
<1>4. CASE Len(worker[w].todo) # 1
  <2>1. worker'[w].todo = Tail(worker[w].todo) /\ worker'[w].now = worker[w].now
    BY <1>4 DEF NextRecord, IInv, Shape, WorkerShape, Idle
  <2>2. /\ Len(worker'[w].todo) = Len(worker[w].todo) - 1
        /\ \A i \in 1..Len(worker'[w].todo) : worker'[w].todo[i] = worker[w].todo[i + 1]
    BY <1>1, <1>2, <2>1
  <2>3. ASSUME NEW i \in 1..Len(worker'[w].todo)
        PROVE  /\ row'[worker'[w].todo[i].env].state = "submitted"
               /\ row'[worker'[w].todo[i].env].attempts = worker'[w].todo[i].attempts
               /\ row'[worker'[w].todo[i].env].next <= worker'[w].now
    <3>1. i + 1 \in 2..Len(worker[w].todo) /\ i + 1 \in 1..Len(worker[w].todo)
      BY <1>2, <2>2
    <3>2. worker[w].todo[i + 1].env \in Envelopes
      BY <3>1, RecordsAreRows
    <3>3. worker[w].todo[1].env = Current(w)
      BY <1>1 DEF Current
    <3>4. worker[w].todo[i + 1].env # worker[w].todo[1].env
      BY <1>2, <3>1 DEF Waiting
    <3>5. row'[worker[w].todo[i + 1].env] = row[worker[w].todo[i + 1].env]
      BY <3>2, <3>3, <3>4
    <3>6. /\ row[worker[w].todo[i + 1].env].state = "submitted"
          /\ row[worker[w].todo[i + 1].env].attempts = worker[w].todo[i + 1].attempts
          /\ row[worker[w].todo[i + 1].env].next <= worker[w].now
      BY <3>1 DEF Waiting
    <3>7. QED
      BY <2>1, <2>2, <3>5, <3>6
  <2>4. \A i, j \in 1..Len(worker'[w].todo) :
          worker'[w].todo[i].env = worker'[w].todo[j].env => i = j
    <3>1. TAKE i, j \in 1..Len(worker'[w].todo)
    <3>2. i + 1 \in 1..Len(worker[w].todo) /\ j + 1 \in 1..Len(worker[w].todo)
      BY <1>2, <2>2
    <3>3. worker[w].todo[i + 1].env = worker[w].todo[j + 1].env => i + 1 = j + 1
      BY <3>2 DEF Waiting
    <3>4. /\ worker'[w].todo[i] = worker[w].todo[i + 1]
          /\ worker'[w].todo[j] = worker[w].todo[j + 1]
      BY <2>2
    <3>5. i + 1 = j + 1 => i = j
      BY <1>2, <2>2
    <3>6. QED
      BY <3>3, <3>4, <3>5
  <2>5. QED
    BY <2>3, <2>4 DEF Waiting
<1>5. QED
  BY <1>3, <1>4

\* Within an attempt a process keeps its records, and only a refused offer or a failed
\* transaction is unsuccessful.
LEMMA StepKeepsRecords ==
  ASSUME IInv, NEW w \in Workers, Step(w)
  PROVE  /\ worker'[w].todo = worker[w].todo /\ worker'[w].now = worker[w].now
         /\ worker'[w].pc = "write" /\ worker'[w].verdict = "unsuccessful" =>
              OfferRejected(w) \/ (LookUp(w) /\ core[Current(w)] = "bad")
<1>1. worker \in [Workers -> Ticks]
  BY DEF IInv, Shape, WorkerShape
<1>2. ASSUME NEW verdict \in {"expired", "deferred", "confirmed", "unsuccessful"},
             Decide(w, verdict)
      PROVE  /\ worker'[w].todo = worker[w].todo /\ worker'[w].now = worker[w].now
             /\ worker'[w].verdict = verdict
  BY <1>1, <1>2 DEF Decide, Ticks
<1>3. ASSUME NEW pc \in {"offer", "lookup"}, worker' = [worker EXCEPT ![w].pc = pc]
      PROVE  /\ worker'[w].todo = worker[w].todo /\ worker'[w].now = worker[w].now
             /\ worker'[w].pc = pc
  BY <1>1, <1>3 DEF Ticks
<1>4. CASE Take(w)
  BY <1>2, <1>3, <1>4 DEF Take
<1>5. CASE OfferAccepted(w)
  BY <1>3, <1>5 DEF OfferAccepted
<1>6. CASE OfferRejected(w)
  BY <1>2, <1>6 DEF OfferRejected
<1>7. CASE OfferUnanswered(w)
  BY <1>2, <1>7 DEF OfferUnanswered
<1>8. CASE LookUp(w)
  BY <1>2, <1>8 DEF LookUp
<1>9. QED
  BY <1>4, <1>5, <1>6, <1>7, <1>8 DEF Step

\* Nobody but the only process writes to the rows it has found.
LEMMA WaitingStays ==
  ASSUME NEW w, Workers = {w}, IInv, Waiting(w), [Next]_vars
  PROVE  Waiting(w)'
<1>1. w \in Workers
  OBVIOUS
<1>2. ASSUME worker'[w].todo = worker[w].todo, worker'[w].now = worker[w].now,
             \A e \in Envelopes : row[e].state = "submitted" => row'[e] = row[e]
      PROVE  Waiting(w)'
  <2>1. \A i \in 1..Len(worker[w].todo) :
          row'[worker[w].todo[i].env] = row[worker[w].todo[i].env]
    BY <1>1, <1>2, RecordsAreRows DEF Waiting
  <2>2. QED
    BY <1>2, <2>1 DEF Waiting
<1>3. CASE Tick \/ LedgerNext \/ UNCHANGED vars
  BY <1>2, <1>3 DEF Tick, LedgerNext, Include, Drop, vars
<1>4. CASE SubmitNext
  <2>1. PICK e \in Envelopes, expires \in Expiries : Persist(e, expires)
    BY <1>4 DEF SubmitNext
  <2>2. \A f \in Envelopes : row[f].state = "submitted" => row'[f] = row[f]
    BY <2>1, PersistIInv DEF Persist
  <2>3. QED
    BY <1>2, <2>1, <2>2 DEF Persist
<1>5. CASE StartTick(w)
  BY <1>1, <1>5, StartTickWaiting
<1>6. CASE Step(w)
  <2>1. row' = row
    BY <1>6 DEF Step, Take, OfferAccepted, OfferRejected, OfferUnanswered, LookUp
  <2>2. QED
    BY <1>1, <1>2, <1>6, <2>1, StepKeepsRecords
<1>7. CASE Write(w) \/ WriteFails(w)
  <2>1. worker[w].pc # "idle" /\ NextRecord(w)
    BY <1>7 DEF Write, WriteFails
  <2>2. \A e \in Envelopes \ {Current(w)} : row'[e] = row[e]
    BY <1>1, <1>7, WriteRow DEF WriteFails
  <2>3. QED
    BY <1>1, <2>1, <2>2, NextRecordWaiting
<1>8. CASE Crash(w)
  <2>1. worker'[w] = Idle
    BY <1>1, <1>8 DEF Crash, IInv, Shape, WorkerShape
  <2>2. worker'[w].todo = <<>>
    BY <2>1 DEF Idle
  <2>3. QED
    BY <2>2 DEF Waiting
<1>9. QED
  BY <1>3, <1>4, <1>5, <1>6, <1>7, <1>8 DEF Next, LoopNext

\* At first the process has nothing in hand.
LEMMA InitWaiting == ASSUME NEW w \in Workers, Init PROVE Waiting(w)
<1>1. worker[w].todo = <<>>
  BY DEF Init, Idle
<1>2. QED
  BY <1>1 DEF Waiting

\* A deferral counts one more attempt than the row has, and comes after the tick the row
\* was due at.
LEMMA DeferralMovesForward ==
  ASSUME IInv, NEW w \in Workers, Waiting(w), worker[w].pc # "idle",
         NEW r, r = Deferred(w, Current(w))
  PROVE  /\ r.attempts >= row[Current(w)].attempts
         /\ r.next >= row[Current(w)].next
<1> DEFINE e == Current(w)
           attempts == Counted(row[e].attempts)
           delay == Backoff(attempts)
<1>1. /\ e \in Envelopes /\ row[e].attempts = Head(worker[w].todo).attempts
      /\ row[e].next <= worker[w].now
  BY CurrentWaits
<1>2. /\ row[e] \in Rows /\ row[e].attempts \in 0..(MaxBackoff + 1)
      /\ row[e].next \in Nat /\ worker[w].now \in Nat
  BY <1>1 DEF IInv, Shape, RowShape, WorkerShape, Rows, Ticks
<1>3. attempts \in Nat /\ attempts >= row[e].attempts
  BY <1>2, ConfirmationAssumption DEF Counted, Minimum
<1>4. r = [row[e] EXCEPT !.attempts = attempts, !.next = worker[w].now + delay]
  BY <1>1 DEF Deferred
<1> HIDE DEF attempts, delay
<1>5. delay \in Nat
  BY <1>3, BackoffIsNat DEF delay
<1>6. r.attempts = attempts /\ r.next = worker[w].now + delay
  BY <1>2, <1>4 DEF Rows
<1>7. QED
  BY <1>1, <1>2, <1>3, <1>5, <1>6

\* An attempt that decides nothing moves the schedule forward (defer), although it counts
\* from the record of the batch and from the instant the tick began: for any number of
\* envelopes and crashes, any batch and any back-off, with one process.
THEOREM ScheduleStands ==
  ASSUME NEW w, Workers = {w}
  PROVE  Spec => ScheduleMovesForward
<1>1. Init => Waiting(w)
  BY InitWaiting
<1>2. IInv /\ Waiting(w) /\ [Next]_vars => Waiting(w)'
  BY WaitingStays
<1>3. ASSUME IInv, Waiting(w), [Next]_vars, NEW e \in Envelopes, row[e].state = "submitted"
      PROVE  row'[e].attempts >= row[e].attempts /\ row'[e].next >= row[e].next
  <2>1. row[e].attempts \in Int /\ row[e].next \in Int
    BY <1>3, ConfirmationAssumption DEF IInv, Shape, RowShape, Rows
  <2>2. CASE row'[e] = row[e]
    BY <2>1, <2>2
  <2>3. CASE row'[e] # row[e]
    <3>1. Write(w) /\ w \in Workers /\ worker[w].pc # "idle"
      BY <1>3, <2>3, OnlyWrites DEF Write
    <3>2. e = Current(w)
      BY <2>3, <3>1, <1>3, WriteRow
    <3>3. CASE worker[w].verdict = "deferred"
      <4>1. row'[e] = Deferred(w, Current(w))
        BY <1>3, <3>1, <3>2, <3>3 DEF Write, Transition, IInv, Shape, RowShape
      <4>2. QED
        BY <1>3, <3>1, <3>2, <4>1, DeferralMovesForward
    <3>4. CASE worker[w].verdict # "deferred"
      <4>1. row'[e] = Concluded(e, worker[w].verdict)
        BY <1>3, <3>1, <3>2, <3>4 DEF Write, Transition, IInv, Shape, RowShape
      <4>2. row[e] \in Rows
        BY <1>3 DEF IInv, Shape, RowShape
      <4>3. row'[e].attempts = row[e].attempts /\ row'[e].next = row[e].next
        BY <4>1, <4>2 DEF Concluded, Rows
      <4>4. QED
        BY <2>1, <4>3
    <3>5. QED
      BY <3>3, <3>4
  <2>4. QED
    BY <2>2, <2>3
<1>4. IInv /\ Waiting(w) /\ [Next]_vars =>
        [\A e \in Envelopes :
           row[e].state = "submitted" =>
             row'[e].attempts >= row[e].attempts /\ row'[e].next >= row[e].next]_vars
  BY <1>3
<1>5. QED
  BY <1>1, <1>2, <1>4, Inductive, PTL DEF Spec, ScheduleMovesForward

-----------------------------------------------------------------------------
(* One process, and a core that says DUPLICATE of what a ledger has. *)

\* An envelope that core does not hold or that failed in a ledger, and that nobody offers,
\* will not succeed.
Lost == {"unknown", "bad"}

\* What was concluded as unsuccessful is lost.
RefusedLost == \A e \in Envelopes : row[e].why = "unsuccessful" => core[e] \in Lost

\* A refusal on its way to the row is still true.
RefusalFresh(w) ==
  worker[w].pc = "write" /\ worker[w].verdict = "unsuccessful" => core[Current(w)] \in Lost

Sole(w) == RefusedLost /\ Waiting(w) /\ RefusalFresh(w)

\* A tick begins, or goes on, without a refusal; one write says "unsuccessful" only of what
\* is still lost.
LEMMA LeaveSole ==
  ASSUME IInv, NEW w \in Workers, Sole(w), StartTick(w) \/ Write(w) \/ WriteFails(w) \/ Crash(w)
  PROVE  RefusedLost' /\ RefusalFresh(w)'
<1>1. core' = core
  BY DEF StartTick, Write, WriteFails, Crash
<1>2. CASE Write(w)
  <2>1. /\ worker[w].pc = "write" /\ NextRecord(w)
        /\ \A e \in Envelopes \ {Current(w)} : row'[e] = row[e]
    BY <1>2, WriteRow DEF Write
  <2>2. /\ Current(w) \in Envelopes
        /\ row'[Current(w)].why = "unsuccessful" => worker[w].verdict = "unsuccessful"
    BY <1>2, <2>1, CurrentWaits, WriteRow DEF Sole
  <2>3. RefusalFresh(w)'
    BY <2>1, NextRecordShape DEF IInv, Shape, RefusalFresh
  <2>4. QED
    BY <1>1, <2>1, <2>2, <2>3 DEF Sole, RefusedLost, RefusalFresh
<1>3. CASE WriteFails(w)
  <2>1. worker[w].pc # "idle" /\ NextRecord(w) /\ row' = row
    BY <1>3 DEF WriteFails
  <2>2. RefusalFresh(w)'
    BY <2>1, NextRecordShape DEF IInv, Shape, RefusalFresh
  <2>3. QED
    BY <1>1, <2>1, <2>2 DEF Sole, RefusedLost
<1>4. CASE StartTick(w) \/ Crash(w)
  <2>1. row' = row /\ worker \in [Workers -> Ticks]
    BY <1>4 DEF StartTick, Crash, IInv, Shape, WorkerShape
  <2>2. CASE StartTick(w)
    <3>1. PICK todo :
            worker' = [worker EXCEPT ![w] = [Idle EXCEPT !.pc = "take", !.now = clock, !.todo = todo]]
      BY <2>2 DEF StartTick
    <3>2. worker'[w].pc = "take"
      BY <2>1, <3>1 DEF Idle
    <3>3. QED
      BY <1>1, <2>1, <3>2 DEF Sole, RefusedLost, RefusalFresh
  <2>3. CASE Crash(w)
    <3>1. worker'[w].pc = "idle"
      BY <2>1, <2>3 DEF Crash, Idle
    <3>2. QED
      BY <1>1, <2>1, <3>1 DEF Sole, RefusedLost, RefusalFresh
  <2>4. QED
    BY <1>4, <2>2, <2>3
<1>5. QED
  BY <1>2, <1>3, <1>4

\* Within an attempt core changes its mind of the envelope in hand alone, which waits; an
\* unsuccessful one core does not hold, or a ledger failed it.
LEMMA StepSole ==
  ASSUME IncludedAnswer = "DUPLICATE", IInv, NEW w \in Workers, Sole(w), Step(w)
  PROVE  RefusedLost' /\ RefusalFresh(w)'
<1>1. worker[w].pc # "idle" /\ row' = row
  BY DEF Step, Take, OfferAccepted, OfferRejected, OfferUnanswered, LookUp
<1>2. /\ Current(w) \in Envelopes /\ row[Current(w)].why = "none"
  BY <1>1, CurrentWaits DEF Sole
<1>3. core' = core \/ core' = [core EXCEPT ![Current(w)] = "queued"]
  BY DEF Step, Take, OfferAccepted, OfferRejected, OfferUnanswered, LookUp
<1>4. RefusedLost'
  BY <1>1, <1>2, <1>3 DEF Sole, RefusedLost, IInv, Shape, CoreShape
<1>5. RefusalFresh(w)'
  <2>1. SUFFICES ASSUME worker'[w].pc = "write", worker'[w].verdict = "unsuccessful"
                 PROVE  core'[Current(w)'] \in Lost
    BY DEF RefusalFresh
  <2>2. /\ OfferRejected(w) \/ (LookUp(w) /\ core[Current(w)] = "bad")
        /\ worker'[w].todo = worker[w].todo
    BY <2>1, StepKeepsRecords
  <2>3. core[Current(w)] \in Lost /\ core' = core /\ Current(w)' = Current(w)
    BY <2>2 DEF OfferRejected, LookUp, Current, Lost
  <2>4. QED
    BY <2>3
<1>6. QED
  BY <1>4, <1>5

\* The clock, the ledger and the client leave a refused envelope alone.
LEMMA OutsideSole ==
  ASSUME IInv, NEW w \in Workers, Sole(w), Tick \/ SubmitNext \/ LedgerNext
  PROVE  RefusedLost' /\ RefusalFresh(w)'
<1>1. worker' = worker /\ Current(w)' = Current(w)
  BY DEF Tick, SubmitNext, Persist, LedgerNext, Include, Drop, Current
<1>2. CASE Tick
  BY <1>1, <1>2 DEF Tick, Sole, RefusedLost, RefusalFresh
<1>3. CASE SubmitNext
  <2>1. PICK e \in Envelopes, expires \in Expiries : Persist(e, expires)
    BY <1>3 DEF SubmitNext
  <2>2. /\ row[e].state = "absent" /\ row'[e].why = "none" /\ core' = core
        /\ \A f \in Envelopes \ {e} : row'[f] = row[f]
    BY <2>1, PersistIInv DEF Persist, IInv, Shape, RowShape
  <2>3. QED
    BY <1>1, <2>2 DEF Sole, RefusedLost, RefusalFresh
<1>4. CASE LedgerNext
  <2>1. /\ row' = row
        /\ \A e \in Envelopes : core[e] \in Lost => core'[e] \in Lost
    BY <1>4 DEF LedgerNext, Include, Drop, IInv, Shape, CoreShape, Lost
  <2>2. RefusedLost'
    BY <2>1 DEF Sole, RefusedLost
  <2>3. worker[w].pc # "idle" => Current(w) \in Envelopes
    BY CurrentIsEnvelope DEF IInv, Shape
  <2>4. RefusalFresh(w)'
    BY <1>1, <2>1, <2>3 DEF Sole, RefusalFresh
  <2>5. QED
    BY <2>2, <2>4
<1>5. QED
  BY <1>2, <1>3, <1>4

\* What is true of the only process stays true.
LEMMA SoleStays ==
  ASSUME NEW w, Workers = {w}, IncludedAnswer = "DUPLICATE"
  PROVE  Spec => []Sole(w)
<1>1. Init => Sole(w)
  BY InitWaiting DEF Init, Idle, Sole, RefusedLost, RefusalFresh, Absent
<1>2. IInv /\ Sole(w) /\ [Next]_vars => Sole(w)'
  <2> SUFFICES ASSUME IInv, Sole(w), [Next]_vars PROVE Sole(w)'
    OBVIOUS
  <2>1. Waiting(w)'
    BY WaitingStays DEF Sole
  <2>2. ASSUME LoopNext PROVE RefusedLost' /\ RefusalFresh(w)'
    BY <2>2, LeaveSole, StepSole DEF LoopNext
  <2>3. ASSUME Tick \/ SubmitNext \/ LedgerNext PROVE RefusedLost' /\ RefusalFresh(w)'
    BY <2>3, OutsideSole
  <2>4. ASSUME UNCHANGED vars PROVE RefusedLost' /\ RefusalFresh(w)'
    BY <2>4 DEF vars, Sole, RefusedLost, RefusalFresh, Current
  <2>5. QED
    BY <2>1, <2>2, <2>3, <2>4 DEF Next, Sole
<1>3. QED
  BY <1>1, <1>2, Inductive, PTL DEF Spec

\* What one process concludes as unsuccessful never succeeds in a ledger (advance's "Core
\* refused it, so it will never reach a ledger"), for any number of envelopes and crashes.
THEOREM RejectionStands ==
  ASSUME NEW w, Workers = {w}, IncludedAnswer = "DUPLICATE"
  PROVE  Spec => []RejectionIsFinal
<1>1. Sole(w) => RejectionIsFinal
  BY DEF Sole, RefusedLost, RejectionIsFinal, Lost
<1>2. QED
  BY <1>1, SoleStays, PTL

\* What is left of "`failed` never will" (derive-revenue-share-distribution.ts): of the rows
\* that failed only one given up as expired can have moved money, as long as one process runs
\* and core answers DUPLICATE of what a ledger has.
FailedMovedOnlyIfExpired ==
  \A e \in Envelopes : row[e].state = "failed" /\ core[e] = "ok" => row[e].why = "expired"

THEOREM OnlyExpiredMoved ==
  ASSUME NEW w, Workers = {w}, IncludedAnswer = "DUPLICATE"
  PROVE  Spec => []FailedMovedOnlyIfExpired
<1>1. Known /\ Sole(w) => FailedMovedOnlyIfExpired
  <2> SUFFICES ASSUME Known, Sole(w), NEW e \in Envelopes, row[e].state = "failed", core[e] = "ok"
               PROVE  row[e].why = "expired"
    BY DEF FailedMovedOnlyIfExpired
  <2>1. row[e].why \in Reasons /\ row[e].why # "none"
    BY DEF Known, Accounted, IInv, Shape, RowShape, Rows, Reasons
  <2>2. row[e].why # "unsuccessful"
    BY DEF Sole, RefusedLost, Lost
  <2>3. QED
    BY <2>1, <2>2 DEF Reasons
<1>2. QED
  BY <1>1, KnownHolds, SoleStays, PTL

-----------------------------------------------------------------------------
(* The distribution around the loop. *)

Places == {"new", "derived", "free", "signed", "matched", "answered"}

\* A distribution is a record of its terms, whatever they are.
DeskLike(d) ==
  [at : Places, period : {d.period}, pays : {d.pays}, counted : {d.counted},
   sequence : {d.sequence}, expires : {d.expires}]

\* What is submitted was signed with an expiry that a prepared envelope can have.
DeskInv ==
  /\ desk = [e \in Envelopes |-> desk[e]]
  /\ \A e \in Envelopes :
       /\ desk[e] \in DeskLike(desk[e])
       /\ desk[e].at \in {"signed", "matched"} => desk[e].expires \in Expiries

\* A step of a request is a step of its distribution only.
Moved(e, d) == desk' = [desk EXCEPT ![e] = d]

-----------------------------------------------------------------------------
\* A request that keeps its distribution's terms in shape keeps the whole desk.
LEMMA MovedKeepsDesk ==
  ASSUME DeskInv, NEW e \in Envelopes, NEW d, d \in DeskLike(d), Moved(e, d),
         d.at \in {"signed", "matched"} => d.expires \in Expiries
  PROVE  DeskInv' /\ desk'[e] = d /\ \A f \in Envelopes \ {e} : desk'[f] = desk[f]
BY DEF DeskInv, Moved

\* Where a request may take its distribution.
LEMMA RequestMoves ==
  ASSUME DeskInv, NEW e \in Envelopes, Request(e)
  PROVE  /\ DeskInv'
         /\ \A f \in Envelopes \ {e} : desk'[f] = desk[f]
         /\ desk[e].at # "answered"
         /\ desk'[e].at = "answered" =>
              /\ desk'[e].period = desk[e].period /\ desk[e].expires \in Expiries
              /\ ~Taken(desk[e].period) /\ Persist(e, desk[e].expires)
         /\ desk'[e].at # "answered" => UNCHANGED vars
<1>1. desk[e] \in DeskLike(desk[e])
  BY DEF DeskInv
<1>2. CASE PrepareDerive(e)
  <2> DEFINE d == [desk[e] EXCEPT !.at = "derived", !.period = reported, !.pays = Derived]
  <2>1. Moved(e, d) /\ UNCHANGED vars /\ desk[e].at = "new"
    BY <1>2 DEF PrepareDerive, Moved, DeskInv
  <2>2. d \in DeskLike(d) /\ d.at = "derived"
    BY <1>1 DEF DeskLike, Places
  <2> HIDE DEF d
  <2>3. QED
    BY <2>1, <2>2, MovedKeepsDesk
<1>3. CASE PrepareFindActive(e)
  <2> DEFINE d == IF Taken(desk[e].period) THEN NotPrepared ELSE [desk[e] EXCEPT !.at = "free"]
  <2>1. Moved(e, d) /\ UNCHANGED vars /\ desk[e].at = "derived"
    BY <1>3 DEF PrepareFindActive, Moved
  <2>2. d \in DeskLike(d) /\ d.at \in {"new", "free"}
    BY <1>1 DEF DeskLike, Places, NotPrepared
  <2> HIDE DEF d
  <2>3. QED
    BY <2>1, <2>2, MovedKeepsDesk
<1>4. CASE PrepareTerms(e)
  <2> DEFINE d == [desk[e] EXCEPT !.at = "signed", !.sequence = sequence + 1,
                                  !.expires = clock + Validity]
  <2>1. Moved(e, d) /\ UNCHANGED vars /\ desk[e].at = "free" /\ clock + Validity \in Expiries
    BY <1>4 DEF PrepareTerms, Moved, DeskInv
  <2>2. d \in DeskLike(d) /\ d.at = "signed" /\ d.expires = clock + Validity
    BY <1>1 DEF DeskLike, Places
  <2> HIDE DEF d
  <2>3. QED
    BY <2>1, <2>2, MovedKeepsDesk
<1>5. CASE SubmitDerive(e)
  <2> DEFINE d == [desk[e] EXCEPT !.at = "matched", !.period = reported, !.counted = Confirmed]
  <2>1. Moved(e, d) /\ UNCHANGED vars /\ desk[e].at = "signed" /\ desk[e].expires \in Expiries
    BY <1>5 DEF SubmitDerive, Moved, DeskInv
  <2>2. d \in DeskLike(d) /\ d.at = "matched" /\ d.expires = desk[e].expires
    BY <1>1 DEF DeskLike, Places
  <2> HIDE DEF d
  <2>3. QED
    BY <2>1, <2>2, MovedKeepsDesk
<1>6. CASE SubmitInsert(e)
  <2>1. desk[e].at = "matched" /\ desk[e].expires \in Expiries
    BY <1>6 DEF SubmitInsert, DeskInv
  <2>2. CASE Taken(desk[e].period)
    <3> DEFINE d == [desk[e] EXCEPT !.at = "signed"]
    <3>1. Moved(e, d) /\ UNCHANGED vars
      BY <1>6, <2>2 DEF SubmitInsert, Moved, DeskInv
    <3>2. d \in DeskLike(d) /\ d.at = "signed" /\ d.expires = desk[e].expires
      BY <1>1 DEF DeskLike, Places
    <3> HIDE DEF d
    <3>3. QED
      BY <2>1, <3>1, <3>2, MovedKeepsDesk
  <2>3. CASE ~Taken(desk[e].period)
    <3> DEFINE d == [desk[e] EXCEPT !.at = "answered"]
    <3>1. Moved(e, d) /\ Persist(e, desk[e].expires)
      BY <1>6, <2>3 DEF SubmitInsert, Moved, DeskInv
    <3>2. d \in DeskLike(d) /\ d.at = "answered" /\ d.period = desk[e].period
      BY <1>1 DEF DeskLike, Places
    <3> HIDE DEF d
    <3>3. QED
      BY <2>1, <2>3, <3>1, <3>2, MovedKeepsDesk
  <2>4. QED
    BY <2>2, <2>3
<1>7. QED
  BY <1>2, <1>3, <1>4, <1>5, <1>6 DEF Request

\* Every step is a step of the loop, or none for it.
LEMMA StepOfTheLoop ==
  ASSUME DeskInv, [DistNext]_distVars
  PROVE  DeskInv' /\ [Next]_vars
<1>1. CASE \E e \in Envelopes : Request(e)
  <2>1. PICK e \in Envelopes : Request(e)
    BY <1>1
  <2>2. CASE desk'[e].at = "answered"
    BY <2>1, <2>2, RequestMoves DEF Next, SubmitNext
  <2>3. CASE desk'[e].at # "answered"
    BY <2>1, <2>3, RequestMoves
  <2>4. QED
    BY <2>1, <2>2, <2>3, RequestMoves
<1>2. ASSUME UNCHANGED desk PROVE DeskInv'
  BY <1>2 DEF DeskInv
<1>3. CASE Report
  BY <1>2, <1>3 DEF Report
<1>4. CASE IncludeNext
  BY <1>2, <1>4 DEF IncludeNext, Next, LedgerNext
<1>5. CASE LoopAndClock
  BY <1>2, <1>5 DEF LoopAndClock, Next, LedgerNext
<1>6. CASE UNCHANGED distVars
  BY <1>2, <1>6 DEF distVars
<1>7. QED
  BY <1>1, <1>3, <1>4, <1>5, <1>6 DEF DistNext

\* Whatever is submitted was signed with an expiry of a prepared envelope, always.
LEMMA DeskHolds == DistSpec => []DeskInv
<1>1. DistInit => DeskInv
  BY DEF DistInit, DeskInv, DeskLike, NotPrepared, Places
<1>2. DeskInv /\ [DistNext]_distVars => DeskInv'
  BY StepOfTheLoop
<1>3. QED
  BY <1>1, <1>2, PTL DEF DistSpec

\* What the requests and the feed do around the loop is a behaviour of the loop.
LEMMA DistIsLoop == DistSpec => Spec
<1>1. DistInit => Init
  BY DEF DistInit
<1>2. DeskInv /\ [DistNext]_distVars => [Next]_vars
  BY StepOfTheLoop
<1>3. QED
  BY <1>1, <1>2, DeskHolds, PTL DEF DistSpec, Spec

\* The instance's batches are the module's.
LEMMA SameBatches == ASSUME NEW t PROVE Loop!FoundPending(t) = FoundPending(t)
<1>1. Loop!Due(t) = Due(t)
  BY DEF Loop!Due, Due
<1>2. Loop!Cardinality(Due(t)) = Cardinality(Due(t))
  BY DEF Loop!Cardinality, Cardinality, Loop!IsFiniteSet, IsFiniteSet
<1>3. \A q : (Loop!IsInjective(q) <=> IsInjective(q)) /\ Loop!Range(q) = Range(q)
  BY DEF Loop!IsInjective, IsInjective, Loop!Range, Range
<1>4. QED
  BY <1>1, <1>2, <1>3 DEF Loop!FoundPending, FoundPending, Loop!Minimum, Minimum

\* The instance is the module.
LEMMA SameLoop == Spec => ImplementsConfirmation
<1>1. Init => Loop!Init
  BY DEF Init, Loop!Init, Absent, Loop!Absent, Idle, Loop!Idle
<1>2. Tick => Loop!Tick
  BY DEF Tick, Loop!Tick
<1>3. SubmitNext => Loop!SubmitNext
  BY DEF SubmitNext, Loop!SubmitNext, Persist, Loop!Persist, Expiries, Loop!Expiries
<1>4. LedgerNext => Loop!LedgerNext
  BY DEF LedgerNext, Loop!LedgerNext, Include, Loop!Include, Drop, Loop!Drop
<1>5. LoopNext => Loop!LoopNext
  <2>1. ASSUME NEW w \in Workers, StartTick(w) PROVE Loop!StartTick(w)
    BY <2>1, SameBatches DEF StartTick, Loop!StartTick, Due, Loop!Due, Idle, Loop!Idle
  <2>2. ASSUME NEW w \in Workers, Step(w) PROVE Loop!Step(w)
    BY <2>2 DEF Step, Loop!Step, Take, Loop!Take, OfferAccepted, Loop!OfferAccepted,
                OfferRejected, Loop!OfferRejected, OfferUnanswered, Loop!OfferUnanswered,
                LookUp, Loop!LookUp, Decide, Loop!Decide, Current, Loop!Current,
                CoreMayTake, Loop!CoreMayTake
  <2>3. ASSUME NEW w \in Workers, Write(w) PROVE Loop!Write(w)
    BY <2>3 DEF Write, Loop!Write, Transition, Loop!Transition, Concluded, Loop!Concluded,
                Deferred, Loop!Deferred, Counted, Loop!Counted, Backoff, Loop!Backoff,
                Minimum, Loop!Minimum, NextRecord, Loop!NextRecord, Idle, Loop!Idle,
                Current, Loop!Current
  <2>4. ASSUME NEW w \in Workers, WriteFails(w) \/ Crash(w)
        PROVE  Loop!WriteFails(w) \/ Loop!Crash(w)
    BY <2>4 DEF WriteFails, Loop!WriteFails, Crash, Loop!Crash, NextRecord, Loop!NextRecord,
                Idle, Loop!Idle
  <2>5. QED
    BY <2>1, <2>2, <2>3, <2>4 DEF LoopNext, Loop!LoopNext
<1>6. [Next]_vars => [Loop!Next]_Loop!vars
  BY <1>2, <1>3, <1>4, <1>5 DEF Next, Loop!Next, vars, Loop!vars
<1>7. QED
  BY <1>1, <1>6, PTL DEF Spec, ImplementsConfirmation, Loop!Spec

\* The loop is the loop of module Confirmation, whoever submits the rows: what is proved
\* of that loop holds of the distributions' rows.
THEOREM LoopImplemented == DistSpec => ImplementsConfirmation
BY DistIsLoop, SameLoop

-----------------------------------------------------------------------------
(* A period is paid once, unless its first distribution was given up. *)

\* A period's slot is taken by one row that may pay, and a row that exists keeps the
\* period it was inserted under.
Live(e) == row[e].state \notin {"absent", "failed"}

PeriodInv ==
  /\ \A e \in Envelopes : row[e].state # "absent" => desk[e].at = "answered"
  /\ \A e, f \in Envelopes : e # f /\ Live(e) /\ Live(f) => desk[e].period # desk[f].period

\* The loop submits nothing.
LEMMA LoopSubmitsNothing ==
  ASSUME IInv, LoopAndClock, NEW e \in Envelopes, row[e].state # "submitted"
  PROVE  row'[e] = row[e]
<1>1. CASE \E w \in Workers : Write(w)
  BY <1>1, WriteRow
<1>2. CASE row' = row
  BY <1>2
<1>3. row' = row \/ \E w \in Workers : Write(w)
  BY DEF LoopAndClock, Tick, Drop, LoopNext, StartTick, Step, Take, OfferAccepted,
         OfferRejected, OfferUnanswered, LookUp, WriteFails, Crash
<1>4. QED
  BY <1>1, <1>2, <1>3

\* The index keeps two rows of one period from being there together.
LEMMA PeriodStays ==
  ASSUME IInv, Accounted, DeskInv, PeriodInv, [DistNext]_distVars
  PROVE  PeriodInv'
<1>1. [Next]_vars
  BY StepOfTheLoop
<1>2. CASE UNCHANGED desk /\ \A e \in Envelopes : row[e].state # "submitted" => row'[e] = row[e]
  <2>1. \A e \in Envelopes : row'[e].state # "absent" => row[e].state # "absent"
    BY <1>2
  <2>2. \A e \in Envelopes : Live(e)' => Live(e)
    BY <1>2 DEF Live
  <2>3. QED
    BY <1>2, <2>1, <2>2 DEF PeriodInv
<1>3. CASE \E e \in Envelopes : Request(e)
  <2>1. PICK e \in Envelopes : Request(e)
    BY <1>3
  <2>2. /\ desk[e].at # "answered" /\ row[e].state = "absent"
        /\ \A f \in Envelopes \ {e} : desk'[f] = desk[f]
    BY <2>1, RequestMoves DEF PeriodInv
  <2>3. CASE desk'[e].at = "answered"
    <3>1. /\ desk'[e].period = desk[e].period
          /\ ~Taken(desk[e].period) /\ Persist(e, desk[e].expires)
          /\ desk[e].expires \in Expiries
      BY <2>1, <2>3, RequestMoves
    <3>2. \A f \in Envelopes \ {e} : row'[f] = row[f]
      BY <3>1, PersistIInv
    <3>3. \A f \in Envelopes \ {e} : Live(f) => desk[f].period # desk[e].period
      BY <3>1 DEF Taken, Live
    <3>4. QED
      BY <2>2, <2>3, <3>1, <3>2, <3>3 DEF PeriodInv, Live
  <2>4. CASE desk'[e].at # "answered"
    <3>1. row' = row
      BY <2>1, <2>4, RequestMoves DEF vars
    <3>2. ~Live(e)
      BY <2>2 DEF Live
    <3>3. QED
      BY <2>2, <3>1, <3>2 DEF PeriodInv, Live
  <2>5. QED
    BY <2>3, <2>4
<1>4. CASE Report \/ IncludeNext \/ UNCHANGED distVars
  BY <1>2, <1>4 DEF Report, IncludeNext, Include, distVars, vars
<1>5. CASE LoopAndClock
  BY <1>2, <1>5, LoopSubmitsNothing DEF LoopAndClock
<1>6. QED
  BY <1>3, <1>4, <1>5 DEF DistNext

\* A period is paid twice only over a row that was given up: of two payments for one period
\* the row of one says failed, and so freed the slot of the partial unique index.  Nothing else
\* can do it: no order of two requests' derivations, checks and inserts, no number of
\* processes, no crash, and neither answer of core.
PaidTwiceOnlyIfGivenUp ==
  \A e, f \in Paid :
    e # f /\ desk[e].period = desk[f].period => \E g \in {e, f} : row[g].state = "failed"

\* Two payments of one period have a row given up between them, for any number of processes,
\* distributions, periods and crashes and either answer of core.
THEOREM PaidTwiceOnlyOverAGivenUpRow == DistSpec => []PaidTwiceOnlyIfGivenUp
<1>1. DistSpec => [](Known /\ DeskInv)
  BY DistIsLoop, KnownHolds, DeskHolds, PTL
<1>2. DistInit => PeriodInv
  BY DEF DistInit, Init, PeriodInv, Absent, Live
<1>3. Known /\ DeskInv /\ PeriodInv /\ [DistNext]_distVars => PeriodInv'
  BY PeriodStays DEF Known
<1>4. Known /\ PeriodInv => PaidTwiceOnlyIfGivenUp
  <2> SUFFICES ASSUME Known, PeriodInv, NEW e \in Paid, NEW f \in Paid, e # f,
                      desk[e].period = desk[f].period
               PROVE  \E g \in {e, f} : row[g].state = "failed"
    BY DEF PaidTwiceOnlyIfGivenUp
  <2>1. PICK g \in {e, f} : ~Live(g)
    BY DEF PeriodInv, Paid
  <2>2. g \in Envelopes /\ core[g] = "ok"
    BY DEF Paid
  <2>3. QED
    BY <2>1, <2>2 DEF Known, OfferedExist, Live
<1>5. QED
  BY <1>1, <1>2, <1>3, <1>4, PTL DEF DistSpec

\* One period's revenue is paid once (the partial unique index of the period, "even
\* under a race between two submissions"), in whatever order requests derive, check and
\* insert, unless a row was given up as expired: for any number of distributions, periods
\* and crashes, one process, and a core that says DUPLICATE of what a ledger has.
THEOREM PeriodsPaidOnce ==
  ASSUME NEW w, Workers = {w}, IncludedAnswer = "DUPLICATE"
  PROVE  DistSpec => []PaidOnceUnlessExpired
<1>1. FailedMovedOnlyIfExpired /\ PaidTwiceOnlyIfGivenUp => PaidOnceUnlessExpired
  BY DEF FailedMovedOnlyIfExpired, PaidTwiceOnlyIfGivenUp, PaidOnceUnlessExpired, Paid
<1>2. QED
  BY <1>1, DistIsLoop, OnlyExpiredMoved, PaidTwiceOnlyOverAGivenUpRow, PTL

-----------------------------------------------------------------------------
(* The cap, with any number of processes and either answer of core. *)

\* What the distributions S leave of every cap.
RoomAfter(S) == Capacities(Contribution, [i \in Investors |-> PaidBy(S, i)])

\* Payments for what is due under the room there is: whole amounts, to nobody more than his
\* room, in all what is due or as much of it as there is room for, and to whoever put in more
\* no less, unless his room is used up.
Fits(pays, due, room) ==
  /\ pays \in [Investors -> Nat]
  /\ \A i \in Investors : pays[i] <= room[i]
  /\ SumFunctionOnSet(pays, Investors) = Lesser(due, SumFunctionOnSet(room, Investors))
  /\ Ordered(Investors, Contribution, room, pays)

\* What a distribution that was derived for good pays fits its period, under what the
\* distributions counted then leave.
Exact(f) ==
  /\ desk[f].period \in DOMAIN Obligation
  /\ Fits(desk[f].pays, Obligation[desk[f].period], RoomAfter(desk[f].counted))

\* What it counted was confirmed, is not itself, and had counted no more than it did.
CountedBefore(f) ==
  /\ desk[f].counted \subseteq Confirmed /\ f \notin desk[f].counted
  /\ \A g \in desk[f].counted : desk[g].counted \subseteq desk[f].counted

RowsAnswered == \A e \in Envelopes : row[e].state # "absent" => desk[e].at = "answered"

Derivations ==
  \A f \in Envelopes : desk[f].at \in {"matched", "answered"} => Exact(f) /\ CountedBefore(f)

CapInv ==
  /\ RecordsExist /\ OfferedExist
  /\ reported \in 0..Len(Obligation)
  /\ RowsAnswered /\ Derivations

\* Contributions are at positions, and caps whole amounts.
LEMMA Contributed ==
  /\ Investors \in SUBSET Nat /\ IsFiniteSet(Investors)
  /\ \A i \in Investors :
       Contribution[i] \in Nat /\ Contribution[i] > 0 /\ Cap(Contribution[i]) \in Nat
<1>1. Contribution \in Seq(Nat \ {0}) /\ Len(Contribution) \in Nat
  BY DistributionAssumption
<1>2. Investors = 1..Len(Contribution)
  BY <1>1 DEF Investors
<1>3. IsFiniteSet(Investors)
  BY <1>1, <1>2, FS_Interval
<1>4. \A i \in Investors : Contribution[i] \in Nat /\ Contribution[i] > 0
  BY <1>1, <1>2, ElementOfSeq
<1>5. \A i \in Investors : Cap(Contribution[i]) \in Nat
  BY <1>4, CapIsNat
<1>6. QED
  BY <1>1, <1>2, <1>3, <1>4, <1>5

\* What distributions pay an investor: a whole amount, no less for more of them, from
\* which any of them can be taken out.
LEMMA PaidByAll ==
  ASSUME NEW S \in SUBSET Envelopes, NEW i \in Investors,
         \A e \in S : desk[e].pays \in [Investors -> Nat]
  PROVE  /\ PaidBy(S, i) \in Nat
         /\ \A R \in SUBSET S : PaidBy(R, i) <= PaidBy(S, i)
         /\ \A e \in S : PaidBy(S, i) = desk[e].pays[i] + PaidBy(S \ {e}, i)
<1> DEFINE f == [e \in S |-> desk[e].pays[i]]
<1>1. IsFiniteSet(S) /\ \A e \in S : f[e] \in Nat /\ f[e] = desk[e].pays[i]
  BY ConfirmationAssumption, FS_Subset
<1>2. ASSUME NEW R \in SUBSET S PROVE PaidBy(R, i) = SumFunctionOnSet(f, R)
  <2> DEFINE g == [e \in R |-> desk[e].pays[i]]
  <2>1. IsFiniteSet(R) /\ \A e \in R : g[e] \in Int /\ g[e] = f[e]
    BY <1>1, FS_Subset
  <2>2. PaidBy(R, i) = SumFunctionOnSet(g, R)
    BY DEF PaidBy
  <2> HIDE DEF f, g
  <2>3. SumFunctionOnSet(g, R) = SumFunctionOnSet(f, R)
    BY <2>1, SumSame
  <2>4. QED
    BY <2>2, <2>3
<1> HIDE DEF f
<1>3. \A e \in S : f[e] \in Int
  BY <1>1
<1>4. SumFunctionOnSet(f, S) \in Nat
  BY <1>1, SumOfNats
<1>5. ASSUME NEW R \in SUBSET S PROVE SumFunctionOnSet(f, R) <= SumFunctionOnSet(f, S)
  BY <1>1, SumOfPart
<1>6. \A e \in S : SumFunctionOnSet(f, S) = f[e] + SumFunctionOnSet(f, S \ {e})
  BY <1>1, <1>3, SumWithout
<1>7. QED
  BY <1>1, <1>2, <1>4, <1>5, <1>6

\* The derivation fits the latest period, under what the confirmed distributions leave.
LEMMA DerivedExact ==
  ASSUME CapInv, Derivable
  PROVE  /\ reported \in DOMAIN Obligation
         /\ Fits(Derived, Obligation[reported], RoomAfter(Confirmed))
<1> DEFINE distributed == [i \in Investors |-> PaidBy(Confirmed, i)]
           capacity == Capacities(Contribution, distributed)
           obligation == Obligation[reported]
<1>1. \A i \in Investors : distributed[i] \in Nat
  <2>1. Confirmed \in SUBSET Envelopes /\ \A e \in Confirmed : desk[e].pays \in [Investors -> Nat]
    BY DEF Confirmed, CapInv, RowsAnswered, Derivations, Exact, Fits
  <2>2. QED
    BY <2>1, PaidByAll
<1>2. \A i \in Investors : capacity[i] \in Nat
  <2>1. \A i \in Investors : capacity[i] = Remaining(Cap(Contribution[i]), distributed[i])
    BY DEF Capacities, Investors
  <2>2. \A i \in Investors : Cap(Contribution[i]) \in Nat
    BY Contributed
  <2> HIDE DEF capacity
  <2>3. QED
    BY <1>1, <2>1, <2>2, RemainingWithinCap
<1>3. capacity \in [Investors -> Nat]
  BY <1>2 DEF Capacities, Investors
<1>4. reported \in DOMAIN Obligation /\ obligation \in Nat
  <2>1. Obligation \in Seq(Nat) /\ reported \in 1..Len(Obligation)
    BY DistributionAssumption DEF Derivable, CapInv
  <2>2. QED
    BY <2>1, ElementOfSeq
<1>5. Derived = Allocate(obligation, Contribution, distributed) /\ capacity = RoomAfter(Confirmed)
  BY DEF Derived, RoomAfter
<1> HIDE DEF distributed
<1>6. AllocationInput(obligation, Contribution, capacity)
  BY <1>3, <1>4, Contributed DEF AllocationInput, Investors
<1> HIDE DEF obligation
<1>7. LET I == DOMAIN Contribution
          paid == Allocate(obligation, Contribution, distributed)
      IN  /\ paid \in [I -> Nat]
          /\ \A i \in I : paid[i] <= capacity[i]
          /\ SumFunctionOnSet(paid, I) = Lesser(obligation, SumFunctionOnSet(capacity, I))
          /\ Ordered(I, Contribution, capacity, paid)
  BY <1>6, AllocateExact
<1> HIDE DEF capacity
<1>8. Fits(Derived, obligation, RoomAfter(Confirmed))
  BY <1>5, <1>7 DEF Fits, Investors
<1>9. QED
  BY <1>4, <1>8 DEF obligation

\* A step that leaves a derived distribution as it is, and those it counted, leaves it
\* exact.
LEMMA DerivationStays ==
  ASSUME CapInv, NEW f \in Envelopes, desk[f].at \in {"matched", "answered"},
         desk'[f].pays = desk[f].pays, desk'[f].counted = desk[f].counted,
         desk'[f].period = desk[f].period,
         \A g \in Envelopes : desk[g].at = "answered" => desk'[g] = desk[g],
         Confirmed \subseteq Confirmed'
  PROVE  Exact(f)' /\ CountedBefore(f)'
<1>1. Exact(f) /\ CountedBefore(f)
  BY DEF CapInv, Derivations
<1>2. \A g \in desk[f].counted : g \in Envelopes /\ desk'[g] = desk[g]
  BY <1>1 DEF CountedBefore, Confirmed, CapInv, RowsAnswered
<1>3. ASSUME NEW i \in Investors
      PROVE  PaidBy(desk[f].counted, i)' = PaidBy(desk[f].counted, i)
  <2> DEFINE S == desk[f].counted
  <2>1. [g \in S |-> desk'[g].pays[i]] = [g \in S |-> desk[g].pays[i]]
    BY <1>2
  <2>2. desk'[f].counted = S
    OBVIOUS
  <2>3. QED
    BY <2>1, <2>2 DEF PaidBy
<1>4. Exact(f)'
  <2>1. RoomAfter(desk[f].counted)' = RoomAfter(desk[f].counted)
    <3>1. [i \in Investors |-> PaidBy(desk[f].counted, i)]' = [i \in Investors |-> PaidBy(desk[f].counted, i)]
      BY <1>3
    <3>2. QED
      BY <3>1 DEF RoomAfter
  <2>2. QED
    BY <1>1, <2>1 DEF Exact, Fits
<1>5. CountedBefore(f)'
  BY <1>1, <1>2 DEF CountedBefore
<1>6. QED
  BY <1>4, <1>5

-----------------------------------------------------------------------------
\* A request counts what is confirmed when it derives for good, and keeps to it.
LEMMA RequestKeepsCap ==
  ASSUME CapInv, DeskInv, NEW e \in Envelopes, Request(e), Confirmed \subseteq Confirmed'
  PROVE  Derivations'
<1>1. /\ desk[e].at # "answered"
      /\ \A f \in Envelopes \ {e} : desk'[f] = desk[f]
  BY RequestMoves
<1>2. \A g \in Envelopes : desk[g].at = "answered" => desk'[g] = desk[g]
  BY <1>1
<1>3. desk[e] \in DeskLike(desk[e]) /\ desk = [f \in Envelopes |-> desk[f]]
  BY DEF DeskInv
<1>4. ASSUME NEW d, d.at \notin {"matched", "answered"}, Moved(e, d)
      PROVE  desk'[e].at \notin {"matched", "answered"}
  <2>1. desk'[e] = d
    BY <1>3, <1>4 DEF Moved
  <2>2. QED
    BY <1>4, <2>1
<1>5. ASSUME desk'[e].at \in {"matched", "answered"}
      PROVE  Exact(e)' /\ CountedBefore(e)'
  <2>1. CASE PrepareDerive(e) \/ PrepareFindActive(e) \/ PrepareTerms(e)
    <3>1. CASE PrepareDerive(e)
      BY <1>3, <1>5, <3>1 DEF PrepareDerive, DeskLike
    <3>2. CASE PrepareFindActive(e)
      BY <1>3, <1>5, <3>2 DEF PrepareFindActive, DeskLike, NotPrepared
    <3>3. CASE PrepareTerms(e)
      BY <1>3, <1>5, <3>3 DEF PrepareTerms, DeskLike
    <3>4. QED
      BY <2>1, <3>1, <3>2, <3>3
  <2>2. CASE SubmitDerive(e)
    <3>1. /\ desk'[e].pays = Derived /\ desk'[e].counted = Confirmed /\ desk'[e].period = reported
          /\ Derivable /\ desk[e].at = "signed" /\ Confirmed' = Confirmed
      BY <1>3, <2>2 DEF SubmitDerive, DeskLike, Confirmed, vars
    <3>2. \A g \in Confirmed :
            g \in Envelopes /\ desk[g].at = "answered" /\ desk'[g] = desk[g] /\ g # e
      BY <1>2, <3>1 DEF Confirmed, CapInv, RowsAnswered
    <3>3. \A g \in Confirmed : desk[g].counted \subseteq Confirmed
      BY <3>2 DEF CapInv, Derivations, CountedBefore
    <3>4. CountedBefore(e)'
      BY <3>1, <3>2, <3>3 DEF CountedBefore
    <3>5. ASSUME NEW i \in Investors
          PROVE  PaidBy(desk[e].counted, i)' = PaidBy(Confirmed, i)
      <4> DEFINE S == Confirmed
      <4>1. [g \in S |-> desk'[g].pays[i]] = [g \in S |-> desk[g].pays[i]]
        BY <3>2
      <4>2. desk'[e].counted = S
        BY <3>1
      <4>3. QED
        BY <4>1, <4>2 DEF PaidBy
    <3>6. Exact(e)'
      <4>1. [i \in Investors |-> PaidBy(desk[e].counted, i)]' = [i \in Investors |-> PaidBy(Confirmed, i)]
        BY <3>5
      <4>2. RoomAfter(desk[e].counted)' = RoomAfter(Confirmed)
        BY <4>1 DEF RoomAfter
      <4>3. QED
        BY <3>1, <4>2, DerivedExact DEF Exact, Fits
    <3>7. QED
      BY <3>4, <3>6
  <2>3. CASE SubmitInsert(e)
    <3>1. /\ desk[e].at = "matched"
          /\ desk'[e].pays = desk[e].pays /\ desk'[e].counted = desk[e].counted
          /\ desk'[e].period = desk[e].period
      BY <1>3, <2>3 DEF SubmitInsert, DeskLike
    <3>2. QED
      BY <1>2, <3>1, DerivationStays
  <2>4. QED
    BY <2>1, <2>2, <2>3 DEF Request
<1>6. ASSUME NEW f \in Envelopes \ {e}, desk'[f].at \in {"matched", "answered"}
      PROVE  Exact(f)' /\ CountedBefore(f)'
  BY <1>1, <1>2, <1>6, DerivationStays
<1>7. QED
  BY <1>5, <1>6 DEF Derivations

\* A row is inserted by the request that is then answered.
LEMMA AnsweredStays ==
  ASSUME IInv, DeskInv, RowsAnswered, [DistNext]_distVars
  PROVE  RowsAnswered'
<1>1. CASE \E e \in Envelopes : Request(e)
  <2>1. PICK e \in Envelopes : Request(e)
    BY <1>1
  <2>2. /\ desk[e].at # "answered"
        /\ \A f \in Envelopes \ {e} : desk'[f] = desk[f] /\ row'[f] = row[f]
        /\ desk'[e].at # "answered" => row' = row
    <3>1. desk'[e].at = "answered" =>
            desk[e].expires \in Expiries /\ Persist(e, desk[e].expires)
      BY <2>1, RequestMoves
    <3>2. desk'[e].at # "answered" => row' = row
      BY <2>1, RequestMoves DEF vars
    <3>3. \A f \in Envelopes \ {e} : row'[f] = row[f]
      BY <3>1, <3>2, PersistIInv
    <3>4. QED
      BY <2>1, <3>2, <3>3, RequestMoves
  <2>3. QED
    BY <2>2 DEF RowsAnswered
<1>2. ASSUME UNCHANGED desk,
             \A e \in Envelopes : row[e].state = "absent" => row'[e].state = "absent"
      PROVE  RowsAnswered'
  BY <1>2 DEF RowsAnswered
<1>3. CASE LoopAndClock
  <2>1. \A e \in Envelopes : row[e].state = "absent" => row'[e] = row[e]
    BY <1>3, LoopSubmitsNothing
  <2>2. QED
    BY <1>2, <1>3, <2>1 DEF LoopAndClock
<1>4. CASE Report \/ IncludeNext \/ UNCHANGED distVars
  BY <1>2, <1>4 DEF Report, IncludeNext, Include, distVars, vars
<1>5. QED
  BY <1>1, <1>3, <1>4 DEF DistNext

\* Every step keeps the derivations within the cap.
LEMMA CapStays ==
  ASSUME IInv, DeskInv, CapInv, [DistNext]_distVars
  PROVE  CapInv'
<1>1. [Next]_vars
  BY StepOfTheLoop
<1>2. RecordsExist' /\ OfferedExist' /\ Confirmed \subseteq Confirmed'
  BY <1>1, RowsStay, OfferedStays DEF CapInv
<1>3. RowsAnswered'
  BY AnsweredStays DEF CapInv
<1>4. Derivations'
  <2>1. CASE \E e \in Envelopes : Request(e)
    BY <1>2, <2>1, RequestKeepsCap
  <2>2. CASE UNCHANGED desk
    <3>1. ASSUME NEW f \in Envelopes, desk'[f].at \in {"matched", "answered"}
          PROVE  Exact(f)' /\ CountedBefore(f)'
      BY <1>2, <2>2, <3>1, DerivationStays
    <3>2. QED
      BY <3>1 DEF Derivations
  <2>3. QED
    BY <2>1, <2>2 DEF DistNext, Report, IncludeNext, LoopAndClock, distVars
<1>5. (reported \in 0..Len(Obligation))'
  <2>1. Len(Obligation) \in Nat
    BY DistributionAssumption, LenProperties
  <2>2. \A e \in Envelopes : Request(e) => reported' = reported
    BY DEF Request, PrepareDerive, PrepareFindActive, PrepareTerms, SubmitDerive, SubmitInsert
  <2>3. QED
    BY <2>1, <2>2 DEF CapInv, DistNext, Report, IncludeNext, LoopAndClock, distVars
<1>6. QED
  BY <1>2, <1>3, <1>4, <1>5 DEF CapInv

\* Of paid distributions of which one always counted the other, one counted all others.
LEMMA LatestPaid ==
  ASSUME CapInv, \A e, f \in Paid : e # f => e \in desk[f].counted \/ f \in desk[e].counted,
         NEW S \in SUBSET Paid, S # {}
  PROVE  \E l \in S : S \ {l} \subseteq desk[l].counted
<1> DEFINE Bad == {s \in SUBSET S : s # {} /\ ~\E l \in s : s \ {l} \subseteq desk[l].counted}
<1> SUFFICES ASSUME S \in Bad PROVE FALSE
  OBVIOUS
<1>1. IsFiniteSet(S) /\ Bad \in SUBSET SUBSET S /\ Bad # {}
  BY ConfirmationAssumption, FS_Subset DEF Paid
<1> HIDE DEF Bad
<1>2. PICK s \in Bad : \A t \in Bad : t \subseteq s => t = s
  BY <1>1, SmallestSet
<1>3. /\ s \in SUBSET S /\ s # {}
      /\ ~\E l \in s : s \ {l} \subseteq desk[l].counted
  BY <1>2 DEF Bad
<1>4. PICK x \in s : TRUE
  BY <1>3
<1>5. CASE s \ {x} = {}
  BY <1>3, <1>5
<1>6. CASE s \ {x} # {}
  <2>1. s \ {x} \notin Bad
    BY <1>2
  <2>2. PICK l \in s \ {x} : (s \ {x}) \ {l} \subseteq desk[l].counted
    BY <1>3, <1>6, <2>1 DEF Bad
  <2>3. CASE x \in desk[l].counted
    BY <1>3, <2>2, <2>3
  <2>4. CASE l \in desk[x].counted
    <3>1. x \in Envelopes /\ desk[x].at = "answered"
      BY <1>3 DEF Paid, CapInv, OfferedExist, RowsAnswered
    <3>2. desk[l].counted \subseteq desk[x].counted
      BY <2>4, <3>1 DEF CapInv, Derivations, CountedBefore
    <3>3. s \ {x} \subseteq desk[x].counted
      BY <2>2, <2>4, <3>2
    <3>4. QED
      BY <1>3, <3>3
  <2>5. l \in Paid /\ x \in Paid /\ x # l
    BY <1>3, <2>2
  <2>6. QED
    BY <2>3, <2>4, <2>5
<1>7. QED
  BY <1>5, <1>6

\* Paid one after the other, distributions keep to the cap: the last of them was
\* derived under what the others leave, or pays nothing.
LEMMA SequenceKeepsCap ==
  ASSUME CapInv, \A e, f \in Paid : e # f => e \in desk[f].counted \/ f \in desk[e].counted
  PROVE  CapRespected
<1> SUFFICES ASSUME NEW i \in Investors, ~(PaidBy(Paid, i) <= Cap(Contribution[i]))
             PROVE  FALSE
  BY DEF CapRespected
<1> DEFINE cap == Cap(Contribution[i])
           Bad == {s \in SUBSET Paid : ~(PaidBy(s, i) <= cap)}
<1>1. cap \in Nat
  BY Contributed
<1>2. /\ Paid \in SUBSET Envelopes /\ IsFiniteSet(Paid)
      /\ \A e \in Paid : Exact(e) /\ CountedBefore(e)
  <2>1. Paid \in SUBSET Envelopes /\ \A e \in Paid : desk[e].at = "answered"
    BY DEF Paid, CapInv, OfferedExist, RowsAnswered
  <2>2. QED
    BY <2>1, ConfirmationAssumption, FS_Subset DEF CapInv, Derivations
<1>3. Paid \in Bad /\ Bad \in SUBSET SUBSET Paid
  OBVIOUS
<1> HIDE DEF Bad
<1>4. PICK s \in Bad : \A t \in Bad : t \subseteq s => t = s
  BY <1>2, <1>3, SmallestSet
<1>5. s \in SUBSET Paid /\ ~(PaidBy(s, i) <= cap)
  BY <1>4 DEF Bad
<1>6. s # {}
  <2>1. PaidBy({}, i) = 0
    BY SumOfNone DEF PaidBy
  <2>2. QED
    BY <1>1, <1>5, <2>1
<1>7. PICK l \in s : s \ {l} \subseteq desk[l].counted
  BY <1>5, <1>6, LatestPaid
<1>8. l \in Paid /\ Exact(l) /\ CountedBefore(l)
  BY <1>2, <1>5
<1>9. /\ PaidBy(s, i) \in Nat /\ PaidBy(s \ {l}, i) \in Nat
      /\ PaidBy(s, i) = desk[l].pays[i] + PaidBy(s \ {l}, i)
  <2>1. /\ s \in SUBSET Envelopes /\ s \ {l} \in SUBSET Envelopes
        /\ \A e \in s : desk[e].pays \in [Investors -> Nat]
    BY <1>2, <1>5 DEF Exact, Fits
  <2>2. QED
    BY <2>1, PaidByAll
<1>10. PaidBy(s \ {l}, i) <= cap
  <2>1. s \ {l} \notin Bad
    BY <1>4, <1>7
  <2>2. QED
    BY <1>5, <2>1 DEF Bad
<1>11. /\ PaidBy(desk[l].counted, i) \in Nat
       /\ PaidBy(s \ {l}, i) <= PaidBy(desk[l].counted, i)
  <2>1. /\ desk[l].counted \in SUBSET Envelopes
        /\ \A e \in desk[l].counted : desk[e].pays \in [Investors -> Nat]
    BY <1>8 DEF CountedBefore, Confirmed, CapInv, RowsAnswered, Derivations, Exact, Fits
  <2>2. QED
    BY <1>7, <2>1, PaidByAll
<1>12. /\ desk[l].pays[i] \in Nat
       /\ desk[l].pays[i] <= Remaining(cap, PaidBy(desk[l].counted, i))
  <2>1. RoomAfter(desk[l].counted)[i] = Remaining(cap, PaidBy(desk[l].counted, i))
    BY DEF RoomAfter, Capacities, Investors
  <2>2. QED
    BY <1>8, <2>1 DEF Exact, Fits
<1> HIDE DEF cap
<1>13. QED
  BY <1>1, <1>5, <1>9, <1>10, <1>11, <1>12 DEF Remaining

\* The invariant of the derivations holds throughout.
LEMMA CapHolds == DistSpec => []CapInv
<1>1. DistInit => CapInv
  <2> SUFFICES ASSUME DistInit PROVE CapInv
    OBVIOUS
  <2>1. \A w \in Workers : worker[w].todo = <<>>
    BY DEF DistInit, Init, Idle
  <2>2. RecordsExist
    BY <2>1 DEF RecordsExist
  <2>3. OfferedExist /\ RowsAnswered /\ Derivations
    BY DEF DistInit, Init, OfferedExist, RowsAnswered, Derivations, Absent, NotPrepared
  <2>4. reported \in 0..Len(Obligation)
    BY DistributionAssumption, LenProperties DEF DistInit
  <2>5. QED
    BY <2>2, <2>3, <2>4 DEF CapInv
<1>2. IInv /\ DeskInv /\ CapInv /\ [DistNext]_distVars => CapInv'
  BY CapStays
<1>3. DistSpec => [](IInv /\ DeskInv)
  BY DistIsLoop, Inductive, DeskHolds, PTL
<1>4. QED
  BY <1>1, <1>2, <1>3, PTL DEF DistSpec

\* Whatever is submitted pays exactly what its period makes due, under what the distributions
\* confirmed at its second derivation leave of the caps: to nobody more than his room, in all
\* the obligation or all the room, in the order of the contributions; however old the first
\* derivation was, and whatever the feed reported and the loop confirmed since.
DistributionsExact ==
  \A f \in Envelopes : desk[f].at \in {"matched", "answered"} => Exact(f)

\* The payments of whatever is submitted are exact, for any number of distributions, periods,
\* investors, processes and crashes.
THEOREM SubmittedExact == DistSpec => []DistributionsExact
<1>1. CapInv => DistributionsExact
  BY DEF CapInv, Derivations, DistributionsExact
<1>2. QED
  BY <1>1, CapHolds, PTL

\* Nobody is paid past the cap as long as every paid distribution was derived after the one
\* before it was confirmed (derive's accumulators of the confirmed distributions), for any
\* number of investors, contributions, periods, distributions, processes and crashes, either
\* answer of core, and any rule the code accepts.
THEOREM CapInSequence == DistSpec => []CapHeldInSequence
<1>1. CapInv => CapHeldInSequence
  BY SequenceKeepsCap DEF CapHeldInSequence
<1>2. QED
  BY <1>1, CapHolds, PTL
=============================================================================
