---------------------------- MODULE Confirmation ----------------------------
(***************************************************************************)
(* The confirmation loop: signed envelopes persisted as rows in state      *)
(* "submitted" are offered to Stellar, looked up and concluded by a poll   *)
(* whose whole schedule lives in the database                              *)
(* (confirm-revenue-share-distributions.ts, the loop index.ts starts; the  *)
(* retired confirm-funding-intents.ts is the same code over another        *)
(* table).  One action is one step of the loop between two awaits, so      *)
(* another API process, the ledger, the clock and the death of the process *)
(* come in between any two of them.                                        *)
(*                                                                         *)
(* stellar-core, Horizon and the ledger are external and modelled by what  *)
(* the code assumes of them: an envelope is unknown to core, queued, or in *)
(* a ledger, where it succeeded ("ok") or failed ("bad"); core may drop a  *)
(* queued envelope; no ledger after expiresAt includes it; Horizon may lag *)
(* behind the ledger; any call may go unanswered, an offer also after core *)
(* accepted it.  A persisted envelope always decodes (submission verified  *)
(* it), so submit's invalid_input does not occur.                          *)
(***************************************************************************)
EXTENDS Integers, Sequences, FiniteSets, Functions

CONSTANTS
  Envelopes,       \* the signed envelopes clients may submit
  Workers,         \* the API processes that run the loop
  BatchSize,       \* policy.batchSize
  InitialBackoff,  \* policy.initialBackoffMs, in ticks of the clock
  MaxBackoff,      \* policy.maxBackoffMs
  IncludedAnswer,  \* core's answer to an envelope a ledger already has
  MaxTime,         \* bound: the clock stops here
  MaxCrashes       \* bound: how often a process dies in the middle of a tick

ASSUME ConfirmationAssumption ==
  /\ IsFiniteSet(Envelopes)
  /\ BatchSize \in Nat \ {0}
  /\ InitialBackoff \in Nat \ {0} /\ MaxBackoff \in Nat /\ InitialBackoff <= MaxBackoff
  /\ MaxTime \in Nat /\ MaxCrashes \in Nat
  /\ IncludedAnswer \in {"DUPLICATE", "ERROR"}

VARIABLES
  clock,     \* wall clock and ledger close time, in ticks
  row,       \* the table, one record per envelope
  core,      \* what the network holds of every envelope
  worker,    \* where every process is in its tick
  crashes    \* crashes so far

vars == <<clock, row, core, worker, crashes>>

Terminal == {"confirmed", "failed"}

Absent == [state |-> "absent", why |-> "none", attempts |-> 0, next |-> 0, expires |-> 0]

\* A process between ticks.  During a tick it holds the instant the tick began and
\* the records findPending gave it, the first being the one it advances.
Idle == [pc |-> "idle", now |-> 0, todo |-> <<>>, verdict |-> "none"]

Init ==
  /\ clock = 0
  /\ row = [e \in Envelopes |-> Absent]
  /\ core = [e \in Envelopes |-> "unknown"]
  /\ worker = [w \in Workers |-> Idle]
  /\ crashes = 0

-----------------------------------------------------------------------------
(* The clock, the ledger and the submission endpoint. *)

Tick ==
  /\ clock < MaxTime
  /\ clock' = clock + 1
  /\ UNCHANGED <<row, core, worker, crashes>>

\* A ledger closes with a queued envelope in it.
Include(e, outcome) ==
  /\ core[e] = "queued"
  /\ clock <= row[e].expires
  /\ core' = [core EXCEPT ![e] = outcome]
  /\ UNCHANGED <<clock, row, worker, crashes>>

\* Core's queue forgets an envelope.
Drop(e) ==
  /\ core[e] = "queued"
  /\ core' = [core EXCEPT ![e] = "unknown"]
  /\ UNCHANGED <<clock, row, worker, crashes>>

\* The verified envelope becomes a row, due at once.  Its expiry is the one the
\* client signed, and may have passed by the time the row is written.
Persist(e, expires) ==
  /\ row[e].state = "absent"
  /\ row' = [row EXCEPT ![e] = [state |-> "submitted", why |-> "none", attempts |-> 0,
                                next |-> clock, expires |-> expires]]
  /\ UNCHANGED <<clock, core, worker, crashes>>

-----------------------------------------------------------------------------
(* One tick of the loop. *)

Minimum(a, b) == IF a <= b THEN a ELSE b

\* InitialBackoff doubled with every attempt after the first, up to MaxBackoff.
Backoff(attempts) ==
  Minimum(InitialBackoff * 2 ^ (IF attempts > 1 THEN attempts - 1 ELSE 0), MaxBackoff)

\* A slip: a row that was tried once is not looked for again.
DueUntried(t) ==
  {e \in Envelopes : row[e].state = "submitted" /\ row[e].next <= t /\ row[e].attempts = 0}

Due(t) == {e \in Envelopes : row[e].state = "submitted" /\ row[e].next <= t}

\* findPending: the BatchSize rows that have been due longest, in that order.
FoundPending(t) ==
  {q \in [1..Minimum(BatchSize, Cardinality(Due(t))) -> Due(t)] :
     /\ IsInjective(q)
     /\ \A i, j \in DOMAIN q : i < j => row[q[i]].next <= row[q[j]].next
     /\ \A e \in Due(t) \ Range(q), i \in DOMAIN q : row[q[i]].next <= row[e].next}

\* A tick that finds nothing pending, or no database, leaves no trace.
StartTick(w) ==
  /\ worker[w].pc = "idle"
  /\ Due(clock) # {}
  /\ \E q \in FoundPending(clock) :
       worker' = [worker EXCEPT ![w] =
         [Idle EXCEPT !.pc = "take", !.now = clock,
                      !.todo = [i \in DOMAIN q |-> [env |-> q[i], attempts |-> row[q[i]].attempts]]]]
  /\ UNCHANGED <<clock, row, core, crashes>>

Current(w) == Head(worker[w].todo).env

Decide(w, verdict) ==
  worker' = [worker EXCEPT ![w].pc = "write", ![w].verdict = verdict]

\* advance begins: an expired envelope is concluded without asking the network.
Take(w) ==
  /\ worker[w].pc = "take"
  /\ IF worker[w].now >= row[Current(w)].expires
     THEN Decide(w, "expired")
     ELSE worker' = [worker EXCEPT ![w].pc = "offer"]
  /\ UNCHANGED <<clock, row, core, crashes>>

CoreMayTake(e) == core[e] = "unknown" /\ clock <= row[e].expires

\* PENDING, or DUPLICATE for an envelope core already has.
OfferAccepted(w) ==
  /\ worker[w].pc = "offer"
  /\ LET e == Current(w) IN
       \/ CoreMayTake(e) /\ core' = [core EXCEPT ![e] = "queued"]
       \/ core[e] = "queued" /\ UNCHANGED core
       \/ core[e] \in {"ok", "bad"} /\ IncludedAnswer = "DUPLICATE" /\ UNCHANGED core
  /\ worker' = [worker EXCEPT ![w].pc = "lookup"]
  /\ UNCHANGED <<clock, row, crashes>>

\* A slip: DUPLICATE classified as a refusal.
OfferDuplicateRejected(w) ==
  /\ worker[w].pc = "offer"
  /\ Decide(w, "unsuccessful")
  /\ UNCHANGED <<clock, row, core, crashes>>

\* ERROR, or a TransactionFailedError: core refuses an envelope it does not hold.  ERROR is
\* "unsuccessful", as is a code without a name of its own; tx_too_late is "expired"; the
\* other named codes stand under "unsuccessful" as well.
OfferRejected(w) ==
  /\ worker[w].pc = "offer"
  /\ \/ core[Current(w)] = "unknown"
     \/ core[Current(w)] \in {"ok", "bad"} /\ IncludedAnswer = "ERROR"
  /\ \/ Decide(w, "unsuccessful")
     \/ clock > row[Current(w)].expires /\ Decide(w, "expired")
  /\ UNCHANGED <<clock, row, core, crashes>>

\* TRY_AGAIN_LATER, an unknown status, or an answer that never arrives.
OfferUnanswered(w) ==
  /\ worker[w].pc = "offer"
  /\ \/ UNCHANGED core
     \/ CoreMayTake(Current(w)) /\ core' = [core EXCEPT ![Current(w)] = "queued"]
  /\ Decide(w, "deferred")
  /\ UNCHANGED <<clock, row, crashes>>

\* A slip: any record Horizon has counts as a success.
LookUpAnyRecord(w) ==
  /\ worker[w].pc = "lookup"
  /\ \/ core[Current(w)] \in {"ok", "bad"} /\ Decide(w, "confirmed")
     \/ Decide(w, "deferred")
  /\ UNCHANGED <<clock, row, core, crashes>>

\* findTransaction: what Horizon has ingested, or no answer.  A transaction that failed in its
\* ledger is "unsuccessful" too: the row does not say whether core or a ledger refused it.
LookUp(w) ==
  /\ worker[w].pc = "lookup"
  /\ \/ core[Current(w)] = "ok" /\ Decide(w, "confirmed")
     \/ core[Current(w)] = "bad" /\ Decide(w, "unsuccessful")
     \/ Decide(w, "deferred")
  /\ UNCHANGED <<clock, row, core, crashes>>

\* A slip: an update of the row whatever state it is in.
TransitionAlways(e, new) == row' = [row EXCEPT ![e] = new]

\* The conditional update, WHERE state = 'submitted'.
Transition(e, new) ==
  row' = IF row[e].state = "submitted" THEN [row EXCEPT ![e] = new] ELSE row

\* A slip: the count starts again once the delay has been at its longest.
CountedAround(attempts) == IF Backoff(attempts + 1) = MaxBackoff THEN 0 ELSE attempts + 1

\* Attempts are read only by Backoff, which has long been constant by MaxBackoff.
Counted(attempts) == Minimum(attempts + 1, MaxBackoff + 1)

Concluded(e, verdict) ==
  IF verdict = "confirmed" THEN [row[e] EXCEPT !.state = "confirmed"]
  ELSE [row[e] EXCEPT !.state = "failed", !.why = verdict]

Deferred(w, e) ==
  LET attempts == Counted(Head(worker[w].todo).attempts) IN
    [row[e] EXCEPT !.attempts = attempts, !.next = worker[w].now + Backoff(attempts)]

\* On to the next record of the batch, or to the end of the tick.
NextRecord(w) == worker' = [worker EXCEPT ![w] =
  IF Len(worker[w].todo) = 1 THEN Idle
  ELSE [Idle EXCEPT !.pc = "take", !.now = worker[w].now, !.todo = Tail(worker[w].todo)]]

\* conclude or defer, whose write lands.
Write(w) ==
  /\ worker[w].pc = "write"
  /\ Transition(Current(w), IF worker[w].verdict = "deferred" THEN Deferred(w, Current(w))
                            ELSE Concluded(Current(w), worker[w].verdict))
  /\ NextRecord(w)
  /\ UNCHANGED <<clock, core, crashes>>

\* The write fails: the row stays as it was, and due.
WriteFails(w) ==
  /\ worker[w].pc = "write"
  /\ NextRecord(w)
  /\ UNCHANGED <<clock, row, core, crashes>>

\* The process dies and comes back: everything it held is lost.
Crash(w) ==
  /\ crashes < MaxCrashes
  /\ worker[w] # Idle
  /\ worker' = [worker EXCEPT ![w] = Idle]
  /\ crashes' = crashes + 1
  /\ UNCHANGED <<clock, row, core>>

-----------------------------------------------------------------------------
Step(w) == Take(w) \/ OfferAccepted(w) \/ OfferRejected(w) \/ OfferUnanswered(w) \/ LookUp(w)

LedgerNext == \E e \in Envelopes : Include(e, "ok") \/ Include(e, "bad") \/ Drop(e)

LoopNext ==
  \E w \in Workers : StartTick(w) \/ Step(w) \/ Write(w) \/ WriteFails(w) \/ Crash(w)

\* Bound: an envelope expires early enough for the clock to pass its last retry.
Expiries == {t \in 0..MaxTime : t + MaxBackoff <= MaxTime}

SubmitNext == \E e \in Envelopes, expires \in Expiries : Persist(e, expires)

Next == Tick \/ SubmitNext \/ LedgerNext \/ LoopNext

Spec == Init /\ [][Next]_vars

\* The clock runs, a process that is up runs its loop, and a database that keeps
\* being asked takes the write at last.  Nothing is assumed of the network.
Fairness ==
  /\ WF_vars(Tick)
  /\ \A w \in Workers :
       /\ WF_vars(StartTick(w))
       /\ WF_vars(Step(w))
       /\ WF_vars(Write(w) \/ WriteFails(w))
       /\ SF_vars(Write(w))

FairSpec == Spec /\ Fairness

-----------------------------------------------------------------------------
(* What the loop promises. *)

Rows ==
  [state : {"absent", "submitted"} \cup Terminal,
   why : {"none", "expired", "unsuccessful"},
   attempts : 0..(MaxBackoff + 1), next : Nat, expires : Nat]

Ticks ==
  [pc : {"idle", "take", "offer", "lookup", "write"}, now : Nat,
   todo : Seq([env : Envelopes, attempts : 0..(MaxBackoff + 1)]),
   verdict : {"none", "expired", "deferred", "confirmed", "unsuccessful"}]

\* The type of the state; a process that is in a tick has a record in hand.
TypeOK ==
  /\ clock \in Nat /\ crashes \in Nat
  /\ row \in [Envelopes -> Rows]
  /\ core \in [Envelopes -> {"unknown", "queued", "ok", "bad"}]
  /\ worker \in [Workers -> Ticks]
  /\ \A w \in Workers : worker[w].pc # "idle" => worker[w].todo # <<>>

\* A row says "confirmed" only of a payment the ledger holds, whatever process wrote
\* it and however stale the record was that it worked from (recordConfirmation's "can
\* never be written without the evidence it claims").
EvidenceBacked == \A e \in Envelopes : row[e].state = "confirmed" => core[e] = "ok"

\* A conclusion is never rewritten: a process that comes late to a row another one
\* concluded, with a verdict or a deferral of its own, changes nothing
\* (transition's "non-application instead of a double-apply").
TerminalIsFinal ==
  [][\A e \in Envelopes : row[e].state \in Terminal => row'[e] = row[e]]_vars

\* An envelope whose row was concluded as unsuccessful, whether core refused it or a
\* ledger failed it, never succeeds in a ledger later (advance's "Core refused it, so it
\* will never reach a ledger").  It takes one process: another may have offered the
\* same envelope before the row was concluded.
RejectionIsFinal == \A e \in Envelopes : row[e].why = "unsuccessful" => core[e] # "ok"

\* An attempt that decides nothing moves the schedule forward: neither the count nor
\* the next attempt of a waiting row ever goes back (defer).
ScheduleMovesForward ==
  [][\A e \in Envelopes :
       row[e].state = "submitted" =>
         row'[e].attempts >= row[e].attempts /\ row'[e].next >= row[e].next]_vars

\* A failed row's money never moved: what derive-revenue-share-distribution.ts and
\* the period index count on ("`failed` never will").
FailedNeverMovedMoney == \A e \in Envelopes : row[e].state = "failed" => core[e] # "ok"

\* Every submitted row reaches a conclusion, also when the network never answers,
\* the process dies in the middle or a batch is full of other rows.
EveryRowIsConcluded ==
  \A e \in Envelopes : row[e].state = "submitted" ~> row[e].state \in Terminal
=============================================================================
