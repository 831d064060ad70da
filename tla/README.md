# Vaqcrow in TLA+

Vaqcrow funds small companies: investors pay into a campaign's vault contract on
Stellar, a campaign that reaches its goal pays the company (the *SME*), and the SME
then shares its revenue with the investors, period after period, until each has been
paid one and a half times what they put in. This directory models the parts of the
repository that move money, checks them with TLC and proves what matters most in them with TLAPS.

## The system

| part | state it keeps | operations | talks to |
|---|---|---|---|
| campaign vault (`contracts/campaign-vault/src/lib.rs`) | state, total, entries and index of contributors, in contract storage | `contribute`, `withdraw`, `refund`, `sweep` | the token contract, the ledger's clock |
| campaign factory (`contracts/campaign-factory`) | one address per salt | `deploy`, `predict` | the vault's constructor |
| campaign deployment (`deploy-approved-campaign.ts`, `open-campaign.ts`) | one row per application: pending, deploying, failed, confirmed | an attempt, a stale reclaim, opening directly | factory, chain reads, mirror, exchange rates, wallet keys |
| contributions desk (`campaign.route.ts`) | one row per invocation | prepare, submit | chain reads, the investor's wallet, the vault |
| campaign mirror (`reconcile-campaign.ts`, `supabase-campaign-repository.ts`) | a copy of vault and contributions | reconcile, on every look at a campaign or a portfolio | chain reads |
| revenue-share allocation (`packages/domain/src/revenue-share.ts`) | none: pure | `allocateCappedRevenueShare` | called by the derivation |
| revenue-share distribution (`derive-`, `prepare-`, `submit-revenue-share-distribution.ts`) | one row per signed envelope | prepare, submit | sales feed, mirror, ledger |
| confirmation loop (`confirm-revenue-share-distributions.ts`) | the same rows | one tick | Horizon, stellar-core |
| confirmation scheduler (`confirmation-scheduler.ts`) | a timer and the tick in flight | `start`, `stop` | the loop |
| application review (`application-review.ts`, `record-human-decision.ts`, `route-application-assessment.ts`) | the state of an application | submit, assess, decide | model provider, deployment, notifications |
| notifications, assistant, wallets, read models, web | rows of their own | | |

What is hard in it: the ledger and the database are two sources of truth that no
transaction joins. A payment is signed by the SME, handed to a network that may lose it,
delay it or execute it after everybody stopped listening, and the rows follow by
polling; any process may die between two writes; two processes run while a deployment
replaces another; and the caps and indexes that keep the money right are computed from
the rows. In the contract it is the order of other people's transactions.

What makes each part correct: the vault keeps each investor's money to that investor or
pays all of it to the SME; the loop says of a row only what the ledger shows, and says it
at last; the allocation pays all there is and nobody past the cap; the distribution pays
each period once and nobody past the cap over all periods; the scheduler runs one loop;
the deployment opens one vault per application and finds it again after a crash; the
mirror never goes back in time; an application is decided once.

## Modules

    Escrow                      what a campaign's money may do
    CampaignVault               the contract, which implements Escrow
      CampaignMirror            extends CampaignVault: the database's copy of it
      ContributionDesk          extends CampaignVault: contributions through the platform
        CampaignProofs          theorems about the three
    Allocation                  the arithmetic of the capped allocation
      AllocationProofs          what a pass and the whole of it compute
      RevenueShare              an agreement over its life, pass by pass
        RevenueShareProofs      theorems about it
    Confirmation                the loop, its rows, the network
      Distribution              extends Confirmation and Allocation: periods, requests, index
        DistributionProofs      theorems about both
    CampaignDeployment          an approved application gets its vault
      CampaignDeploymentProofs  theorems about it
    ReviewLifecycle             the domain's transition table
    ApplicationReview           from submission to decision, which implements it
      ApplicationReviewProofs   theorems about it
    ConfirmationScheduler       the timer that drives the loop
      ConfirmationSchedulerProofs   theorems about it
    SumLemmas                   sums over finite sets, for the proofs about money

`MC*` modules give the constants their values for TLC. Definitions named in a comment as
a *slip* are mistakes one could have made in the code (a dropped check, a swapped order).
No specification uses them: each is there to be put in the place of the definition below
it, where the property it is aimed at must then fail.

**CampaignVault.** An invocation is atomic, so every entry point is one action enabled
exactly when the invocation succeeds; `contribute` is two, below and at the goal, since
the second pays the SME in the same transaction. `balance` and `closed` are the token
and the accounts: a transfer fails, and everything with it, if the payer lacks the money
or one of the accounts does not exist. `contribution` is 0 where storage has no entry, as
`contribution_of` reads it. `Sweep` takes whole batches, duplicates included. `Refund`
has no caller, because the contract does not ask who calls.

**Confirmation.** One row per envelope: state, attempts, next attempt, expiry, and `why`
it failed. A process (`worker`) takes the rows that are due into `todo`, a snapshot, and
advances them one by one: `Take` (expired?), `Offer...` (`submit`), `LookUp`
(`findTransaction`), `Write` (`conclude` or `defer`), each separated from the next by an
await, so everything else can happen between them. The writes are conditional on the row
still being `submitted`, as in `transition`. `core` is what the network holds of an
envelope. `IncludedAnswer` is what core says of an envelope that a ledger already has;
the code assumes `DUPLICATE`. `why` is the row's `failure_reason`, with the code's labels as
far as a property tells them apart: `unsuccessful` is written both for core's `ERROR` (and a
result code without a name) and for an envelope that failed in a ledger, so nobody can tell
the two from the row; `expired` is written by the clock, or for core's `tx_too_late`. The
other named refusals of core (`tx_bad_seq` and so on) stand under `unsuccessful`. A row whose
envelope does not decode (`invalid_input`) does not occur, since its submission verified it.

**ConfirmationScheduler.** A method runs up to its first await without interruption and
is one action. `Fire` is the timeout, `End` the `finally` of `run`; `stop` is two actions,
the call and its return once the tick it found in flight has ended. A timer that has
fired stays in `this.timer`, as in the code.

**Allocation, RevenueShare.** `Shares` is the largest-remainder split of one pass,
`Truncated` the cut at the cap, `Allocate` the whole of `allocateCappedRevenueShare`.
RevenueShare takes the `while` loop one pass at a time and pays every run before the
next, with contributions chosen at the start.

**Distribution.** `desk` follows every distribution through prepare (derive, look for the
period's distribution, read the account and sign) and submit (derive again and compare,
insert). `Taken` is the partial unique index of the period migration. A row, once
inserted, belongs to Confirmation's actions, and `ImplementsConfirmation` says that what
Distribution does to rows, core and workers is a behaviour of Confirmation. Ledgers take
the SME's envelopes in the order of their sequence numbers.

**CampaignMirror.** `request` is a request that looks at the campaign: it reads state and
total (and the contribution of the investor it names) by separate simulations, between
which the vault takes any step of CampaignVault; then `FindRow` reads the campaign row and
decides the status, `UpdateRow` writes it under the condition of `reconcile`, and one of
`Delete...`, `Insert...`, `OverwriteContribution` follows. `Storable` is the table's check
constraint; what it refuses writes nothing. `observed` is the API's clock at the request's
start, and the instants are few enough for two requests to carry the same one. `Looks`
says which request names whom. `settledAt` is a ghost for one property. A clock on which
readings go backwards, and a request that names several investors, are not in the code.

**ContributionDesk.** `Prepare` is the route that checks remainder and limit against the
vault as it is read and builds the envelope, `Record` the route that takes the signed
envelope, `Land` the ledger. Nobody here calls the contract past the platform, so what
goes wrong goes wrong in spite of the platform's checks.

**CampaignDeployment.** One application. A request runs an attempt: `Check`,
`MarkPending`, `ReadRow`, `Claim` are the four calls that take the row, `Resolve` the
terms, `FindCampaign` to `Create` are `openCampaign`, and `Confirm`, `Publish` or
`MarkFailed` end it. `terms` is what resolving them finds: the SME's key, the goal at the
current rate, and either a duration, which counts from the whole second in which the attempt
began, or a deadline that was persisted before there were durations and may have
milliseconds. An attempt fails without a key, without a usable rate or within the limit, or
without both duration and deadline (`TermsComplete`). Before a deploy the goal is held
against the limit again (`CheckLimit`); the vault that is read back must be funding and have
the goal, the key and the deadline that were asked for, the deadline not where a vault that
was found is adopted under a duration (`Matches`, `AcceptsDeadline`). The ledger has whole
seconds only (`VaultOf`). `Open` runs `openCampaign` with the caller's terms and no row, as
`POST /campaigns` does. The correlation id is the request that owns the row together with
the attempt's number; `updated_at` is reduced to what the code asks of it: whether ten
minutes passed since the last write (`aged`), and which attempt was found stale
(`stale`). `flying` holds the deploy transactions sent, `Land` and `Refuse` are the
factory, which takes the first transaction whose deadline is still to come when it lands, as
the vault's constructor demands. Faults: the process dies, a call fails, the answer to the
mirror's insert is lost, a transaction expires, an attempt outlives its ten minutes. Meanwhile the rate may
change or become unusable, the SME may connect another wallet (`isFrozen`, then the write),
the clock may tick (`Tick`) and investors may find the vault and end its funding
(`EndFunding`).

**ApplicationReview, ReviewLifecycle.** One application. `request` is a call of
`routeApplicationAssessment`: it looks for a stored assessment, derives the evidence, asks
the model, and records or hands off. `sales` says whether the feed has a series for the
applicant's reference, which never changes: the feed appends only to series it has. Without
one `DeriveEvidence` ends every request in `sales_evidence_missing` and the application stays
in `awaiting_assessment`, as the comment at `route-application-assessment.ts:31-34` says.
`Record`, `HandOff` and `Decide` are the three SQL functions, each a transaction that locks the application's row, `Move` is the conditional
update that locks nothing. `told` collects the successful answers, so that a property can
hold them against what happens later. `following` is the part of `recordHumanDecision`
after the transaction, which a death loses. ReviewLifecycle is the transition table of the
domain package, which no writer calls; ApplicationReview implements it all the same.
Applications begin with their submission: rows that an operator inserts in a later state are
outside.

## What the runs check

| run | what it asks | bounds |
|---|---|---|
| `vault` | types; no window at the goal; nobody's money redirected; solvency; enough backers; a complete index; an exit that is always open; the documented state machine; Escrow implemented; everyone refunded | 3 investors with 4, 2 and 1 units, goal 4, cap 2, amounts -1..3, deadline 2 of 3 ticks, all batches of up to 2 addresses and one too long, one investor and the SME may close their accounts |
| `confirm_one` | what is concluded as unsuccessful never succeeds; the schedule moves forward; every row is concluded | 1 process, 2 envelopes, batch 1, back-off 1 then 2, 4 ticks, 1 crash |
| `confirm_two` | evidence behind every confirmation; conclusions are final | 2 processes, 2 envelopes, batch 2, 2 ticks |
| `share` | the cap; nothing lost; more in is no less out; runs end | 3 contributors of 1 to 4 units, cap 3/2, obligations 0 to 7, any number of runs |
| `scheduler` | one loop; stop waits; the loop goes on | 3 callers, 4 identifiers |
| `distribution` | a period is paid once; the cap between confirmed distributions; Confirmation implemented | 2 investors with caps 3 and 1, 2 periods that make 3 due, 2 envelopes, 1 process, 3 ticks |
| `mirror` | types; a row that says the campaign ended is exact; amounts observed after the end are final; changes of state are marked; the row settles | 1 investor, goal and cap 2, 2 requests of which one names the investor, clock 0..1, deadline 1 |
| `deployment` | types; what is published is deployed; the outcome is its owner's; the campaign opens unless every retry is refused | 2 requests, 6 attempts, 2 faults, 1 change (of the terms, a tick, a direct opening or the end of the funding), 2 keys, 2 goals, terms with a duration of 2, a deadline at 1 or one some milliseconds after it |
| `review` | types; the reviewer has material; one decision stands; answers are true; the transition table implemented; a waiting application with a sales series reaches a human | with and without a series, 3 requests, two under the submission's key and one under its own, 2 decision ids, 3 faults |
| `confirm_failed`, `dist_cap`, `overfunding` | one property each that the code does not have, below | as small as shows it |

Why these are enough. In the vault the interesting numbers are around the cap and the
goal: with a cap of half the goal it takes two investors at the cap or three below it to
settle, amounts exceed cap and balance, and one investor cannot afford its cap. The cap
divisor is 2 and the batch limit 2 where the contract has 10 and 20; both are constants
of the proofs. In the loop a third envelope or process adds nothing a second one does
not: rows meet in a batch, processes on a row. The clock has room for a submission, an
expiry and the last retry after it (`Expiries`). In `share` the pool is small enough for
every pass count up to the bound of three to occur, with truncation in the first pass
and in later ones, and every agreement runs to its end. In `distribution` both rows can
be confirmed, both can be for one period, and the caps (3 and 1) bind in the second. In
`mirror` a property relates one row, one vault and at most two requests that cross, so a
third request repeats one of them; the investor can contribute twice, withdraw, settle
and be refunded, within the two instants that tell older from newer observations. In
`deployment` two requests are an attempt and the one that supersedes it, and the six
attempts leave room for both faults, the change and a retry that succeeds: with five, two
faults and a moved rate can use them up. One tick of the clock passes the
persisted deadlines, also while a deploy is on its way, and moves the one a duration gives,
so that what is adopted has another deadline than the one asked for. In `review` the
two keys give replays and conflicts, and three requests let one replay a key while a third
decides otherwise.
Where a run says `CHECK_DEADLOCK FALSE` the system does stop: the clock ends at its
bound and nothing is left to do. Permutations of envelopes, processes, callers and
identifiers are symmetries where no liveness is checked.

Fairness. `vault`: ledgers close, and somebody asks for every refund, which anyone may
do. `confirm_one`: the clock runs, a process that is up takes its steps, and a database
that is asked again and again lets a write land eventually (strong fairness, since each
attempt may fail); nothing is assumed of the network, and conclusions then come from the
expiry. `share`: a loop that has begun runs on. `scheduler`: timers fire and ticks end;
the second is an assumption, since the Horizon calls have no timeout of the program's
own, and a call that never settles stops the loop for good. `mirror`: requests that have begun
go on, and somebody looks at the campaign again, which every page of it does.
`deployment`: attempts go on, an admin retries as long as the row is not confirmed, ledgers
close, and time passes for an attempt that died. `review`: a caller whose request died
repeats it under the same key; the submission's own key is the application's id, so an
admin can. Nothing is assumed of the model, which may fail every time.

## Where the code differs from what it says

* `confirm_failed`. `advance` gives a row up as expired by the clock alone. The envelope
  may be in a ledger: offered by an earlier attempt, included in time, not yet shown by
  Horizon when that attempt looked. The row then says `failed` of a payment that
  happened. The index frees the period, so the same period can be paid again
  (`PaidOnceUnlessExpired` excepts exactly these, and `OnlyExpiredMoved` proves that with one
  process there are no others), and the accumulators never count it.
* `dist_cap`. The accumulators count confirmed rows. Between the ledger and the row's
  confirmation a next period can be derived and signed as if nothing had been paid, and
  an investor ends up past the cap. `CapHeldInSequence` shows that this window is the
  only way, as long as every distribution is derived after the one before is confirmed.
* `overfunding`. The table's constraint is said to replicate a limit of the contract that
  the contract does not have: the contribution that crosses the goal is taken whole, as
  the contract's own test expects. The platform's guardrail compares with the remainder
  when the envelope is built, so two investors can prepare against the same one. The row
  of a campaign settled above its goal then refuses every reconciliation, and no
  distribution can be derived for it. (The guides say that the limit is the platform's and
  that whoever signs directly against the vault may exceed it; the run needs nobody to.)

Met on the way and not a run of their own:

* `start` while a `stop` still waits for its tick yields two loops. `index.ts` starts once
  and stops once, and `OneLoop` is stated for such callers: with `RestartWhileStopping =
  TRUE` it fails.
* A vault is adopted only with the goal recomputed at the current rate and the current key.
  After either moved, every retry is refused, although the comment on `rates` in
  `open-campaign.ts` wants adoption not to depend on a rate. The same goes for a vault that
  investors found and filled, or began to refund, before the mirror had it
  (`state === "funding"`); for a deadline from before durations that has milliseconds, since
  the ledger has none and the read-back compares exactly; and for such a deadline once it has
  passed without a vault, which the constructor refuses. `RetryRefused` is the disjunction of
  these cases and of incomplete terms, and `CampaignOpens` says that nothing else keeps the
  campaign from opening.
* Without a sales series an application waits for good: every request ends in
  `sales_evidence_missing` and none hands off to a human. The comment on
  `routeApplicationAssessment` says so; `ReachesReviewer` is stated for applicants with a
  series, and `ReviewerHasMaterial` says that without one nothing gets past the wait.
* The contributions are held complete when their sum is the campaign's total, "otherwise
  the split would silently shortchange an investor nobody reconciled"
  (`derive-revenue-share-distribution.ts:62`). A row left behind by somebody who withdrew
  can make up for an amount that is missing: with two investors and a goal of 2 the mirror
  reaches a settled row whose contributions add up and are wrong, and a split by them
  pays an account that holds nothing. `TestFindsEveryone` says when the test is sound: if every
  row it adds up was observed after the settlement.
* "A delayed RPC response must never overwrite a newer chain observation"
  (`supabase-campaign-repository.ts:125`). The stamps are those of the requests' starts, so
  a request that starts later, or in the same instant, and reads earlier does overwrite
  one: a settled row goes back to open, marked as diverged, until somebody looks again.
  `ConclusionsAreExact`, `StateChangesAreMarked` and `MirrorSettles` hold all the same.
* A replayed decision has no follow-up: a death after the decision leaves an approved
  application for somebody to deploy by hand. Likewise a hand-off whose process died
  before the move is completed only under its own key.

`RejectionIsFinal` is checked for one process: with two, one may be refused while the
other's offer is taken, and the row says `unsuccessful` of a payment that happens. With
`IncludedAnswer = "ERROR"` it fails for one process too.

## What is proved

Every theorem is about all values of the constants that satisfy the module's assumptions.
Of the properties the runs check, only the liveness properties and the ENABLED form of one
invariant have no theorem (below).

**Sums and counting (SumLemmas).** What is owed, paid and left are sums over sets of
investors or distributions, computed by the library's `SumFunctionOnSet`, a fold. The
library's induction theorems take an operator, which the provers here cannot instantiate, so
the lemmas state induction with a *set* in the place of the predicate (`SetInduction`,
`CountUp`), which rests on the library's theorem that the subsets of a finite set are well
founded under inclusion. From it follow what the fold computes when an element joins, leaves
or changes its value, and that sums are ordered as their terms are. The recursive function
inside `Allocate` is treated in the same way: it exists, and holds what it should after every
turn, by counting up.

**The vault (CampaignProofs).** For every finite set of investors, goal, deadline, cap
divisor, batch limit, balances, amounts and batches that satisfy `VaultAssumption` (the
constructor's two checks and the shape of the inputs):

* `TypeCorrect`: `[]TypeOK`; nothing ever goes negative;
* `NoWindow`: `[]NoWindowAtGoal`;
* `OwnMoneyOnly`: `[]NobodyRedirects`;
* `StateMachine`: `LegalTransitions`;
* `IndexNamesEveryone`: `[]IndexComplete`;
* `Solvency`: `[]Solvent`;
* `Backers`: `[]EnoughBackers`;
* `ExitGuardsHold`: whoever has an entry in a vault that is not settled, and an open account,
  meets the guard of `withdraw` or of `refund`;
* `Implementation`: `Escrow`'s specification under the refinement mapping of `E`;
* `RefundsDrain`: after a missed deadline money only goes back. The vault never settles and
  stays refundable, an entry stays or is paid out in full to its own investor, nobody becomes
  owed anew, and a refund or sweep that gets through owes nobody it names any more. It is the
  safety half of `EveryoneIsRefunded`: with somebody who calls, the set of the owed empties.

None of the invariants is inductive by itself: that the types are kept
needs to know that the vault can pay the SME what it records, and its balance is not part
of any of them while the campaign is open; the window at the goal needs the total to be a
number; the mapping to Escrow needs all of them. The induction is over

    IInv == TypeOK /\ NoWindowAtGoal /\ NobodyRedirects /\ VaultHoldsTotal

where `VaultHoldsTotal` says that while the campaign is open the vault's balance is the
recorded total. One lemma per action shows that it preserves `IInv`; from `IInv` follow
that every step is a legal one and that it is a step or a stutter of Escrow. The index is
complete by induction on its own: an address with an entry is in it, so one that is not has
nothing recorded and is appended. `Solvent` is inductive beside `IInv`; the step that takes
work is `Sweep`, which pays a set of investors in one step: `OwedAfterSome` splits the sum
at the batch, duplicates in it counting once. `EnoughBackers` needs `EntriesWithinCap` (no
entry passes the cap) up to the settlement: fewer entries than the divisor, each of at most
the cap, then add up to less than the goal.

**The mirror (CampaignProofs).** For any investors, requests and clock and for every vault
of the same assumption: `MirrorTypeCorrect`, `EndsAreExact`, `FinalAmounts` and
`ChangesAreMarked`. The induction runs over the vault's `IInv` (the theorems about the vault
are used, not repeated), the mirror's shape, and a predicate `Faithful`
of each request: an end that it has seen is the vault's, and so is a total that it read
after that (`SawTheEnd`); what it is about to write has been read, and compared with the
row (`Ready`); and an amount it read with a stamp later than the settlement is the vault's
(`ReadAfterTheEnd`). The first and the last rest on the vault being frozen once it has
settled, and the first on the state being read before the total: `First` the other way
round breaks it.

Three theorems say what a reader of the mirror may conclude:

* `MirrorIsTheVaults`: under the mirror's requests the vault still behaves as it may;
* `TestFindsEveryone`: contributions that add up to the settled campaign's total are
  everybody's, with the vault's amounts, if all the rows that were added up were observed
  after the settlement. Such rows are the vault's (`ObservedAfterTheEndIsFinal`), the
  others are missing, so the rows are nowhere above the vault's entries; those add up to the
  same total (`Solvent`), and `SameSum` leaves no room for one below. Without the condition
  the test is not sound (see above);
* `RowSettlesForGood`: once the requests that read before the settlement are through
  (`Over`), the first update that is stored shows the settlement with its total, and none
  ever takes it away. It is the safety half of `MirrorSettles`.

**The desk (CampaignProofs).** `DeskIsTheVaults`: a campaign whose contributions all come
through the platform behaves as the vault may, so everything proved of the vault holds of it.
`OneEnvelopeFits` is the other half of the finding of `overfunding`: as long as at most one
envelope is out (`OneAtATime`, assumed of the behaviour) the check of the remainder is enough
and `VaultFitsMirror` holds always, so the overshoot takes two envelopes checked against the
same remainder. The invariant is `EnvelopeFits`: what is in somebody's hands still fits below
the goal, since meanwhile the total can only go down.

**The loop (DistributionProofs).** For any number of envelopes, processes and crashes, any
batch size, back-off and clock (`ConfirmationAssumption`):

* `TypeCorrect`: `[]TypeOK`;
* `EvidenceHolds`: `[]EvidenceBacked`. The induction carries the shape of the state, that a
  confirmation waiting to be written has the ledger behind it (`VerdictBacked`: between the
  look at Horizon and the write other processes and ledgers move, but what a ledger holds
  stays), and that a row has a reason only if it failed. Nothing of the kind holds of
  `unsuccessful`, which may be a refusal of core's that another process's offer outlived;
* `ConclusionsStand`: `TerminalIsFinal`, because only a conditional write changes a row that
  exists;
* `ScheduleStands`: `ScheduleMovesForward`, for one process. What makes it inductive is
  `Waiting`: the records in hand are different rows that all still wait, as often tried as
  the record says and due when the tick began; a deferral then counts one more and lies
  behind that instant. With two processes the later write may count from an older record;
* `RejectionStands`: `[]RejectionIsFinal` for one process and `IncludedAnswer =
  "DUPLICATE"`. `Sole` adds to `Waiting` that what core refused, or a ledger failed, a
  moment ago is still unknown to core or failed when the row is written (`Lost`), so no
  envelope whose row says `unsuccessful` is ever offered again or succeeds. A second process,
  with the same envelope in hand, breaks both;
* `OnlyExpiredMoved`: under the same conditions a row that failed although its money moved
  was given up as expired. It is what is left of the claim that `confirm_failed` refutes;
* `TicksEnd`: every step of a process in its tick leaves it fewer (`StepsLeft`), four for each
  row of the batch at most;
* `PutOffInTimeHolds`: a row that waits is never put off by more than `MaxBackoff` from now,
  nor to `MaxBackoff` past its expiry. A tick began in the past (`TickInTime`), and defers
  only what had not expired when it began;
* `ExpiredAreConcluded`: a write that lands in a tick that began at or after the row's expiry
  leaves the row concluded. The last three hold for any number of processes; together they
  are the safety half of `EveryRowIsConcluded`: ticks end, each row comes due again, and in a
  tick that began past its expiry the first write that lands ends it.

The back-off is a power, which the integers define by recursion; that `2 ^ k` is a natural
number (`BackoffIsNat`) is taken from the library's count of the subsets of a set of `k`.

**The distribution (DistributionProofs).** Of `DistSpec`:

* `LoopImplemented`: `ImplementsConfirmation`. What is submitted was signed with an expiry
  that a prepared envelope can have (`DeskInv`), so every step of a request, the feed, the
  ledgers or the clock is a step of the loop or none, and the theorems above hold of the
  distributions' rows;
* `PaidTwiceOnlyOverAGivenUpRow`: for any number of processes and crashes and either answer of
  core, of two payments of one period the row of one says `failed`.
  Rows that may still pay have different periods, and a row that exists keeps the period it
  was inserted under (`PeriodInv`: between the look and the insert other requests move, but
  the index asks again); and core holds nothing that no row stands for (`OfferedExist`);
* `PeriodsPaidOnce`: `[]PaidOnceUnlessExpired`, under the conditions of `RejectionStands`: a
  row that failed has a reason (`Accounted`), and `OnlyExpiredMoved` leaves only the expiry;
* `SubmittedExact`: what is submitted pays whole amounts, nobody past the room that the
  distributions counted then leave of the cap, in all the obligation or all that room, and
  in the order of the contributions (`Exact`). The first derivation may be as old as it
  likes, since the second one has to agree with it;
* `CapInSequence`: `[]CapHeldInSequence`, for any number of processes and crashes and either
  answer of core. `CapInv` says of every distribution that was derived for good that it pays
  nobody more than the distributions it counted leave of the cap (`Exact`), and that what it
  counted was confirmed and had counted no more than it did (`CountedBefore`); that core has
  nothing without a row, nor a process a record without one; and that a row belongs to a
  distribution that was answered. What is confirmed stays confirmed, so a count stays true.
  If of any two paid distributions one counted the other, then one counted all the others
  (`LatestPaid`, by a smallest counterexample), and taking it away leaves a smaller set with
  the same property: no smallest set pays past the cap. That one allocation keeps within the
  capacities is `AllocateExact`.

**The allocation (AllocationProofs, RevenueShareProofs).** For any contributors,
contributions, multiple, obligations and number of runs:

* `SharesExact`: the largest-remainder shares of a pass are whole and add up to the pool. The
  residual units are fewer than the contributors, and the rank of the remainders, ties broken
  by position, is a strict order, so exactly that many contributors get one more;
* `LargerShare`: in one pass the larger contribution has no smaller share;
* `PassExact`: a pass keeps within the capacities, keeps payments and pool together the same,
  and empties the pool or takes somebody to the cap;
* `AllocateExact`: the whole pays all that the capacities have room for, nobody past the
  capacity, and whoever put in more no less unless the capacity stopped it. There are as many
  passes as contributors, and each that does not empty the pool has one fewer to pay;
* `CapHolds`, `Conservation`, `OrderIsKept`: `[]CapNeverExceeded`, `[]NothingLost`,
  `[]LargerIsPaidNoLess`. The invariant says of a run that its capacities are what earlier
  runs left, that it pays no more than they have room for, that payments and pool are what it
  began with, and that it has kept the order. For the cap alone the cut would do, whatever the
  shares are; that nothing is lost needs them exact;
* `EveryTurnCounts`: a turn of the loop empties the pool or takes somebody to the cap for
  good. It is the safety half of `RunsEnd`;
* `LoopIsTheAllocation`: what RevenueShare pays pass by pass is what `Allocate`, with which
  Distribution derives, computes in one piece. The state of a run is that of some turn of
  `Allocate` (`RunIsAtATurn`); the turns suffice because each has one fewer to pay, and those
  left over change nothing (`StoppedEarly`).

**The scheduler (ConfirmationSchedulerProofs).** For any callers and identifiers and under
`~RestartWhileStopping` (nobody starts the scheduler while a stop waits, as in `index.ts`):

* `SingleLoop`: `[]OneLoop`;
* `StopWaits`: `StopWaitsForTick`.

Both follow from `TypeOK /\ OneTimer /\ TickAwaited`: the runtime holds no timer but
`this.timer` and none beside a tick, and whoever is inside `stop` awaits the only tick there
is. Without the condition `OneLoop` fails.

* `NeverStalls`, without that condition: a scheduler that is not stopped has a timer armed or
  a tick running. It is the safety half of `LoopGoesOn`;
* `StartedIsOne`, with it: a started scheduler is exactly one timer or tick, a stopped one
  holds no timer, and it is at rest when every stop has returned.

**The deployment (CampaignDeploymentProofs).** `TypeCorrect`, `PublishedHolds` and
`OwnersOnly` for any attempts, keys, goals, deadlines, durations and bounds. The invariant
adds what an attempt has found out where it relies on it (`Informed`: about to create the mirror's row, it has seen a
vault with its terms; about to publish, a confirmed row) and that the row's owner goes by the
row's number (`Numbered`). The terms of a vault never change once it is there, so a read-back that
matched them still does when the row is written, however late that is (`VaultFits`); its
funding may have ended by then, which the mirror learns from its reconciliations.

* `EachNumberIsOnes`: no two attempts, and no two deploy transactions, go by one number,
  although a claim is a read and a later update. What makes it inductive is `Numbers`: no
  number is beyond the row's, which only a claim raises; and a transaction under a running
  attempt's number is the one that attempt sent, with the terms it resolved;
* `OwnVaultAccepted`: an attempt whose own transaction made the vault is therefore not
  refused it by the read-back, whatever happened to the terms and the clock since, as long as
  the vault is funding and the deadline asked for was a whole second's (one from a duration
  is). Of such vaults `matchesRequestedVault` turns away those of other attempts only. Both
  conditions are needed: the code refuses an attempt its own vault once it has been filled,
  and one that it asked for with milliseconds.

**The review (ApplicationReviewProofs).** `TypeCorrect`, `MaterialIsThere`, `OneDecision`,
`Truthful` and `FollowsTheTable` for any requests, keys, decisions and faults. The invariant
adds what a request's position says: one about to move the application has its hand-off on record,
one about to answer that nothing was handed off works on an application that has left
the wait without a hand-off, after which none can be written; and without a sales series no
request is past its evidence and nothing is on record (`Evidenced`). From the same invariant:

* `RequestsReachReviewer`: a request that ends without a fault leaves the application with a
  human, finds the failure handed off under another key, or has no sales series to go by.
  There is no fourth way out;
* `RequestsEnd`: it ends after five steps at most. Together they are the safety half of
  `ReachesReviewer`, which assumes that the key that handed off is repeated.

**Only model-checked.** The liveness properties (`EveryoneIsRefunded`, `EveryRowIsConcluded`,
`RunsEnd`, `LoopGoesOn`, `MirrorSettles`, `CampaignOpens`, `ReachesReviewer`): fairness is out
of the provers' reach. For all but `CampaignOpens` a theorem above states what is left without
it: that the steps that fairness grants lead there and nothing leads back. `ExitAlwaysOpen`, which says ENABLED; `ExitGuardsHold` is what it says
of the guards. And what the code does not have: the properties of `confirm_failed`,
`dist_cap` and `overfunding` fail, and `OnlyExpiredMoved`, `CapInSequence` and
`OneEnvelopeFits` say how far they hold.

## What is abstracted, and what is not modelled

Vault: events, storage lifetimes and `i128` overflow (amounts are bounded by the token's
supply). Investors are not the SME, and nobody pays the vault's address outside
`contribute`. Loop: what Horizon and core answer is reduced to what `advance` tells
apart; the network never delivers an offer after the call for it has returned, other than
as accepted in an unanswered call; attempts are counted up to where the back-off is
constant. Distribution: a derivation reads the feed, the rows and the mirror at one
moment, and its refusals other than nothing to pay are left out since they change
nothing; a replayed submission is a no-op and left out; the signed envelope is the one
that was prepared, the verification's other outcome being a refusal.

Mirror: goal, deadline, token and SME never change and are not read; a failing read ends a
request before it writes and is as if it had not begun; the portfolio skips campaigns that
it believes settled, which only takes requests away. Desk: the reads of a preparation are
one step, and the absolute limit in dollars is one cap together with the tenth of the goal.
Deployment: one application, since salts, rows and keys of two are disjoint; instants are
whole seconds of one clock, which the API and the ledger share, and a deadline has
milliseconds or none; the token is the platform's and the same for all; creating the SME's
account is one of the calls that may fail; the terms an SME entered do not change once the
application is approved. Review: one application; drafts and the
return of a changed request to draft are in ReviewLifecycle, but nothing in the API takes
that transition; of the evidence it matters whether there is a series (one that is malformed
is as if there were none); reports and notifications are data.

## Not modelled

* Notifications: one insert per event and recipient under a unique key, then an e-mail
  nobody waits for. No other part reads the rows.
* The assistant's question cap: count, compare, insert. That questions asked at once can
  exceed it needs no model.
* Wallet challenges and the creation of accounts: operations on one row per user; the
  write of a key beside a deployment is in CampaignDeployment.
* Funding intents: retired, and the same loop over another table.
* The language-model calls: a bounded retry around an answer that is data.
* The obligation of a period: a sum with one rounding.
* Read models, the web application, rehearsal scripts, OpenAPI registry, identity, storage,
  configuration: presentation, pure queries and I/O, with no state that the rest depends on.

The last group is most of the repository's lines (the web application alone is the largest
part), which is why the definitions here stand for a small share of them: they are the part
that decides where money goes and what is said of it.

## State of the plan

Done: the vault and its escrow, the loop, the allocation, the distribution, the scheduler,
the deployment, the mirror, the desk, the review, with their proofs as above.

Left, in the order in which they would be worth it: the mirror composed with the distribution, so that a derivation
reads rows that may be stale; the invocation rows after their submission.
