---------------------------- MODULE Distribution ----------------------------
(***************************************************************************)
(* The distribution of a settled campaign's revenue share, period after    *)
(* period: derived from the sales feed and the confirmed rows, prepared,   *)
(* signed by the SME, derived again and submitted, and from there in the   *)
(* hands of the confirmation loop.  The accumulators that hold the 1.5x    *)
(* cap and the index that holds one distribution per period are both read  *)
(* off the rows, so what this module is about is how far the rows can be   *)
(* from the ledger.                                                        *)
(*                                                                         *)
(* One campaign and one SME.  A derivation reads the feed and the rows in  *)
(* one step; its other failures (no decision, no contributors, a port that *)
(* is down) change nothing and are left out.  A replayed submission finds  *)
(* its own row and changes nothing either.                                 *)
(***************************************************************************)
EXTENDS Confirmation, Allocation

CONSTANTS
  Contribution,  \* what each investor put into the campaign, by position
  Obligation,    \* what the rule makes due of each period, by period
  Validity       \* the 15 minutes a prepared envelope can be signed and included

ASSUME DistributionAssumption ==
  /\ Contribution \in Seq(Nat \ {0}) /\ Obligation \in Seq(Nat)
  /\ Validity \in Nat

VARIABLES
  reported,  \* the latest period the sales feed reports
  sequence,  \* the sequence number of the SME's account on the ledger
  desk       \* every distribution's terms, and how far its requests have come

distVars == <<vars, reported, sequence, desk>>

Investors == DOMAIN Contribution
NoPay == [i \in Investors |-> 0]

NotPrepared ==
  [at |-> "new", period |-> 0, pays |-> NoPay, counted |-> {}, sequence |-> 0, expires |-> 0]

DistInit ==
  /\ Init
  /\ reported = 0
  /\ sequence = 0
  /\ desk = [e \in Envelopes |-> NotPrepared]

-----------------------------------------------------------------------------
Confirmed == {e \in Envelopes : row[e].state = "confirmed"}

\* What the given distributions pay an investor in all.
PaidBy(S, i) == SumFunctionOnSet([e \in S |-> desk[e].pays[i]], S)

\* A slip: accumulators that are zero, as a failed read taken for an empty one.
DerivedAfresh == Allocate(Obligation[reported], Contribution, NoPay)

\* The derivation: the obligation of the latest period, allocated under what the
\* accumulators leave of every cap.
Derived ==
  Allocate(Obligation[reported], Contribution, [i \in Investors |-> PaidBy(Confirmed, i)])

\* Nothing rounds to zero and the agreement is not complete.
Derivable == reported > 0 /\ Derived # NoPay

\* A slip: only a confirmed distribution takes its period's slot.
TakenWhenConfirmed(period) == \E f \in Confirmed : desk[f].period = period

Taken(period) ==
  \E f \in Envelopes : row[f].state \notin {"absent", "failed"} /\ desk[f].period = period

-----------------------------------------------------------------------------
(* The sales feed, and the requests of the SME. *)

Report ==
  /\ reported < Len(Obligation)
  /\ reported' = reported + 1
  /\ UNCHANGED <<vars, sequence, desk>>

\* prepare derives the terms ...
PrepareDerive(e) ==
  /\ desk[e].at = "new"
  /\ Derivable
  /\ desk' = [desk EXCEPT ![e].at = "derived", ![e].period = reported, ![e].pays = Derived]
  /\ UNCHANGED <<vars, reported, sequence>>

\* ... refuses early a period that has its distribution ...
PrepareFindActive(e) ==
  /\ desk[e].at = "derived"
  /\ desk' = [desk EXCEPT ![e] = IF Taken(desk[e].period) THEN NotPrepared
                                 ELSE [desk[e] EXCEPT !.at = "free"]]
  /\ UNCHANGED <<vars, reported, sequence>>

\* ... and reads the account for the sequence number to sign.
PrepareTerms(e) ==
  /\ desk[e].at = "free"
  /\ clock + Validity \in Expiries
  /\ desk' = [desk EXCEPT ![e].at = "signed", ![e].sequence = sequence + 1,
                          ![e].expires = clock + Validity]
  /\ UNCHANGED <<vars, reported, sequence>>

\* submit derives again and goes on only if it finds the recipients that were
\* signed and an envelope that has not expired; the period is the one it finds now.
SubmitDerive(e) ==
  /\ desk[e].at = "signed"
  /\ Derivable
  /\ Derived = desk[e].pays
  /\ clock < desk[e].expires
  /\ desk' = [desk EXCEPT ![e].at = "matched", ![e].period = reported, ![e].counted = Confirmed]
  /\ UNCHANGED <<vars, reported, sequence>>

\* A slip: a row that is not due at once.
InsertNotDue(e) ==
  /\ desk[e].at = "matched"
  /\ ~Taken(desk[e].period)
  /\ desk' = [desk EXCEPT ![e].at = "answered"]
  /\ row' = [row EXCEPT ![e] = [Absent EXCEPT !.state = "submitted", !.expires = desk[e].expires,
                                             !.next = clock + InitialBackoff]]
  /\ UNCHANGED <<clock, core, worker, crashes, reported, sequence>>

\* The insert, which the period's unique index may refuse.
SubmitInsert(e) ==
  /\ desk[e].at = "matched"
  /\ IF Taken(desk[e].period)
     THEN desk' = [desk EXCEPT ![e].at = "signed"] /\ UNCHANGED vars
     ELSE desk' = [desk EXCEPT ![e].at = "answered"] /\ Persist(e, desk[e].expires)
  /\ UNCHANGED <<reported, sequence>>

Request(e) ==
  \/ PrepareDerive(e) \/ PrepareFindActive(e) \/ PrepareTerms(e)
  \/ SubmitDerive(e) \/ SubmitInsert(e)

\* A ledger takes the account's transactions in the order of their sequence numbers,
\* and the number is used up whether the transaction succeeds or fails.
IncludeNext ==
  \E e \in Envelopes, outcome \in {"ok", "bad"} :
    /\ desk[e].sequence = sequence + 1
    /\ Include(e, outcome)
    /\ sequence' = sequence + 1
    /\ UNCHANGED <<reported, desk>>

LoopAndClock ==
  /\ Tick \/ LoopNext \/ (\E e \in Envelopes : Drop(e))
  /\ UNCHANGED <<reported, sequence, desk>>

DistNext == Report \/ (\E e \in Envelopes : Request(e)) \/ IncludeNext \/ LoopAndClock

DistSpec == DistInit /\ [][DistNext]_distVars

-----------------------------------------------------------------------------
(* What the distribution promises. *)

\* The payments the ledger has made.
Paid == {e \in Envelopes : core[e] = "ok"}

\* One period's revenue is paid once, in whatever order two submissions for it
\* derive, check and insert ("the same revenue cannot be paid to the investors twice
\* even under a race between two submissions"), as long as no row was given up as
\* expired: such a row frees the slot, whatever the ledger did with its envelope.
PaidOnceUnlessExpired ==
  \A e, f \in Paid :
    e # f /\ desk[e].period = desk[f].period => "expired" \in {row[e].why, row[f].why}

\* Nobody is ever paid more than 1.5 times the contribution (the rule's cap, which
\* the accumulator of the confirmed distributions is there to hold).
CapRespected == \A i \in Investors : PaidBy(Paid, i) <= Cap(Contribution[i])

\* Nobody is paid more than the cap as long as every paid distribution was derived
\* after the one before it was confirmed.
CapHeldInSequence ==
  (\A e, f \in Paid : e # f => e \in desk[f].counted \/ f \in desk[e].counted) => CapRespected

\* The loop is the loop of module Confirmation, whoever submits the rows.
Loop == INSTANCE Confirmation
ImplementsConfirmation == Loop!Spec
=============================================================================
