------------------------ MODULE ConfirmationScheduler ------------------------
(***************************************************************************)
(* The timer that drives the confirmation loop of one process              *)
(* (confirmation-scheduler.ts): a setTimeout armed again only when the     *)
(* tick it started has ended.  JavaScript runs one callback at a time, so  *)
(* every method is one step up to its first await; the steps of start,     *)
(* stop, timers and ends of ticks come in any order.  What a tick does is  *)
(* module Confirmation.                                                    *)
(***************************************************************************)
EXTENDS Naturals, FiniteSets

CONSTANTS
  Callers,              \* who calls start and stop
  Ids,                  \* bound: identifiers for the timers and the ticks alive at once
  None,                 \* undefined
  RestartWhileStopping  \* whether a caller starts it while a stop has not returned

\* Where a caller is that is not inside stop.
Out == "out"

ASSUME SchedulerAssumption ==
  None \notin Ids /\ Out \notin Ids \cup {None} /\ RestartWhileStopping \in BOOLEAN

VARIABLES
  stopped,   \* this.stopped
  timer,     \* this.timer; a timer that has fired is not cleared
  armed,     \* the timeouts the runtime holds
  running,   \* the ticks that have begun and not ended
  inFlight,  \* this.inFlight
  stopping   \* the callers inside stop, each with the tick it awaits

vars == <<stopped, timer, armed, running, inFlight, stopping>>

Init ==
  /\ stopped = TRUE
  /\ timer = None /\ armed = {}
  /\ inFlight = None /\ running = {}
  /\ stopping = [c \in Callers |-> Out]

\* schedule
Schedule ==
  IF stopped' THEN UNCHANGED <<timer, armed>>
  ELSE \E t \in Ids \ armed : timer' = t /\ armed' = armed \cup {t}

\* A slip: start does not ask whether the loop runs already.
StartAgain(c) ==
  /\ stopping[c] = Out
  /\ RestartWhileStopping \/ \A d \in Callers : stopping[d] = Out
  /\ stopped' = FALSE
  /\ Schedule
  /\ UNCHANGED <<running, inFlight, stopping>>

\* On a scheduler that is not stopped, start does nothing.
Start(c) ==
  /\ stopping[c] = Out
  /\ RestartWhileStopping \/ \A d \in Callers : stopping[d] = Out
  /\ stopped
  /\ stopped' = FALSE
  /\ Schedule
  /\ UNCHANGED <<running, inFlight, stopping>>

\* A slip: stop returns without awaiting the tick in flight.
StopAtOnce(c) ==
  /\ stopping[c] = Out
  /\ stopped' = TRUE
  /\ armed' = armed \ {timer}
  /\ timer' = None
  /\ stopping' = [stopping EXCEPT ![c] = None]
  /\ UNCHANGED <<running, inFlight>>

\* Clearing a timer that has fired does nothing.
Stop(c) ==
  /\ stopping[c] = Out
  /\ stopped' = TRUE
  /\ armed' = armed \ {timer}
  /\ timer' = None
  /\ stopping' = [stopping EXCEPT ![c] = inFlight]
  /\ UNCHANGED <<running, inFlight>>

StopReturns(c) ==
  /\ stopping[c] # Out
  /\ stopping[c] \notin running
  /\ stopping' = [stopping EXCEPT ![c] = Out]
  /\ UNCHANGED <<stopped, timer, armed, running, inFlight>>

Fresh == Ids \ (running \cup {stopping[c] : c \in Callers})

\* A timeout fires: tick.
Fire(t) ==
  /\ t \in armed
  /\ armed' = armed \ {t}
  /\ IF stopped THEN UNCHANGED <<running, inFlight>>
     ELSE \E r \in Fresh : running' = running \cup {r} /\ inFlight' = r
  /\ UNCHANGED <<stopped, timer, stopping>>

\* A slip: the timer is not armed again.
EndUnarmed(r) ==
  /\ r \in running
  /\ running' = running \ {r}
  /\ inFlight' = None
  /\ UNCHANGED <<stopped, timer, armed, stopping>>

\* run's finally, whether the tick succeeded or threw.
End(r) ==
  /\ r \in running
  /\ running' = running \ {r}
  /\ inFlight' = None
  /\ UNCHANGED <<stopped, stopping>>
  /\ Schedule

Next ==
  \/ \E c \in Callers : Start(c) \/ Stop(c) \/ StopReturns(c)
  \/ \E i \in Ids : Fire(i) \/ End(i)

Spec == Init /\ [][Next]_vars

\* The runtime fires its timers, and a tick ends.
FairSpec == Spec /\ WF_vars(\E t \in Ids : Fire(t)) /\ \A r \in Ids : WF_vars(End(r))

-----------------------------------------------------------------------------
\* The type of the state; while callers wait for stop before they start again,
\* inFlight is the tick that runs.
TypeOK ==
  /\ stopped \in BOOLEAN
  /\ timer \in Ids \cup {None} /\ armed \subseteq Ids
  /\ inFlight \in Ids \cup {None} /\ running \subseteq Ids
  /\ stopping \in [Callers -> Ids \cup {None, Out}]
  /\ ~RestartWhileStopping => running = {inFlight} \ {None}

\* There is one loop: never a timer waiting beside another or beside a tick
\* ("which is what makes overlap impossible").
OneLoop == Cardinality(armed) + Cardinality(running) <= 1

\* When stop returns no tick is left running, unless somebody has started the
\* scheduler again ("waits for the tick in flight").
StopWaitsForTick ==
  [][\A c \in Callers :
       stopping[c] # Out /\ stopping'[c] = Out /\ stopped => running = {}]_vars

\* A scheduler that is not stopped goes on ticking.
LoopGoesOn == []<>(stopped \/ running # {})
=============================================================================
