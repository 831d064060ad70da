--------------------- MODULE ConfirmationSchedulerProofs ---------------------
(***************************************************************************)
(* A scheduler that was started goes on, whoever starts and stops it and   *)
(* however often.  It runs one loop, and stop waits for its tick, for any  *)
(* number of callers and identifiers, as long as nobody starts it while a  *)
(* stop has not returned: with RestartWhileStopping neither holds.         *)
(***************************************************************************)
EXTENDS ConfirmationScheduler, FiniteSetTheorems, TLAPS

\* The runtime holds no timer but this.timer, none of a stopped scheduler, and none
\* beside a tick.
OneTimer ==
  /\ armed \subseteq {timer}
  /\ stopped => armed = {}
  /\ running = {} \/ armed = {}

\* Whoever is inside stop has stopped the scheduler and awaits the only tick that can
\* be running, and a tick that outlives its loop has somebody awaiting it.
TickAwaited ==
  /\ \A c \in Callers : stopping[c] # Out => stopped /\ running \subseteq {stopping[c]}
  /\ (stopped /\ running # {}) => \E c \in Callers : stopping[c] # Out

IInv == TypeOK /\ OneTimer /\ TickAwaited

-----------------------------------------------------------------------------
\* A new scheduler satisfies the inductive invariant.
LEMMA InitIInv == Init => IInv
BY SchedulerAssumption DEF Init, IInv, TypeOK, OneTimer, TickAwaited

\* start arms the one timer: no stop is pending, so no tick is running.
LEMMA StartIInv ==
  ASSUME ~RestartWhileStopping, IInv, NEW c \in Callers, Start(c)
  PROVE  IInv'
<1>1. /\ running = {} /\ armed = {}
      /\ \A d \in Callers : stopping[d] = Out
  BY DEF IInv, TickAwaited, OneTimer, Start
<1>2. PICK t \in Ids : timer' = t /\ armed' = {t}
  BY <1>1 DEF Start, Schedule
<1>3. QED
  BY <1>1, <1>2 DEF IInv, TypeOK, OneTimer, TickAwaited, Start

\* stop clears the timer and awaits the tick in flight.
LEMMA StopIInv ==
  ASSUME ~RestartWhileStopping, IInv, NEW c \in Callers, Stop(c)
  PROVE  IInv'
<1>1. /\ armed' = {} /\ running' = running /\ inFlight' = inFlight /\ stopped'
      /\ timer' = None /\ running = {inFlight} \ {None}
      /\ stopping' = [stopping EXCEPT ![c] = inFlight]
      /\ stopping \in [Callers -> Ids \cup {None, Out}]
  BY DEF IInv, TypeOK, OneTimer, Stop
<1>2. TypeOK' /\ OneTimer'
  BY <1>1 DEF IInv, TypeOK, OneTimer
<1>3. \A d \in Callers : stopping'[d] # Out => stopped' /\ running' \subseteq {stopping'[d]}
  <2>1. running' \subseteq {stopping'[c]}
    BY <1>1
  <2>2. \A d \in Callers \ {c} : stopping'[d] = stopping[d]
    BY <1>1
  <2>3. QED
    BY <1>1, <2>1, <2>2 DEF IInv, TickAwaited
<1>4. stopping'[c] # Out
  BY <1>1, SchedulerAssumption DEF IInv, TypeOK
<1>5. QED
  BY <1>2, <1>3, <1>4 DEF IInv, TickAwaited

\* stop returns.
LEMMA StopReturnsIInv ==
  ASSUME ~RestartWhileStopping, IInv, NEW c \in Callers, StopReturns(c)
  PROVE  IInv'
<1>1. running = {}
  BY DEF IInv, TickAwaited, StopReturns
<1>2. QED
  BY <1>1 DEF IInv, TypeOK, OneTimer, TickAwaited, StopReturns

\* A timer that fires becomes a tick: there is no timer in a stopped scheduler.
LEMMA FireIInv ==
  ASSUME ~RestartWhileStopping, IInv, NEW t \in Ids, Fire(t)
  PROVE  IInv'
<1>1. ~stopped /\ running = {} /\ armed' = {}
  BY DEF IInv, OneTimer, Fire
<1>2. PICK r \in Ids : running' = {r} /\ inFlight' = r
  BY <1>1 DEF Fire, Fresh
<1>3. QED
  BY <1>1, <1>2, SchedulerAssumption DEF IInv, TypeOK, OneTimer, TickAwaited, Fire

\* A tick ends, and arms the timer unless the scheduler was stopped meanwhile.
LEMMA EndIInv ==
  ASSUME ~RestartWhileStopping, IInv, NEW r \in Ids, End(r)
  PROVE  IInv'
<1>1. running = {r} /\ armed = {} /\ running' = {} /\ inFlight' = None
  BY DEF IInv, TypeOK, OneTimer, End
<1>2. CASE stopped
  BY <1>1, <1>2 DEF IInv, TypeOK, OneTimer, TickAwaited, End, Schedule
<1>3. CASE ~stopped
  <2>1. PICK t \in Ids : timer' = t /\ armed' = {t}
    BY <1>1, <1>3 DEF End, Schedule
  <2>2. QED
    BY <1>1, <1>3, <2>1 DEF IInv, TypeOK, OneTimer, TickAwaited, End
<1>4. QED
  BY <1>2, <1>3

\* Every step keeps the inductive invariant.
LEMMA NextIInv ==
  ASSUME ~RestartWhileStopping, IInv, [Next]_vars
  PROVE  IInv'
<1>1. CASE UNCHANGED vars
  BY <1>1 DEF vars, IInv, TypeOK, OneTimer, TickAwaited
<1>2. CASE Next
  BY <1>2, StartIInv, StopIInv, StopReturnsIInv, FireIInv, EndIInv DEF Next
<1>3. QED
  BY <1>1, <1>2

\* Never a timer beside another or beside a tick.
LEMMA IInvOneLoop == ASSUME ~RestartWhileStopping, IInv PROVE OneLoop
<1>1. /\ Cardinality({}) = 0
      /\ Cardinality({timer}) = 1 /\ Cardinality({inFlight}) = 1
  BY FS_EmptySet, FS_Singleton
<1>2. CASE running = {}
  <2>1. armed = {} \/ armed = {timer}
    BY DEF IInv, OneTimer
  <2>2. QED
    BY <1>1, <1>2, <2>1 DEF OneLoop
<1>3. CASE running # {}
  <2>1. armed = {} /\ (running = {} \/ running = {inFlight})
    BY <1>3 DEF IInv, OneTimer, TickAwaited, TypeOK
  <2>2. QED
    BY <1>1, <1>3, <2>1 DEF OneLoop
<1>4. QED
  BY <1>2, <1>3

-----------------------------------------------------------------------------
\* There is one loop, whoever starts and stops it, if start waits for stop.
THEOREM SingleLoop == ~RestartWhileStopping => (Spec => []OneLoop)
<1>1. SUFFICES ASSUME ~RestartWhileStopping PROVE Spec => []OneLoop
  OBVIOUS
<1>2. IInv /\ [Next]_vars => IInv'
  BY <1>1, NextIInv
<1>3. IInv => OneLoop
  BY <1>1, IInvOneLoop
<1>4. QED
  BY <1>2, <1>3, InitIInv, PTL DEF Spec

\* When stop returns, no tick is running, if start waits for stop.
THEOREM StopWaits == ~RestartWhileStopping => (Spec => StopWaitsForTick)
<1>1. SUFFICES ASSUME ~RestartWhileStopping PROVE Spec => StopWaitsForTick
  OBVIOUS
<1> DEFINE Returned ==
      \A c \in Callers : stopping[c] # Out /\ stopping'[c] = Out /\ stopped => running = {}
<1>2. IInv /\ [Next]_vars => IInv'
  BY <1>1, NextIInv
<1>3. IInv /\ [Next]_vars => [Returned]_vars
  <2> SUFFICES ASSUME IInv, Next, NEW c \in Callers, stopping[c] # Out, stopping'[c] = Out
               PROVE  running = {}
    OBVIOUS
  <2>1. StopReturns(c)
    <3>1. ASSUME NEW d \in Callers, Start(d) \/ Stop(d) PROVE FALSE
      BY <3>1, SchedulerAssumption DEF IInv, TypeOK, Start, Stop
    <3>2. ASSUME NEW d \in Callers, StopReturns(d) PROVE d = c
      BY <3>2 DEF IInv, TypeOK, StopReturns
    <3>3. ASSUME NEW i \in Ids, Fire(i) \/ End(i) PROVE FALSE
      BY <3>3 DEF Fire, End
    <3>4. QED
      BY <3>1, <3>2, <3>3 DEF Next
  <2>2. QED
    BY <2>1 DEF IInv, TickAwaited, StopReturns
<1>4. QED
  BY <1>2, <1>3, InitIInv, PTL DEF Spec, StopWaitsForTick

-----------------------------------------------------------------------------
\* A scheduler that is not stopped has a timer that will fire or a tick that runs.
Alive == ~stopped => armed # {} \/ running # {}

\* The loop never stalls: whatever order start, stop, timers and the ends of ticks come in, a
\* restart before a stop has returned included, a scheduler that is started always holds what
\* makes it go on (run's finally, which arms the timer "whether the tick succeeded or threw").
\* With the fairness of timers and ticks this is LoopGoesOn.
\* Alive, with no condition on who restarts what.
THEOREM NeverStalls == Spec => []Alive
<1>1. Init => Alive
  BY DEF Init, Alive
<1>2. ASSUME Alive, Next PROVE Alive'
  <2>1. CASE \E c \in Callers : Start(c)
    BY <2>1 DEF Start, Schedule, Alive
  <2>2. CASE \E c \in Callers : Stop(c) \/ StopReturns(c)
    BY <1>2, <2>2 DEF Stop, StopReturns, Alive
  <2>3. CASE \E t \in Ids : Fire(t)
    BY <2>3 DEF Fire, Alive
  <2>4. CASE \E r \in Ids : End(r)
    BY <2>4 DEF End, Schedule, Alive
  <2>5. QED
    BY <1>2, <2>1, <2>2, <2>3, <2>4 DEF Next
<1>3. Alive /\ [Next]_vars => Alive'
  BY <1>2 DEF vars, Alive
<1>4. QED
  BY <1>1, <1>3, PTL DEF Spec

\* A started scheduler is one timer or one tick, a stopped one holds no timer, and once every
\* stop has returned it is at rest: nothing of it will run again before somebody starts it.
OneOrNone ==
  /\ ~stopped => Cardinality(armed) + Cardinality(running) = 1
  /\ stopped => armed = {}
  /\ stopped /\ (\A c \in Callers : stopping[c] = Out) => running = {}

\* OneOrNone, for any callers and identifiers, if start waits for stop.
THEOREM StartedIsOne == ~RestartWhileStopping => (Spec => []OneOrNone)
<1>1. SUFFICES ASSUME ~RestartWhileStopping PROVE Spec => []OneOrNone
  OBVIOUS
<1>2. IInv /\ [Next]_vars => IInv'
  BY <1>1, NextIInv
<1>3. IInv /\ Alive => OneOrNone
  <2> SUFFICES ASSUME IInv, Alive PROVE OneOrNone
    OBVIOUS
  <2>1. /\ stopped => armed = {}
        /\ stopped /\ (\A c \in Callers : stopping[c] = Out) => running = {}
    BY DEF IInv, OneTimer, TickAwaited
  <2>2. ASSUME ~stopped PROVE Cardinality(armed) + Cardinality(running) = 1
    <3>1. /\ Cardinality({}) = 0
          /\ Cardinality({timer}) = 1 /\ Cardinality({inFlight}) = 1
      BY FS_EmptySet, FS_Singleton
    <3>2. \/ armed = {} /\ running = {inFlight}
          \/ armed = {timer} /\ running = {}
      BY <1>1, <2>2 DEF IInv, OneTimer, TypeOK, Alive
    <3>3. QED
      BY <3>1, <3>2
  <2>3. QED
    BY <2>1, <2>2 DEF OneOrNone
<1>4. QED
  BY <1>2, <1>3, InitIInv, NeverStalls, PTL DEF Spec
=============================================================================
