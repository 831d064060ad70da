\* Callers that wait for stop before they start again.  Liveness, so no symmetry.
CONSTANTS
  Callers = {c1, c2, c3}
  Ids = {i1, i2, i3, i4}
  None = None
  RestartWhileStopping = FALSE
SPECIFICATION FairSpec
INVARIANTS OneLoop
PROPERTIES StopWaitsForTick LoopGoesOn
