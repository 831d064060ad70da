\* One process that may die once, two envelopes, a batch that holds only one of them.
\* A liveness property is checked, so no symmetry.
CONSTANTS
  Envelopes = {e1, e2}
  Workers = {w1}
  BatchSize = 1
  InitialBackoff = 1
  MaxBackoff = 2
  IncludedAnswer = "DUPLICATE"
  MaxTime = 4
  MaxCrashes = 1
SPECIFICATION FairSpec
INVARIANTS RejectionIsFinal
PROPERTIES ScheduleMovesForward EveryRowIsConcluded
CHECK_DEADLOCK FALSE
