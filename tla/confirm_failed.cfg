\* The smallest case: one process, one envelope.
CONSTANTS
  Envelopes = {e1}
  Workers = {w1}
  BatchSize = 1
  InitialBackoff = 1
  MaxBackoff = 1
  IncludedAnswer = "DUPLICATE"
  MaxTime = 4
  MaxCrashes = 0
SPECIFICATION Spec
INVARIANTS FailedNeverMovedMoney
CHECK_DEADLOCK FALSE
