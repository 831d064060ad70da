\* Two processes, as when a deployment overlaps the one it replaces.
CONSTANTS
  Envelopes = {e1, e2}
  Workers = {w1, w2}
  BatchSize = 2
  InitialBackoff = 1
  MaxBackoff = 1
  IncludedAnswer = "DUPLICATE"
  MaxTime = 2
  MaxCrashes = 0
SPECIFICATION Spec
INVARIANTS EvidenceBacked
PROPERTIES TerminalIsFinal
SYMMETRY Symmetry
CHECK_DEADLOCK FALSE
