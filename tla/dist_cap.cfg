\* The second period derived while the first is on the ledger and not yet confirmed.
CONSTANTS
  CapNumerator = 3
  CapDenominator = 2
  Envelopes = {e1, e2}
  Workers = {w1}
  BatchSize = 2
  InitialBackoff = 1
  MaxBackoff = 1
  IncludedAnswer = "DUPLICATE"
  MaxTime = 3
  MaxCrashes = 0
  Contribution <- TwoInvestors
  Obligation <- TwoPeriods
  Validity = 1
SPECIFICATION DistSpec
INVARIANTS CapRespected
SYMMETRY Symmetry
CHECK_DEADLOCK FALSE
