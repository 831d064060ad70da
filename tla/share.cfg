\* Three contributors, the demo rule's cap of 3/2, every run up to 7 units.
CONSTANTS
  CapNumerator = 3
  CapDenominator = 2
  N = 3
  Contributions <- SmallContributions
  MaxObligation = 7
SPECIFICATION FairSpec
INVARIANTS CapNeverExceeded NothingLost LargerIsPaidNoLess
PROPERTIES RunsEnd
