\* Two requests, two faults of any kind and one change of the terms, tick of the clock,
\* direct opening or end of the funding.
SPECIFICATION FairSpec
CONSTANTS
  Attempts = {p1, p2}
  Keys = {k1, k2}
  Goals = {1, 2}
  k1 = k1
  k2 = k2
  InitialTerms <- MCInitialTerms
  DirectCommands <- MCDirectCommands
  NoKey = NoKey
  MaxAttempts = 6
  MaxFaults = 2
  MaxChanges = 1
INVARIANTS TypeOK PublishedIsDeployed
PROPERTIES OutcomeIsTheOwners CampaignOpens
CHECK_DEADLOCK FALSE
