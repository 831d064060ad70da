\* Three investors, one of whose accounts may be closed and reopened, as may the SME's.
SPECIFICATION FairSpec
CONSTANTS
  ann = ann  bob = bob  cyd = cyd
  Investors = {ann, bob, cyd}
  Sme = sme
  Vault = vault
  Goal = 4
  CapDivisor = 2
  Deadline = 2
  MaxTime = 3
  MaxSweepBatch = 2
  InitialBalance <- MCInitialBalance
  Amounts <- MCAmounts
  Batches <- MCBatches
  Closable = {ann, sme}
INVARIANTS TypeOK NoWindowAtGoal NobodyRedirects Solvent EnoughBackers IndexComplete ExitAlwaysOpen
PROPERTIES LegalTransitions ImplementsEscrow EveryoneIsRefunded
CHECK_DEADLOCK FALSE
