\* One investor; two requests at a time, one of which names it.
SPECIFICATION MirrorFairSpec
CONSTANTS
  ann = ann  NoOne = NoOne
  Investors = {ann}
  Sme = sme
  Vault = vault
  Goal = 2
  CapDivisor = 1
  Deadline = 1
  MaxTime = 1
  MaxSweepBatch = 2
  InitialBalance <- MCInitialBalance
  Amounts = {1}
  Batches <- MCBatches
  Closable = {}
  q1 = q1  q2 = q2
  Requests = {q1, q2}
  Looks <- MCLooks
  MaxClock = 1
INVARIANTS MirrorTypeOK ConclusionsAreExact ObservedAfterTheEndIsFinal
PROPERTIES StateChangesAreMarked MirrorSettles
CHECK_DEADLOCK FALSE
