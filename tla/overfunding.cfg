\* Two investors who prepare their contributions before either has paid.
SPECIFICATION DeskSpec
CONSTANTS
  ann = ann  bob = bob
  Investors = {ann, bob}
  Sme = sme
  Vault = vault
  Goal = 3
  CapDivisor = 1
  Deadline = 1
  MaxTime = 1
  MaxSweepBatch = 1
  InitialBalance <- MCInitialBalance
  Amounts = {1, 2}
  Batches = {}
  Closable = {}
INVARIANTS VaultFitsMirror
CHECK_DEADLOCK FALSE
