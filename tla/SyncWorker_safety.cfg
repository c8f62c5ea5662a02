SPECIFICATION Spec
CONSTANTS
  r1 = r1
  r2 = r2
  Model = {1, 2}
  Rel = {r1, r2}
  Binds <- BindsShared
  Broken = {}
  Env = {"define", "error", "crash", "lose"}
  MaxTxn = 2
  MaxVersion = 1
  MaxFaults = 1
INVARIANTS NoLostChange ProgressIsBacked RestIsCurrent
