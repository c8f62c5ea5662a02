SPECIFICATION Spec
CONSTANTS
  r1 = r1
  r2 = r2
  Model = {1}
  Rel = {r1, r2}
  Binds <- BindsOne
  Broken = {}
  Env = {"lose", "reset"}
  MaxTxn = 2
  MaxVersion = 0
  MaxFaults = 2
INVARIANTS NoLostChange
