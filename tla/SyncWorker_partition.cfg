SPECIFICATION Spec
CONSTANTS
  r1 = r1
  r2 = r2
  Model = {1}
  Rel = {r1, r2}
  Binds <- BindsOne
  Broken = {}
  Env = {"partition"}
  MaxTxn = 2
  MaxVersion = 2
  MaxFaults = 0
INVARIANTS RestIsCurrent
