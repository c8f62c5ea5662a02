SPECIFICATION FairSpec
CONSTANTS
  r1 = r1
  r2 = r2
  Model = {1, 2}
  Rel = {r1, r2}
  Binds <- BindsShared
  Broken = {1}
  Env = {"error"}
  MaxTxn = 3
  MaxVersion = 0
  MaxFaults = 1
PROPERTIES Converges
