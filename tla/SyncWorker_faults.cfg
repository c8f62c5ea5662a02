SPECIFICATION Spec
CONSTANTS
  r1 = r1
  r2 = r2
  Model = {1}
  Rel = {r1, r2}
  Binds <- BindsOne
  Broken = {}
  Env = {"define", "toggle", "partition", "lag", "lose", "error", "reset", "crash"}
  MaxTxn = 2
  MaxVersion = 2
  MaxFaults = 2
INVARIANTS SlotBehindInFlight ResultsFollowLive
