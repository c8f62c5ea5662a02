SPECIFICATION Spec
CONSTANTS
  b1 = b1
  b2 = b2
  r1 = r1
  r2 = r2
  o1 = o1
  o2 = o2
  o3 = o3
  k1 = k1
  k2 = k2
  None = None
  AnyRel = AnyRel
  Backend = {b1, b2}
  Model = {1, 2}
  Rel = {r1, r2}
  Key = {k1, k2}
  Out <- OutOf
  Binds <- Apart
  Start <- Filled
  Elementwise = {1}
  InitModes <- Starts
  Env = {"rr"}
  MaxPass = 16
  MaxCapture = 1
  MaxStmts = 2
  MaxSwitches = 0
SYMMETRY Symmetric
CHECK_DEADLOCK FALSE
INVARIANT ResultsCurrent
