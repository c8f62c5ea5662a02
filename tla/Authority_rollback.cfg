SPECIFICATION Spec
CONSTANTS
  a = a
  b = b
  s1 = s1
  s2 = s2
  Measure = {a, b}
  Value = {1, 2}
  Batches <- Repeated
  Session = {s1}
  Visible = {a, b}
  UndoDepth = 2
  LogDepth = 2
  MaxTries = 1
  MaxTx = 4
  MayFail = TRUE
INVARIANTS ModelIsStored
