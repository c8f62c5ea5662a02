SPECIFICATION Spec
CONSTANTS
  a = a
  b = b
  s1 = s1
  s2 = s2
  Measure = {a, b}
  Value = {1, 2}
  Batches <- Distinct
  Session = {s1}
  Visible = {a, b}
  UndoDepth = 2
  LogDepth = 2
  MaxTries = 3
  MaxTx = 6
  MayFail = FALSE
PROPERTIES CellsNeverConflict
