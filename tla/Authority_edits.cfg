SPECIFICATION Spec
CONSTANTS
  a = a
  b = b
  s1 = s1
  s2 = s2
  Measure = {a, b}
  Value = {1, 2}
  Batches <- Distinct
  Session = {s1, s2}
  Visible = {a}
  UndoDepth = 2
  LogDepth = 2
  MaxTries = 1
  MaxTx = 5
  MayFail = TRUE
SYMMETRY Symmetric
INVARIANTS ModelIsStored ClientFollows
PROPERTIES OnlyWhatIsAsked UndoInverse
