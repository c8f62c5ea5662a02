SPECIFICATION Spec
CONSTANTS
  c1 = c1
  c2 = c2
  a1 = a1
  a2 = a2
  b1 = b1
  None = None
  Path = {"p"}
  Cell = {c1, c2}
  Value = {1}
  Formula = {a1, b1}
  MeasureOf <- TwoMeasures
  Env = {}
  SeekLimit = 1
  UndoDepth = 2
  MaxCommands = 3
  MaxOutside = 0
  MaxFaults = 1
SYMMETRY Symmetric
CHECK_DEADLOCK FALSE
INVARIANT ShownIsOwn
