SPECIFICATION Spec
CONSTANTS
  g1 = g1
  g2 = g2
  w1 = w1
  w2 = w2
  q1 = q1
  t1 = t1
  o1 = o1
  Reader = {g1}
  Writer = {w1}
  Gui = {}
  Tick = {}
  Outside = {o1}
  MayDrop = {}
PROPERTIES NoSaveFromStale
