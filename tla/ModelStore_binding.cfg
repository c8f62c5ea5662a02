SPECIFICATION Spec
CONSTANTS
  h1 = h1
  h2 = h2
  h3 = h3
  own = own
  fact = fact
  x = x
  y = y
  n = n
  u = u
  None = None
  Nothing = Nothing
  Stale = Stale
  Handle = {h1, h2}
  Measure = {own, fact}
  Value = {x}
  FactValue = {y}
  Name = {n}
  Droppable = {own, fact}
  Closures = {{own}}
  Bound = {fact}
  Backends = {"pg"}
  Env = {"dropBound"}
  MaxItem = 1
  MaxTx = 3
  MaxPolicies = 1
  MaxPending = 1
SYMMETRY Symmetric
CHECK_DEADLOCK FALSE
INVARIANT StoreLoads
