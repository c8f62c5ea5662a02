SPECIFICATION FairSpec
CONSTANTS
  a = a
  b = b
  c = c
  e = e
  d = d
  g = g
  p = p
  pr = pr
  pi = pi
  pb = pb
  q = q
  qr = qr
  qi = qi
  qb = qb
  k1 = k1
  None = None
  Input = {a, b, c, e}
  Order <- MCOrder
  Reads <- MCReads
  Plan <- MCPlan
  Fixes <- MCFixes
  Coord = {k1}
  Num = {0, 1, 2}
  Batch <- MCBatch
  Seed <- MCSeed
  MaxRounds = 4
INVARIANTS SnapshotCurrent ConvergedIsCurrent HostCutOffIsCold ViewFollows ChangesAreExact
PROPERTIES AllAnswered
