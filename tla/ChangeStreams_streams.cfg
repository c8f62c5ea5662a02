SPECIFICATION FairSpec
CONSTANTS
  s1 = s1
  s2 = s2
  s3 = s3
  c1 = c1
  c2 = c2
  Stream = {s1, s2, s3}
  Caller = {c1, c2}
  Who <- Callers
  MaxStreams = 2
  MaxPer = 1
  MaxVersion = 2
  MaxErrors = 1
INVARIANTS SlotsCounted OnePoller
PROPERTIES ChangesArrive
