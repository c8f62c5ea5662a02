SPECIFICATION Spec
CONSTANTS
  k1 = k1
  k2 = k2
  Null = Null
  Row = {1, 2}
  Item = {k1, k2}
  Content <- MCContent
  Bind <- MCBind
  Rank <- MCRank
  Unique = {"plain"}
  Kinds <- MCKinds
  Half = 4
  FirstXid = 7
  MaxTxn = 2
  Base <- MCBase
  MaxOps = 3
CHECK_DEADLOCK FALSE
INVARIANTS FoldsExact PlainConverges NeverOutOfStep EngineFollows
