SPECIFICATION FairSpec
CONSTANTS
  Paths = {p, q}
  Ids = {x, y}
  Stem <- MCStem
  MaxWrites = 3
  MaxMoves = 1
  MaxRuns = 1
  None = None
INVARIANT PassedOverIsIndexed
PROPERTY OnlyFirstParseReplaces EventuallyReconciled EventuallyStill
