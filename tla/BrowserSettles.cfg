SPECIFICATION FairSpec
CONSTANTS
  a = a
  b = b
  wide = wide
  narrow = narrow
  open = open
  none = none
  Queries <- MCQueries
  Filters <- MCFilters
  Sessions <- MCSessions
  Matches <- MCMatches
  MaxKeys = 3
  MaxErrors = 1
  FailingKinds = {"search"}
  MayPanic = TRUE
  None = None
INVARIANTS
  ShownIsWanted
  PreviewIsSelected
PROPERTIES
  EventuallySettles
  QuitJoins
CHECK_DEADLOCK FALSE
