SPECIFICATION Spec
CONSTANTS
  Procs = {p1, p2}
  Files <- MCFiles
  Links <- MCLinks
  Home <- MCHome
  Package <- MCPackage
  Owned <- MCOwned
  Texts = {"old", "new"}
  Start <- MigrationStart
  ReadOrder <- MCReadOrder
  Updates <- MCUpdates
  MaxEdits = 1
  MaxCrashes = 1
  MaxFailures = 0
  EditsBeforeReplace = FALSE
  PlanDuringUpdate = FALSE
CHECK_DEADLOCK FALSE
INVARIANT PreparedIsRestorable
PROPERTY AllOrNothing
