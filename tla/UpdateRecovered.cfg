SPECIFICATION FairSpec
CONSTANTS
  Procs = {p1}
  Files <- MCFiles
  Links <- MCLinks
  Home <- MCHome
  Package <- MCPackage
  Owned <- MCOwned
  Texts = {"old", "new"}
  Start <- FreshStart
  ReadOrder <- MCReadOrder
  Updates <- MCUpdates
  MaxEdits = 0
  MaxCrashes = 2
  MaxFailures = 2
  EditsBeforeReplace = FALSE
  PlanDuringUpdate = TRUE
CHECK_DEADLOCK FALSE
PROPERTY ReceiptResolved
