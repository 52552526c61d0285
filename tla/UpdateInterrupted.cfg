SPECIFICATION Spec
CONSTANTS
  Procs = {p1, p2}
  Files <- MCFiles
  Links <- MCLinks
  Home <- MCHome
  Package <- MCPackage
  Owned <- MCOwned
  Texts = {"old", "new"}
  Start <- FreshStart
  ReadOrder <- MCReadOrder
  Updates <- MCUpdates
  MaxEdits = 1
  MaxCrashes = 1
  MaxFailures = 1
  EditsBeforeReplace = FALSE
  PlanDuringUpdate = TRUE
CHECK_DEADLOCK FALSE
INVARIANT PublishedIsFinalizable
PROPERTIES StatusShowsCommitted EditsSurvive
