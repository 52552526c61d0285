SPECIFICATION RootsFairSpec
CONSTANTS
  MaxChanges = 4
  MaxFailures = 1
  Invalid = {2}
  Configured = TRUE
  Nothing = Nothing
  Failed = Failed
INVARIANTS
  NoStaleRoots
  AppHasTheRoots
PROPERTY
  RootsSettle
CHECK_DEADLOCK FALSE
