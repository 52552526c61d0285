SPECIFICATION FairSpec
CONSTANTS
  server = server
  user = user
  Procs = {server, user}
  Schema <- MCSchema
  InitialIndexes <- MCIndexes
  Commands <- MCCommands
  MaxCrashes = 1
  MaxFailures = 1
  MaxExpiries = 1
  MaxQuestions = 1
INVARIANTS StampHonest OneRefreshPerInterval RunningReportHasWriter
PROPERTIES VersionNeverFalls EventuallyCurrent StaleReportGivesWay
