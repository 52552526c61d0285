SPECIFICATION FairSpec
CONSTANTS
  Procs = {p1, p2}
  Migrators = {p1}
  MaxSource = 1
  MaxKills = 2
  MaxFailures = 1
  MaxLosses = 2
  Outsider = TRUE
  StopPoints = {"staging", "copying", "copied", "flushed", "announcing", "announced", "publishing", "recording", "writing", "recorded", "receipted", "cleaning", "cleaned", "resuming", "republishing", "reverifying", "completing", "rewriting", "verifying"}
  Absent = Absent
  Torn = Torn
  Foreign = Foreign
  Used = Used
  Nobody = Nobody
INVARIANTS
  NeverPartial
  ReceiptHasCopy
PROPERTIES
  NothingReplaced
  AgreedIsFinished
CHECK_DEADLOCK FALSE
