\* One transcript in depth: two builds, rewrites that change the head of the file, faults
\* between refreshes, every interruption point except the one before the checkpoint statement.
SPECIFICATION FairSpec
CONSTANTS
  Sources = {s1}
  TailSources = {s1}
  Versions = {1, 2}
  HeadRecords = 1
  Rewrites = {"newhead"}
  Faults = {"unreadable", "gone"}
  DisturbPoints = {"idle"}
  ReturnPoints = {"idle"}
  AbortPoints = {"visit", "tail", "append", "parse", "store"}
  MaxChanges = 5
  MaxRecords = 4
  MaxMishaps = 2
INVARIANTS NoDuplicateRows CurrentMeansComplete RowsOfOneParser
PROPERTIES ArchiveKept EventuallyIndexed

