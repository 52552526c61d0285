SPECIFICATION Spec
CONSTANTS
  Sources = {s1}
  TailSources = {s1}
  Versions = {1}
  HeadRecords = 1
  Rewrites = {}
  Faults = {}
  DisturbPoints = {"idle"}
  ReturnPoints = {"idle"}
  AbortPoints = {"checkpoint"}
  MaxChanges = 5
  MaxRecords = 3
  MaxMishaps = 1
INVARIANT NoDuplicateRows
