SPECIFICATION FairSpec
CONSTANTS
  Requests = {r1, r2, r3}
  Refreshing = {r1, r2}
  Endless = {r3}
  Bound = 1
  MaxPanics = 1
INVARIANT
  PermitsAccounted
PROPERTIES
  EveryCallEnds
  DeliveredIsRefreshed
  ServerStops
CHECK_DEADLOCK FALSE
