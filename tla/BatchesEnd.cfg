SPECIFICATION BatchesFairSpec
CONSTANTS
  Threads = {t1, t2}
  Sizes <- MCSizes
  BatchRows = 2
  MaxCalls = 5
  MaxFaults = 2
  Free = Free
INVARIANTS OneSnapshot ProducerReleased FailureReported
PROPERTY CallsReturn
CHECK_DEADLOCK FALSE
