SPECIFICATION LiveSpec
CONSTANTS
  Requests = {"r1", "r2"}
  Workers = {"w1", "w2"}
  QueueSize = 2
  SweepBatch = 2
CHECK_DEADLOCK FALSE
INVARIANTS
  TypeOK
  DrainedQueueIsSafe
  SweeperNeverPanics
  NothingIsPulledAway
PROPERTIES
  ShutdownCompletes
