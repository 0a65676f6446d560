SPECIFICATION Spec
CONSTANTS
  MaxOrders = 1
  Products = {"tea"}
  InitialStock <- MCInitialStock
  Carts <- MCOneEach
  Procs = {"s1"}
  Workers = {"w1", "w2"}
  ProcOf <- MCOneProcess
  QueueSize = 1
  SweepBatchSize = 1
  MaxRetries = 2
  ChargeTimesOut = FALSE
  MaxCrashes = 0
INVARIANTS
  CancelledIsNotCharged
