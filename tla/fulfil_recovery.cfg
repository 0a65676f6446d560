SPECIFICATION LiveSpec
CONSTANTS
  MaxOrders = 2
  Products = {"tea"}
  InitialStock <- MCInitialStock
  Carts <- MCOneEach
  Procs = {"s1"}
  Workers = {"w1"}
  ProcOf <- MCOneProcess
  QueueSize = 1
  SweepBatchSize = 1
  MaxRetries = 2
  ChargeTimesOut = FALSE
  MaxCrashes = 1
PROPERTIES
  EveryOrderDecided
