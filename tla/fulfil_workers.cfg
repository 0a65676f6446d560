SPECIFICATION Spec
CONSTANTS
  MaxOrders = 2
  Products = {"tea", "mug"}
  InitialStock <- MCInitialStock
  Carts <- MCCarts
  Procs = {"s1"}
  Workers = {"w1", "w2"}
  ProcOf <- MCOneProcess
  QueueSize = 1
  SweepBatchSize = 1
  MaxRetries = 1
  ChargeTimesOut = TRUE
  MaxCrashes = 1
INVARIANTS
  TypeOK
  StockConserved
  TablesAgree
  PaidIsCharged
  AnnouncedOnceAndTruly
  ChargedOncePerGateway
PROPERTIES
  ImplementsLifecycle
