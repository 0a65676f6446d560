SPECIFICATION LiveSpec
CONSTANTS
  MaxOrders = 2
  Products = {1, 2}
  InitialStock <- MCInitialStock
  Carts <- MCCarts
  Finishers = {f1, f2}
INVARIANTS
  TypeOK
  DeadlocksTakeARestock
PROPERTIES
  ImplementsLifecycle
  TransactionsEnd
CHECK_DEADLOCK FALSE
