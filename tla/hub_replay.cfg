SPECIFICATION Spec
CONSTANTS
  Clients = {"c1"}
  Notes = {"n1"}
  Orders = {"o1"}
  Users = {"ann", "bob"}
  OrderOf <- MCOrderOf
  CallerOf <- MCCallerOf
  Owner <- MCOwner
  SendBuffer = 2
  MayStop = FALSE
  Groups = {{"c1"}}
CHECK_DEADLOCK FALSE
INVARIANTS
  ReplayNeverPanics
