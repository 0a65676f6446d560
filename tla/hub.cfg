SPECIFICATION LiveSpec
CONSTANTS
  Clients = {"c1", "c2", "c3", "c4"}
  Notes = {"n1"}
  Orders = {"o1", "o2"}
  Users = {"ann", "bob"}
  OrderOf <- MCOrderOf
  CallerOf <- MCCallerOf
  Owner <- MCOwner
  SendBuffer = 1
  MayStop = TRUE
  Groups <- MCGroups
CHECK_DEADLOCK FALSE
INVARIANTS
  TypeOK
  HubNeverPanics
  
  SentWasTaken
  GivenToTheOwner
PROPERTIES
  NotifyAlwaysReturns
  PumpsUnwind
