SPECIFICATION Spec
CONSTANTS
  r1 = r1
  r2 = r2
  r3 = r3
  r4 = r4
  Requests = {r1, r2, r3}
  Bodies <- MCBodies
  Body <- MCBody
  ClientsLeave = FALSE
  ReserveFails = FALSE
  ReleaseFails = FALSE
  ReleaseResent = FALSE
  AckLost = TRUE
  OutlastTTL = FALSE
  Crashes = FALSE
CHECK_DEADLOCK FALSE
INVARIANTS
  DuplicatesCollapse
