SPECIFICATION Spec
CONSTANTS
  r1 = r1
  r2 = r2
  r3 = r3
  r4 = r4
  Requests = {r1, r2, r3, r4}
  Bodies <- MCBodies
  Body <- MCBody
  ClientsLeave = TRUE
  ReserveFails = TRUE
  ReleaseFails = TRUE
  ReleaseResent = TRUE
  AckLost = TRUE
  OutlastTTL = TRUE
  Crashes = TRUE
SYMMETRY MCSymmetry
CHECK_DEADLOCK FALSE
INVARIANTS
  TypeOK
  KeysAreCanonical
  HeldForAReason
  DuplicatesHaveACause
