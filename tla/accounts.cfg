SPECIFICATION Spec
CONSTANTS
  MaxUsers = 2
  Emails = {"x", "y"}
  Updates = {"u1", "u2"}
  Logins = {"l1"}
  PerSecond = 2
  TTL = 3
  MaxClock = 5
INVARIANTS
  TypeOK
  LostOnlyToAStaleSave
  RightsRunOut
  ExpiresInIsClose
CHECK_DEADLOCK FALSE
