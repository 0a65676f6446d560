SPECIFICATION Spec
CONSTANTS
  Bits = 5
  Default <- MCDefault
  Sources <- MCSources
  Unset = Unset
  Empty = Empty
  Garbage = Garbage
INVARIANTS
  TypeOK
  SleepsAsDocumented
  ChargeIsBounded
  UsableSettingsServe
CHECK_DEADLOCK FALSE
