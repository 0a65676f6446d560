SPECIFICATION Spec
CONSTANTS
  MaxProducts = 2
  Prices = {1, 2}
  Quantities = {0, 1}
  Updates = {"u1", "u2"}
  Buyers = {"b1"}
  Cart <- MCCart
  DefaultPageSize = 2
  MaxPageSize = 2
  AskedSizes = {0, 1, 3}
  IntLimit = 4
INVARIANTS
  TypeOK
  PricedTogether
  WalkSeesAll
  PagesDoNotOverlap
CHECK_DEADLOCK FALSE
