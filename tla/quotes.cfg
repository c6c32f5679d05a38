SPECIFICATION Spec
CONSTANTS
  Offers = {k1, k2}
  Requests = {q1, q2}
  MaxVersions = 4
SYMMETRY Symmetric
INVARIANTS
  TypeOK
  OneOrderPerOffer
  AwardClosesTheRest
  LinesMatchTotal
  OrdersAddUp
CHECK_DEADLOCK FALSE
