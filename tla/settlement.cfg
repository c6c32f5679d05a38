SPECIFICATION Spec
CONSTANTS
  o1 = o1
  Orders = {o1}
  Total <- MCTwo
  Gross <- MCTwo
  Fee <- MCOne
  Disputes = {}
  About <- MCAbout
  Overdue = {}
  Resolvers = {}
  Movers = {}
  Targets = {}
  Tracked = {"IN_TRANSIT", "DELIVERED"}
  MaxCrashes = 0
  Sweeps = {s1, s2}
  Payouts = {p1, p2}
  Admins = {a1, a2}
SYMMETRY Symmetric
INVARIANTS
  TypeOK
  PaidOnce
  PartsFollowPayout
  AmountCoversParts
CHECK_DEADLOCK FALSE
