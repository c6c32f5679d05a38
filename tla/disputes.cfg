SPECIFICATION Spec
CONSTANTS
  o1 = o1
  Orders = {o1}
  Total <- MCOne
  Gross <- MCTwo
  Fee <- MCNone
  Disputes = {d1, d2}
  About <- MCAbout
  Overdue = {d1}
  Resolvers = {r1, r2}
  Movers = {q1}
  Targets = {"COMPLETED"}
  Tracked = {"SHIPPED", "DELIVERED"}
  MaxCrashes = 1
  Sweeps = {s1}
  Payouts = {}
  Admins = {}
INVARIANTS
  DisputeEnds
  HoldFollowsDispute
PROPERTIES
  SellerIsSettled
CHECK_DEADLOCK FALSE
