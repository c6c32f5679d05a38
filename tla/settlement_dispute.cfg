SPECIFICATION Spec
CONSTANTS
  o1 = o1
  Orders = {o1}
  Total <- MCOne
  Gross <- MCTwo
  Fee <- MCOne
  Disputes = {d1}
  About <- MCAbout
  Overdue = {d1}
  Resolvers = {}
  Movers = {}
  Targets = {}
  Tracked = {"DELIVERED"}
  MaxCrashes = 0
  Sweeps = {s1}
  Payouts = {p1}
  Admins = {a1}
PROPERTIES
  NothingPaidUnderDispute
CHECK_DEADLOCK FALSE
