SPECIFICATION DiscountsSpec
CONSTANTS
  Baskets = {b1, b2}
  Followed = {b1}
  Clerks = {c1, c2}
  CouponLimit = 1
  PerUser = 1
  Budget = 3
  Grant = 2
  Earn = 2
  MaxPoints = 1
  StartBalance = 1
  MaxAdjusts = 1
  MaxDeaths = 1
SYMMETRY Symmetric
INVARIANTS
  CouponCounted
  GrantsAreCounted
  BalanceIsSum
  ReversedWithinEarned
  RefundTakesPointsBack
CHECK_DEADLOCK FALSE
