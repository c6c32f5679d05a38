SPECIFICATION ReturnsSpec
CONSTANTS
  o1 = o1  t1 = t1  t2 = t2
  s1 = s1  s2 = s2  h1 = h1  h2 = h2
  Orders = {o1}
  Total <- MCTotal
  Calls = {s1, s2}
  About <- MCAbout
  Returns = {t1, t2}
  Origin <- MCOrigin
  Units <- MCUnits
  Bought <- MCBought
  Handlers = {h1, h2}
  NoReturn = NoReturn
SYMMETRY Symmetry
INVARIANTS
  UnitsComeBackOnce
  ReturnRefundedOnce
CHECK_DEADLOCK FALSE
