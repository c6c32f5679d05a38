SPECIFICATION Spec
CONSTANTS
  g1 = g1  g2 = g2
  o1 = o1  o2 = o2  o3 = o3
  cocoa = cocoa  rice = rice
  a1 = a1
  Groups = {g1, g2}
  Orders = {o1, o2, o3}
  GroupOf <- MCGroupOf
  Products = {cocoa, rice}
  Units <- MCUnits
  OrderOf <- MCOrderOf
  ProductOf <- MCProductOf
  InitialStock <- MCInitialStock
  PickupOrders = {o2}
  Payments = {a1}
  PaymentOf <- MCPaymentOf
  Confirmations = {c1, c2}
  Confirms <- MCConfirms
  Requests = {r1, r2}
  Targets = {"SHIPPED", "CANCELLED"}
  Sweeps = {s1, s2}
  MaxFailures = 0
SYMMETRY Symmetry
INVARIANTS
  TypeOK
  NoUnitLost
  StockExact
  PaidGroupNotPending
  CancelledGroupIsDead
CHECK_DEADLOCK FALSE
