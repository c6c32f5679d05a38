SPECIFICATION Spec
CONSTANTS
  g1 = g1  g2 = g2
  o1 = o1  o2 = o2  o3 = o3
  cocoa = cocoa  rice = rice
  a1 = a1
  Groups = {g1, g2}
  Orders = {o1, o2, o3}
  GroupOf <- MCGroupOf
  Products = {cocoa, rice}
  Units <- MCUnits
  OrderOf <- MCOrderOf
  ProductOf <- MCProductOf
  InitialStock <- MCInitialStock
  PickupOrders = {}
  Payments = {a1}
  PaymentOf <- MCPaymentOf
  Confirmations = {c1}
  Confirms <- MCConfirms
  Requests = {r1}
  Targets = {"PAID", "CANCELLED"}
  Sweeps = {s1, s2}
  MaxFailures = 1
PROPERTIES
  ExpiryProgress
CHECK_DEADLOCK FALSE
