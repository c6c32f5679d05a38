SPECIFICATION Spec
CONSTANTS
  a1 = a1  a2 = a2
  polled = polled  poll = poll  Polls = {poll}
  ok1 = ok1  ok2 = ok2  ko1 = ko1
  d1 = d1  d2 = d2  d3 = d3  d4 = d4
  NoKey = NoKey
  Payments = {a1, a2}
  KeyOf <- MCKeyOf
  Orders <- MCOrders
  Events = {ok1, ok2, ko1, polled}
  About <- MCAbout
  Verdict <- MCVerdict
  Deliveries = {d1, d2, d3, d4, poll}
  EventOf <- MCEventOf
  MaxCrashes = 1
INVARIANTS
  CommissionOnce
  SucceededIsBooked
  EventAppliedOnce
CHECK_DEADLOCK FALSE
