SPECIFICATION Spec
CONSTANTS
  o1 = o1  o2 = o2
  half = half  all = all  batch = batch
  Orders = {o1, o2}
  Total <- MCTotal
  Charged <- MCCharged
  Singles = {half, all}
  OrderOf <- MCOrderOf
  Asked <- MCAsked
  Batches = {batch}
  Spread <- MCSpread
  MaxRefusals = 1
  MaxCrashes = 1
INVARIANTS
  TypeOK
  TraceBeforeMoney
  BooksAgree
  FullRefundIsMarked
PROPERTIES
  KeepsContract
CHECK_DEADLOCK FALSE
