SPECIFICATION Spec
CONSTANTS
  cocoa = cocoa  rice = rice
  cocoaFirst = cocoaFirst  riceFirst = riceFirst  back = back  count = count  single = single
  Products = {cocoa, rice}
  Transactions = {cocoaFirst, riceFirst, back, count, single}
  InitialStock <- MCInitialStock
  InitialReserved <- MCInitialReserved
  Kind <- MCKind
  Basket <- MCBasket
  Amount <- MCAmount
INVARIANTS
  TypeOK
  JournalAgrees
PROPERTIES
  Atomic
  EveryTransactionEnds
CHECK_DEADLOCK FALSE
