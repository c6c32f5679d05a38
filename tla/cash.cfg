SPECIFICATION Spec
CONSTANTS
  r1 = r1  r2 = r2  r3 = r3  bare = bare  k1 = k1
  NoKey = NoKey
  Requests = {r1, r2, r3, bare}
  Keys = {k1}
  KeyOf <- MCKeyOf
  Confirms = {c1}
  Failures = {f1}
  MaxFaults = 1
SYMMETRY Retries
INVARIANTS
  OneAtATime
  CashAndBooksAgree
  ReplayIsTrue
CHECK_DEADLOCK FALSE
