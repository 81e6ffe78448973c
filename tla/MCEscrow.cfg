SPECIFICATION Spec
CONSTANTS
  p1 = p1
  r1 = r1
  r2 = r2
  Payments = {p1}
  Requests = {r1, r2}
  MaxTransfers = 2
  MaxPublished = 2
  MaxFaults = 2
SYMMETRY RequestSymmetry
INVARIANTS
  TypeOK
  NothingLeavesEarly
  PaidTwiceNeedsOverlap
  BooksBalance
  EventsTakeEffect
CHECK_DEADLOCK FALSE
