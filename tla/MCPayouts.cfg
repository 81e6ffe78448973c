SPECIFICATION Spec
CONSTANTS
  p1 = p1
  p2 = p2
  r1 = r1
  r2 = r2
  Payouts = {p1, p2}
  Requests = {r1, r2}
  Returns = {"FAILED"}
  Split = 2
  Minimum = 1
  MaxEarned = 2
  MaxFaults = 1
SYMMETRY Symmetries
INVARIANTS
  TypeOK
  NeverOverdrawn
  BooksAgree
CHECK_DEADLOCK FALSE
