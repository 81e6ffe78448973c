SPECIFICATION AccessSpec
CONSTANTS
  Accounts = {a1}
  First = a1
  MaxVisits = 1
INVARIANTS
  RoutesReachable
CHECK_DEADLOCK FALSE
