SPECIFICATION Spec
CONSTANTS
  Accounts = {a1, a2}
  First = a1
  MaxVisits = 2
  Fans = {f1, f2}
  q1 = q1
  q2 = q2
  Calls = {q1, q2}
  Horizon = 2
  MaxRows = 3
  Attempts = 3
  Uploads = {q1, q2}
  MaxFiles = 3
  Rows = {r1}
  Syncs = {q1, q2}
  MaxVersion = 3
  MaxTime = 3
  Tries = {q1, q2, q3}
  Paths = {p1, p2}
  MaxItems = 2
  Goods = {g1}
  Clerks = {q1, q2}
  MaxSuffix = 1
  Bills = {b1, b2, b3}
  Desks = {q1, q2}
  Years = 1
SYMMETRY Symmetries
INVARIANTS
  ContentTypeOK
  WaresSound
  PapersSound
  IndexCatchesUp
  KeySound
  AccessSound
\* The tries that carry the key are used up.
CHECK_DEADLOCK FALSE
