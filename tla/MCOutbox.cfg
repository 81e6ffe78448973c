SPECIFICATION FairSpec
CONSTANTS
  known = known
  unknown = unknown
  w1 = w1
  w2 = w2
  OutboxIds = {known, unknown}
  Registered = {known}
  Workers = {w1}
  Attempts = 3
  Batch = 2
  MaxFaults = 2
  MaxReplays = 1
  Nobody = Nobody
INVARIANTS
  TypeOK
  RowsTruthful
PROPERTIES
  DeliversAtLeastOnce
  SettledUnlessUnheard
CHECK_DEADLOCK FALSE
