\* One event whose handler is registered; a database outage that outlasts
\* the three attempts and the listener's own update.
SPECIFICATION FairSpec
CONSTANTS
  known = known
  unknown = unknown
  w1 = w1
  w2 = w2
  OutboxIds = {known}
  Registered = {known}
  Workers = {w1}
  Attempts = 3
  Batch = 2
  MaxFaults = 4
  MaxReplays = 0
  Nobody = Nobody
PROPERTIES
  NeverLost
CHECK_DEADLOCK FALSE
