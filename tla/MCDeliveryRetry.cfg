SPECIFICATION NotificationSpec
CONSTANTS
  Notices = {n1}
  Channels = {"EMAIL"}
  Workers = {w1}
  Attempts = 3
  MaxFaults = 0
INVARIANTS
  RetriedBeforeFailed
CHECK_DEADLOCK FALSE
