SPECIFICATION Spec
CONSTANTS
  n1 = n1
  w1 = w1
  w2 = w2
  u1 = u1
  u2 = u2
  s1 = s1
  s2 = s2
  c1 = c1
  c2 = c2
  r1 = r1
  r2 = r2
  Notices = {n1}
  Channels = {"EMAIL", "IN_APP"}
  Workers = {w1, w2}
  Attempts = 3
  MaxFaults = 2
  Members = {u1, u2}
  Sockets = {s1, s2}
  Conversations = {c1, c2}
  Calls = {r1, r2}
  MaxThings = 3
  MaxSlips = 1
SYMMETRY Symmetries
INVARIANTS
  RealtimeTypeOK
  DeliveriesTruthful
  PresenceTrue
  ConversationsSound
CHECK_DEADLOCK FALSE
