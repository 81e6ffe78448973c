SPECIFICATION BothSpec
CONSTANTS
  a1 = a1
  a2 = a2
  p1 = p1
  p2 = p2
  p3 = p3
  u1 = u1
  u2 = u2
  r1 = r1
  r2 = r2
  Briefs = {b1}
  Applications = {a1, a2}
  Proposals = {p1, p2, p3}
  Tasks = {t1}
  Users = {u1, u2}
  Requests = {r1, r2}
  Clerks = {r1, r2}
  MaxDeaths = 1
  MaxLosses = 1
  MaxVersions = 2
SYMMETRY Symmetries
INVARIANTS
  TypesOK
  ApplicationsSound
  TermsAgreed
  StatusTellsSignatures
PROPERTIES
  DealsEndOnce
  FinalStays
CHECK_DEADLOCK FALSE
