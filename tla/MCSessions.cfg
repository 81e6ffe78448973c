SPECIFICATION Spec
CONSTANTS
  founder = founder
  user = user
  t1 = t1
  t2 = t2
  k1 = k1
  r1 = r1
  r2 = r2
  Users = {founder, user}
  Founders = {founder}
  RefreshTokens = {t1, t2}
  ResetTokens = {k1}
  Requests = {r1, r2}
  MaxPasswords = 2
SYMMETRY Symmetries
INVARIANTS
  TypeOK
  TokensSound
PROPERTY
  DemotionBinds
CHECK_DEADLOCK FALSE
