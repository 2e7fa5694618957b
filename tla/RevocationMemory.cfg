SPECIFICATION Spec
CONSTANTS
  t1 = t1
  t2 = t2
  j1 = j1
  s1 = s1
  s2 = s2
  None = None
  Token = {t1}
  Id = {j1, s1, s2}
  ClaimsOf <- SameUser
  ExpOf <- Exp3
  Request = {r1, r2}
  Hook = {h1, h2}
  Event <- TokenEvents
  KeepsSid = FALSE
  Fallible = FALSE
  Manual = TRUE
  CacheTTL = 2
  MaxLag = 1
  MaxTime = 3
SYMMETRY Symmetry
INVARIANTS
  TypeOK
  RevocationEffective
  JTIIndexCovers
