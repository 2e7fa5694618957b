SPECIFICATION Spec
CONSTANTS
  t1 = t1
  t2 = t2
  j1 = j1
  s1 = s1
  s2 = s2
  None = None
  Token = {t1, t2}
  Id = {j1, s1, s2}
  ClaimsOf <- SameUser
  ExpOf <- NoExp
  Request = {r1, r2}
  Hook = {h1}
  Event <- SubjectEvents
  KeepsSid = FALSE
  Fallible = FALSE
  Manual = FALSE
  CacheTTL = 1
  MaxLag = 1
  MaxTime = 0
INVARIANT
  RevocationEffective
