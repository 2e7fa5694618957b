SPECIFICATION Spec
CONSTANTS
  t1 = t1
  t2 = t2
  j1 = j1
  s1 = s1
  s2 = s2
  None = None
  Token = {t1}
  Id = {j1, s1, s2}
  ClaimsOf <- SameUser
  ExpOf <- NoExp
  Request = {r1}
  Hook = {h1}
  Event <- HashEvents
  KeepsSid = FALSE
  Fallible = FALSE
  Manual = FALSE
  CacheTTL = 1
  MaxLag = 1
  MaxTime = 1
INVARIANT
  RevokedOnNextRequest
