SPECIFICATION Spec
CONSTANTS
  Proof = {p1}
  Request = {r1, r2}
  MaxAge = 2
  Skew = 1
  Drift <- NoDrift
  Window = 2
  NonceRequired = FALSE
  Fallible = FALSE
  MaxLag = 0
  MaxTime = 2
CHECK_DEADLOCK FALSE
PROPERTIES
  SecondUseRejected
