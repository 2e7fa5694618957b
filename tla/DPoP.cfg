SPECIFICATION Spec
CONSTANTS
  Proof = {p1, p2}
  Request = {r1, r2}
  MaxAge = 2
  Skew = 1
  Drift <- SmallDrift
  Window = 3
  NonceRequired = TRUE
  Fallible = TRUE
  MaxLag = 1
  MaxTime = 8
CHECK_DEADLOCK FALSE
SYMMETRY Symmetry
INVARIANTS
  TypeOK
  NonceLifetime
  AcceptedTwiceAtMost
  AcceptedWhileFresh
PROPERTIES
  SpacedAccepts
