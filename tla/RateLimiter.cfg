SPECIFICATION Spec
CONSTANTS
  Client = {k1}
  Caller = {c1, c2}
  Cost = 2
  Second = 2
  RateLimitBurst = 2
  IdleTTL = 6
  MaxLag = 1
  MaxTime = 9
SYMMETRY Symmetry
INVARIANTS
  TypeOK
  WindowBound
PROPERTIES
  SpacedCallsAdmitted
