SPECIFICATION Spec
CONSTANTS
  a = a
  b = b
  x = x
  y = y
  Caller = {c1, c2}
  Kid = {a, b}
  Key = {x, y}
  NoKey = NoKey
  NoToken = NoToken
  Documents <- Rotations
  CacheTTL = 1
  MaxLag = 1
  MaxTime = 4
SYMMETRY Symmetry
INVARIANTS
  TypeOK
  Converged
  NotFoundOnlyIfOvertaken
