SPECIFICATION Spec
CONSTANTS
  api = api
  x = x
  star = star
  bronze = bronze
  silver = silver
  gold = gold
  other = other
  Empty = Empty
  NoACR = NoACR
  NoPolicy = NoPolicy
  NoConfig = NoConfig
  NoQuery = NoQuery
  Accepts <- MCAccepts
  Upper <- MCUpper
  Config <- MCConfig
  Query <- MCQuery
  Caller = {c1}
  MaxReload = 1
INVARIANTS
  TypeOK
  OneConfigDecides
  ReadsDecide
  AllowJustified
