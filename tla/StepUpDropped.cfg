SPECIFICATION Spec
CONSTANTS
  home = home
  pay = pay
  bronze = bronze
  gold = gold
  weak = weak
  strong = strong
  acme = acme
  umbrella = umbrella
  issA = issA
  issU = issU
  k1 = k1
  k2 = k2
  r1 = r1
  r2 = r2
  jwk = jwk
  other = other
  Empty = Empty
  Accepts <- MCAccepts
  Upper <- MCUpper
  NoACR = NoACR
  Config <- Lasting
  Tenant = {acme, umbrella}
  Token = {weak, strong}
  Claims <- MCClaims
  Vouches <- MCVouches
  IssuerOf <- MCIssuerOf
  Input <- OneTenant
  Secret = {k1}
  Request = {r1}
  CookieMaxAge = 2
  Timeout = 2
  MaxTime = 2
  MaxRequests = 2
  MaxEvents = 0
  Keep = Keep
  Clear = Clear
  Unknown = Unknown
  NoClaims = NoClaims
  NoIssuer = NoIssuer
  NoSecret = NoSecret
  NoCookie = NoCookie
  NoForward = NoForward
  NoInput = NoInput
  NoPolicy = NoPolicy
  NoTenant = NoTenant
  NoKey = NoKey
  NoFAPI = NoFAPI
  EnableDPoP = FALSE
  FAPI = NoFAPI
  FAPIMaxAuthAge = 2
CHECK_DEADLOCK FALSE
PROPERTIES
  ClearedOnceServed
