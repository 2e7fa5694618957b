SPECIFICATION Spec
CONSTANTS
  home = home
  pay = pay
  bronze = bronze
  gold = gold
  weak = weak
  strong = strong
  acme = acme
  umbrella = umbrella
  issA = issA
  issU = issU
  k1 = k1
  k2 = k2
  r1 = r1
  r2 = r2
  jwk = jwk
  other = other
  Empty = Empty
  Accepts <- MCAccepts
  Upper <- MCUpper
  NoACR = NoACR
  Config <- Fresh
  Tenant = {acme, umbrella}
  Token = {weak, strong}
  Claims <- MCClaims
  Vouches <- MCVouches
  IssuerOf <- MCIssuerOf
  Input <- TwoTenants
  Secret = {NoSecret, k1, k2}
  Request = {r1, r2}
  CookieMaxAge = 1
  Timeout = 1
  MaxTime = 2
  MaxRequests = 3
  MaxEvents = 1
  Keep = Keep
  Clear = Clear
  Unknown = Unknown
  NoClaims = NoClaims
  NoIssuer = NoIssuer
  NoSecret = NoSecret
  NoCookie = NoCookie
  NoForward = NoForward
  NoInput = NoInput
  NoPolicy = NoPolicy
  NoTenant = NoTenant
  NoKey = NoKey
  NoFAPI = NoFAPI
  EnableDPoP = TRUE
  FAPI <- FAPI2
  FAPIMaxAuthAge = 2
CHECK_DEADLOCK FALSE
INVARIANTS
  TypeOK
  ForwardAuthorized
  TenantBound
  ReplayIsOver
SYMMETRY Symmetry
CONSTRAINT Overlap
