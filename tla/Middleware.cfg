SPECIFICATION Spec
CONSTANTS
  api = api
  silver = silver
  alice = alice
  web = web
  rpc = rpc
  Bronze = bronze
  ACR = {bronze, silver}
  User = {alice}
  Client = {web, rpc}
  Stray = Stray
  NoToken = NoToken
  Lifetime = 1
  IssueLag = 0
  AskLag = 1
  MaxTime = 2
  Empty = Empty
  NoACR = NoACR
  Accepts <- MCAccepts
  Upper <- MCUpper
  Transport <- MCTransport
  Wants <- MCWants
  UserOf <- MCUserOf
  Config <- MCConfig
  NoEngine = NoEngine
  EnableDPoP = TRUE
  ProofAge = 1
  MaxEvents = 1
INVARIANTS
  TypeOK
  ServedJustified
PROPERTIES
  ImplementsAuthServer
  StepUpConverges
