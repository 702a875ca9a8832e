CONSTANTS
  r1 = r1
  r2 = r2
  c1 = c1
  writer = writer
  alice = alice
  bob = bob
  tAlice = tAlice
  tBob = tBob
  tBare = tBare
  project = project
  Requests = {r1, r2}
  Calls = {c1}
  Resources = {writer}
  Objects = {writer}
  LastLine <- MCLastLine
  Written <- MCWritten
  FirstSpace <- MCFirstSpace
  ObjectTypes = {project}
  Principals = {alice, bob}
  Tokens <- MCTokens
  GenuineTokens = {tAlice, tBob}
  PrincipalOf <- MCPrincipalOf
  ErrorTexts = {19}
  Invocations <- MCInvocations
  Payloads <- MCPayloads
  BareScheme = tBare
  NoRequest = NoRequest
  MaxReconnects = 1
SPECIFICATION ClientSpec
SYMMETRY RequestSymmetry
INVARIANTS
  ClientTypeOK
  ReportedIsComputed
  StatusMeansStage
