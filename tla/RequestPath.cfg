CONSTANTS
  r1 = r1
  r2 = r2
  a = a
  b = b
  two = two
  alice = alice
  bob = bob
  tAlice = tAlice
  tBob = tBob
  tNobody = tNobody
  tForged = tForged
  project = project
  Requests = {r1, r2}
  Resources = {a, b, two}
  Objects = {a, b}
  LastLine <- MCLastLine
  Written <- MCWritten
  FirstSpace <- MCFirstSpace
  ObjectTypes = {project}
  Principals = {alice, bob}
  Tokens <- MCTokens
  GenuineTokens = {tAlice, tBob, tNobody}
  PrincipalOf <- MCPrincipalOf
  ErrorTexts = {19, 20}
  Payloads <- MixedPayloads
  MaxReconnects = 1
SPECIFICATION Spec
SYMMETRY RequestSymmetry
INVARIANTS
  TypeOK
  WaiterInv
  SingleRequest
  OnBehalfOfCaller
  ReplyInv
  DecisionsFit
PROPERTIES
  ClosedIsFinal
  ContractSpec
  ImplementsHandlers
