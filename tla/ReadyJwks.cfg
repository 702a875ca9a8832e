CONSTANTS
  Probes = {p1}
  MaxReconnects = 3
SPECIFICATION Spec
INVARIANTS
  ReadyMeansJwksReachable
