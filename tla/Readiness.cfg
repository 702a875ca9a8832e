CONSTANTS
  Probes = {p1, p2}
  MaxReconnects = 2
SPECIFICATION FairSpec
INVARIANTS
  TypeOK
  ReadyMeansPong
  NotReadyOnceGone
  ReadyWasConnected
PROPERTIES
  ReadyHasSeenKeys
  NatsCheckEnds
