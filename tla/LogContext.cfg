CONSTANTS
  MaxContexts = 7
SPECIFICATION Spec
CHECK_DEADLOCK FALSE
INVARIANTS
  TypeOK
  NoMixing
  ChainsKeepAttributes
