CONSTANTS
  Text <- MCText
  Environments <- MCEnvironments
  CommandLines <- MCCommandLines
  Normalized <- MCNormalized
  Elements <- MCElements
  Scheme <- MCScheme
  ParseFloat <- MCParseFloat
  Version = "dev"
SPECIFICATION Spec
CHECK_DEADLOCK FALSE
INVARIANTS
  TypeOK
  CleanedOnce
  PlaintextOnlyWhenAsked
  BadRatioSamplesAll
PROPERTIES
  StartsAsLifecycle
