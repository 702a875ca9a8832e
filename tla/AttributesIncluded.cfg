CONSTANTS
  MaxContexts = 5
SPECIFICATION Spec
CHECK_DEADLOCK FALSE
INVARIANTS
  AttributesIncluded
