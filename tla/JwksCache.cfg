CONSTANTS
  Requests = {r1}
  Probers = {p1}
  MaxGenerations = 2
  Refresher = Refresher
  NoOwner = NoOwner
SPECIFICATION FairSpec
INVARIANTS
  TypeOK
  WithdrawnStaysWithdrawn
PROPERTIES
  ImplementsView
  ValidationEnds
  RotationTakesHold
