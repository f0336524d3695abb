SPECIFICATION Spec
CONSTANTS
  Consumers = {c1, c2}
  Partitions = {p1, p2}
  MaxLog = 2
  MaxDisruptions = 2
  NoOne = NoOne
  NoMessage = NoMessage
SYMMETRY Symmetry
INVARIANTS
  TypeOK
  NothingSkipped
  CursorsInStep
  RedeliveryNeedsDisruption
PROPERTIES
  CommittedNeverRegresses
  ImplementsDelivery
CHECK_DEADLOCK FALSE
