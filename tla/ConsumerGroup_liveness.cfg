SPECIFICATION FairSpec
CONSTANTS
  Consumers = {c1, c2}
  Partitions = {p1}
  MaxLog = 2
  MaxDisruptions = 2
  NoOne = NoOne
  NoMessage = NoMessage
PROPERTIES
  EveryMessageFinished
  ValidTailCommitted
CHECK_DEADLOCK FALSE
