SPECIFICATION FairSpec
CONSTANTS
  Http = Http
  Workers = {w1, w2, w3}
  MaxRequests = 2
INVARIANTS
  TypeOK
  ErrorReported
PROPERTIES
  ImplementsInstance
  StopsWhenTold
  FailureStops
CHECK_DEADLOCK FALSE
