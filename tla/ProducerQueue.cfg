SPECIFICATION FairSpec
CONSTANTS
  Messages = {m1, m2, m3, m4}
  TooLarge = {m4}
  Overloads = {{m1, m2}, {m1, m3}}
  MaxFaults = 2
INVARIANTS
  TypeOK
  SentReachedLeader
  FailureNeedsCause
PROPERTIES
  ImplementsOutbox
  EverySendEnds
CHECK_DEADLOCK FALSE
