SPECIFICATION StatusSpec
CONSTANTS
  j1 = j1
  o1 = o1
  o2 = o2
  r1 = r1
  r2 = r2
  v1 = v1
  v2 = v2
  Jobs = {j1}
  Ops = {o1, o2}
  JobOf <- MCJobOf
  Requests = {r1, r2}
  RequestOf <- MCRequestOf
  Results = {v1, v2}
  Eval <- MCEval
  Clients = {c1}
  Servers = {s1}
  NoOne = NoOne
  NoDoc = NoDoc
  NoResult = NoResult
  Dropped = Dropped
  ChunkSize = 1
  EarlyDelete = TRUE
  MaxFaults = 1
  MaxStops = 0
  Users = {u1, u2}
  NoJob = NoJob
SYMMETRY Symmetry
INVARIANTS
  StatusTypeOK
  CompletedKeepsResults
PROPERTIES
  NoStepBack
  NothingComesBack
CHECK_DEADLOCK FALSE
