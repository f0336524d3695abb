SPECIFICATION FairSpec
CONSTANTS
  j0 = j0
  j1 = j1
  j2 = j2
  o1 = o1
  o2 = o2
  o3 = o3
  r1 = r1
  r2 = r2
  r3 = r3
  v1 = v1
  v2 = v2
  v3 = v3
  Jobs = {j1, j2}
  Ops = {o1, o2, o3}
  JobOf <- MCJobOf
  Requests = {r1, r2, r3}
  RequestOf <- MCRequestOf
  Results = {v1, v2, v3}
  Eval <- MCEval
  Clients = {c1}
  Servers = {s1}
  NoOne = NoOne
  NoDoc = NoDoc
  NoResult = NoResult
  Dropped = Dropped
  ChunkSize = 2
  EarlyDelete = FALSE
  MaxFaults = 0
  MaxStops = 0
INVARIANTS
  NoLineForgotten
PROPERTIES
  AcceptedJobCompletes
  DeletedJobIsCleaned
CHECK_DEADLOCK FALSE
