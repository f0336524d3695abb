SPECIFICATION Spec
CONSTANTS
  j0 = j0
  j1 = j1
  j2 = j2
  o1 = o1
  o2 = o2
  o3 = o3
  r1 = r1
  r2 = r2
  r3 = r3
  v1 = v1
  v2 = v2
  v3 = v3
  Jobs = {j0, j1}
  Ops = {o1, o2}
  JobOf <- OneJobOf
  Requests = {r1, r2, r3}
  RequestOf <- MCRequestOf
  Results = {v1, v2, v3}
  Eval <- MCEval
  Clients = {c1}
  Servers = {s1}
  NoOne = NoOne
  NoDoc = NoDoc
  NoResult = NoResult
  Dropped = Dropped
  ChunkSize = 1
  EarlyDelete = TRUE
  MaxFaults = 0
  MaxStops = 0
INVARIANT
  CleanupComplete
CHECK_DEADLOCK FALSE
