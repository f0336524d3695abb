SPECIFICATION Spec
CONSTANTS
  j1 = j1
  j2 = j2
  Jobs = {j1, j2}
  JobOf <- MCJobOf
  MaxDocuments = 4
  NoFilter = NoFilter
  Absent = Absent
  MaxNumber = 3
  DefaultSize = 2
  MaxSize = 2
INVARIANTS
  TypeOK
  PageExact
  TotalCovers
  RepeatsNeedInserts
  MissesNeedDeletes
CHECK_DEADLOCK FALSE
