SPECIFICATION Spec
CHECK_DEADLOCK FALSE
CONSTANTS
  NONE = NONE
  TORN = TORN
  w1 = w1
  w2 = w2
  p1 = p1
  p2 = p2
  v1 = v1
  v2 = v2
  Processes = {w1}
  Policies = {p1, p2}
  Versions = {v1}
  EventTypes = {"activate", "deactivate"}
  Reach = {"prefix", "line"}
  MaxLines = 3
  MaxAttempts = 3
  MaxClock = 1
SYMMETRY PolicySymmetry
INVARIANTS
  TypeOK
  TamperEvident
  AsOfIsHistory
  AsOfIsLatestByTime
  LatestIsActive
