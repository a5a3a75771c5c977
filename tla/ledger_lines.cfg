SPECIFICATION Spec
CHECK_DEADLOCK FALSE
CONSTANTS
  NONE = NONE
  TORN = TORN
  w1 = w1
  w2 = w2
  p1 = p1
  p2 = p2
  v1 = v1
  v2 = v2
  Processes = {w1}
  Policies = {p1, p2}
  Versions = {v1}
  EventTypes = {"activate", "supersede", "deactivate"}
  Reach = {"nothing", "prefix", "line", "unterminated"}
  MaxLines = 2
  MaxAttempts = 2
  MaxClock = 0
INVARIANTS
  EachRecordIsALine
