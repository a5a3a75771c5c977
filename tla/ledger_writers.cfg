SPECIFICATION Spec
CHECK_DEADLOCK FALSE
CONSTANTS
  NONE = NONE
  TORN = TORN
  w1 = w1
  w2 = w2
  p1 = p1
  p2 = p2
  v1 = v1
  v2 = v2
  Processes = {w1, w2}
  Policies = {p1}
  Versions = {v1, v2}
  EventTypes = {"activate"}
  Reach = {"nothing", "prefix", "line", "unterminated"}
  MaxLines = 3
  MaxAttempts = 3
  MaxClock = 0
SYMMETRY WriterSymmetry
INVARIANTS
  MemoryIsFile
  AckedStaysInFile
  SealPinsHistory
PROPERTIES
  StaleAppendsShow
