SPECIFICATION Spec
CHECK_DEADLOCK FALSE
CONSTANTS
  t1 = t1
  t2 = t2
  n1 = n1
  k1 = k1
  k2 = k2
  NONE = NONE
  PLACEHOLDER = PLACEHOLDER
  MALFORMED = MALFORMED
  BADFORMAT = BADFORMAT
  Uris = {}
  Namespaces = {n1}
  Operations = {}
  MaxLineage = 128
  Threads = {t1, t2}
  Keys = {k1, k2}
  Requested = {"none", "read", "append", "write", "other"}
  Subjects <- MCSubjects
  MaxCalls = 3
INVARIANTS
  TypeOK
  UncontendedTaint
  UncontendedReads
  RuntimeAndStoreAgree
PROPERTIES
  AppendCreates
