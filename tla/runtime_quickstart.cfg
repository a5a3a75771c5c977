SPECIFICATION Spec
CHECK_DEADLOCK FALSE
CONSTANTS
  t1 = t1
  t2 = t2
  dA = dA
  u1 = u1
  n1 = n1
  opA = opA
  opB = opB
  s0 = s0
  s1 = s1
  s2 = s2
  s3 = s3
  audX = audX
  kA = kA
  kX = kX
  NONE = NONE
  BAD = BAD
  PLACEHOLDER = PLACEHOLDER
  MALFORMED = MALFORMED
  BADFORMAT = BADFORMAT
  Uris = {u1}
  Namespaces = {n1}
  Operations = {opA, opB}
  MaxLineage = 128
  Trust <- MCRuntimeTrust
  SpanIds = {s0, s1, s2, s3}
  Roots <- MCRoots
  h1 = h1
  Hosts = {h1}
  Protected = {h1}
  Threads = {t1}
  Forgeries <- NoForgeries
  Asks <- FewAsks
  Requests <- FewRequests
  Issue <- FewIssue
  MaxEntries = 10
  MaxClock = 2
  MaxCalls = 2
INVARIANTS
  ReturnedChildIsNoReplay
