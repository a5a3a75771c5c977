SPECIFICATION BSpec
CHECK_DEADLOCK FALSE
CONSTANTS
  t1 = t1
  t2 = t2
  dA = dA
  u1 = u1
  n1 = n1
  opA = opA
  opB = opB
  s0 = s0
  s1 = s1
  s2 = s2
  s3 = s3
  audX = audX
  kA = kA
  kX = kX
  NONE = NONE
  BAD = BAD
  PLACEHOLDER = PLACEHOLDER
  MALFORMED = MALFORMED
  BADFORMAT = BADFORMAT
  Uris = {u1}
  Namespaces = {n1}
  Operations = {opA, opB}
  MaxLineage = 128
  Trust <- BoundaryTrust
  SpanIds = {s0, s1, s2}
  Roots <- MCRoots
  h1 = h1
  h2 = h2
  Hosts = {h1, h2}
  Protected = {h2}
  Threads = {t1}
  Forgeries <- BoundaryForgeries
  Asks <- BoundaryAsks
  Requests <- BoundaryRequests
  Issue <- BoundaryIssue
  MaxEntries = 4
  MaxClock = 1
  MaxCalls = 2
  Requiring = {h2}
  BaseMetas <- MCBaseMetas
  Size <- MCSize
  MaxGcoBytes <- MCMaxGcoBytes
  PemKeys <- MCPemKeys
  PemKid = "k"
  Second = 2
INVARIANTS
  RootedAuthority
  IssuedIsRooted
  SentParentIsParent
  PreviewBacksNothing
  OneDecisionPerAttestation
PROPERTIES
  HonestRefusalHasCause
