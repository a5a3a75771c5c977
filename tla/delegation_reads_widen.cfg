SPECIFICATION Spec
CHECK_DEADLOCK FALSE
CONSTANTS
  u1 = u1
  u2 = u2
  n1 = n1
  n2 = n2
  opA = opA
  opB = opB
  s1 = s1
  s2 = s2
  s3 = s3
  s4 = s4
  Token = Token
  NONE = NONE
  PLACEHOLDER = PLACEHOLDER
  MALFORMED = MALFORMED
  BADFORMAT = BADFORMAT
  Uris = {u1, u2}
  Namespaces = {n1, n2}
  Operations = {opA, opB}
  SpanIds = {s1, s2, s3, s4}
  Roots <- PermRoots
  Children <- PermChildren
  Requests <- PermRequests
  Attestations <- MCAttestations
  MaxLineage = 128
  MaxChain = 2
  MaxClock = 0
INVARIANTS
  ReadsNeverWiden
