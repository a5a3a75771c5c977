SPECIFICATION Spec
CHECK_DEADLOCK FALSE
CONSTANTS
  dA = dA
  dB = dB
  j1 = j1
  kA = kA
  kA2 = kA2
  kB = kB
  kL = kL
  caA = caA
  caB = caB
  audX = audX
  audY = audY
  NONE = NONE
  BAD = BAD
  PLACEHOLDER = PLACEHOLDER
  MALFORMED = MALFORMED
  BADFORMAT = BADFORMAT
  Uris = {}
  Namespaces = {}
  Operations = {}
  MaxLineage = 128
  Configs <- MCConfigs
  HostAudiences <- MCHostAudiences
  Presentations <- MCPresentations
  Instants = {1}
INVARIANTS
  AcceptedIsBound
  UntrustedHasCause
  AllOrNothing
