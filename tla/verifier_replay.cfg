SPECIFICATION FairSpec
CHECK_DEADLOCK FALSE
CONSTANTS
  dA = dA
  dB = dB
  t1 = t1
  t2 = t2
  j1 = j1
  j2 = j2
  j3 = j3
  kA = kA
  kA2 = kA2
  kB = kB
  kL = kL
  caA = caA
  caB = caB
  audX = audX
  audY = audY
  NONE = NONE
  BAD = BAD
  PLACEHOLDER = PLACEHOLDER
  MALFORMED = MALFORMED
  BADFORMAT = BADFORMAT
  Uris = {}
  Namespaces = {}
  Operations = {}
  MaxLineage = 128
  Trust <- MCVerifierTrust
  Jtis = {j1, j2, j3}
  Threads = {t1, t2}
  Presentations <- ReplayPresentations
  MaxEntries = 2
  MaxClock = 2
  MaxAccepts = 3
INVARIANTS
  TypeOK
  AtMostOnceWhileLive
  CacheHoldsLive
  ReplayHasCause
PROPERTIES
  FullCacheRecovers
  ImplementsSingleUse
