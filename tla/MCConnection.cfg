SPECIFICATION MCSpec
CONSTANTS
  c1 = c1
  c2 = c2
  closer = closer
  k1 = k1
  k2 = k2
  a1 = a1
  a2 = a2
  t1 = t1
  t2 = t2
  None = None
  NoSpec = NoSpec
  Caller = {c1, c2}
  Closer = closer
  Conn = {k1, k2}
  Tool = {t1}
  Account = {a1, a2}
  Setting <- Settings
INVARIANTS NoOrphan FailsOnlyByOthers NamedWritesAreConfirmed AdvertisedCoversGranted
PROPERTIES EveryCallEnds
