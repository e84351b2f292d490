SPECIFICATION StreamSpec
CONSTANTS
  Followers = {f1, f2}
  MaxEvents = 2
  MaxDelivered = 5
  Cursors <- SomeCursors
  NoLog = NoLog
  Calls = {k1, k2}
  Clients = {c1, c2, c3, c4}
  MaxCloses = 2
  NoClient = NoClient
  Providers <- OneProvider
  Paths <- OneId
  Users <- TwoOwners
  Gens <- TwoGens
  StoreCalls <- OnePath
  None = None
INVARIANTS
  StreamIsWhole
  RecordedOnceFirst
  CacheIsLive
PROPERTIES
  GapOnlyWhenLapped
  StoresAtomically
  EveryFollowerEnds
  ReleasedAtLast
  NobodyElsesConnection
  EveryCallEnds
