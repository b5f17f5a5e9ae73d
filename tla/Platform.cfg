SPECIFICATION PlatformSpec
CONSTANTS
  t1 = t1
  t2 = t2
  a1 = a1
  a2 = a2
  f1 = f1
  k1 = k1
  k2 = k2
  Tabs = {t1, t2}
  MaxNetFaults = 1
  MaxUserMoves = 2
  MaxFaults = 2
  MaxMoves = 3
  MaxVersion = 1
  Limits = {1, 2, 3}
  DefaultLimit = 2
  MaxTime = 7
  Flags = {f1}
  Admins = {a1, a2}
  Calls = {k1, k2}
  NotLoaded = NotLoaded
  OpenThreshold = 2
  MaxOutages = 2
  MaxUpdates = 2
CHECK_DEADLOCK FALSE
INVARIANTS SessionHolds LiveHolds
PROPERTIES IdleTimeCounts PlatformRecovers
