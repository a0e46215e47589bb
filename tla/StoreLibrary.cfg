CONSTANTS
  t = t
  r = r
  Threads = {t, r}
  Refreshers = {r}
  TTL = 1
  BuildBound = 1
  Horizon = 3
  MaxWrites = 2
  OverflowChecks = TRUE
  Nobody = Nobody
  NoCache = NoCache
SPECIFICATION FairSpec
INVARIANTS RefreshIsSeen
PROPERTIES OnlyRefreshGoesBack LockIsReleased EveryCallReturns
