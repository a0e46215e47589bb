CONSTANTS
  Threads = {t1, t2, t3}
  Refreshers = {}
  TTL = 1
  BuildBound = 1
  Horizon = 4
  MaxWrites = 2
  OverflowChecks = FALSE
  Nobody = Nobody
  NoCache = NoCache
  t1 = t1
  t2 = t2
  t3 = t3
SPECIFICATION Spec
INVARIANTS TypeOK MutualExclusion BoundedStaleness AnswersMoveForward
PROPERTIES RebuildsAreSpaced RefinesSnapshotView
