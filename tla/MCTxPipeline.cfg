SPECIFICATION FairSpec
CONSTANTS
  t1 = t1
  t2 = t2
  c1 = c1
  c2 = c2
  Txs = {t1, t2}
  Callers = {c1, c2}
  RefSlot <- MCRefSlot
  MaxAge = 1
  Capacity = 2
  MaxSubmits = 4
  MaxCrashes = 1
  MaxFailures = 1
INVARIANT BlocksReplayCommits
INVARIANT IndexNamesItsBlock
INVARIANT SuccessNamesItsBlock
INVARIANT AppliedOnceUnlessRaced
PROPERTY SuccessStays
PROPERTY PendingResolves
CHECK_DEADLOCK FALSE
