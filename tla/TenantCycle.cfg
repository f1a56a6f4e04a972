SPECIFICATION MCSpec
CONSTANTS
  c1 = c1
  c2 = c2
  k1 = k1
  k2 = k2
  r1 = r1
  r2 = r2
  Cycle = {c1, c2}
  Conn = {k1, k2}
  None = None
  MaxPublications = 2
  Run = {r1, r2}
  Nobody = Nobody
  Interval = 2
  Retry = 1
  Lease = 1
  Lag = 1
  LastLease = 1
  Horizon = 2
INVARIANTS
  CommitPinsEpoch
  LiveCycleNotFenced
  InterruptedAccounting
  ReportedSuccessIsRecorded
PROPERTIES
  ImplementsFencedLog
  TakeoverProgresses
  OverReleasesAll
  TakeoverWaits
  OverRunFreesJob
\* Each cycle and each run ends, and the clock stops at its bound.
CHECK_DEADLOCK FALSE
