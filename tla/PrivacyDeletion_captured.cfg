SPECIFICATION Spec
CONSTANTS
  b1 = b1  b2 = b2
  i1 = i1  i2 = i2
  d1 = d1  d2 = d2
  Batch = {b1, b2}
  Installation = {i1, i2}
  Deletion = {d2}
  Purger = {p1}
  from <- MCFrom
  target <- MCTarget
  WholeApp = WholeApp
  None = None
  Admission = {}
  SessionLoss = FALSE
  MaxClock = 1
INVARIANTS
  CapturedNeverLive
CHECK_DEADLOCK FALSE
