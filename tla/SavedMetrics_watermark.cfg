SPECIFICATION Spec
CONSTANTS
  Records = {"r"}
  Workers = {"w"}
  MaximumAttempts = 2
  Ahead = 2
  MaxRequests = 1
  MaxPauses = 0
  MaxFaults = 0
PROPERTY LateInputReachesHead
\* The bounds on what happens are used up.
CHECK_DEADLOCK FALSE
