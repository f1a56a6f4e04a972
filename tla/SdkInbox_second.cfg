SPECIFICATION InboxSpec
CONSTANTS
  Records = {"r", "s"}
  Workers = {"v", "w"}
  MaximumAttempts = 2
  Ahead = 0
  MaxRequests = 1
  MaxPauses = 1
  MaxFaults = 1
  \* More tenants than slots; one of them is not in the configuration.
  Tenant = {1, 2, 3, 4}
  Configured = {1, 3, 4}
  Concurrency = 2
  Batch = {"a", "b", "c", "d", "e", "f", "g"}
  Record = {"install", "click", "resend", "early", "again", "expired", "changed", "lost"}
  home <- RecordHomes
  place <- RecordPlaces
  fact <- RecordFacts
  Unreadable = {"g"}
  Forgettable = {"b"}
  Times = {1, 2, 3, 4}
  BatchLimit = 2
  MaxRetries = 1
  MaxThrows = 2
  None = "none"
INVARIANT NoSecondRecord
\* The bounds on what happens are used up.
CHECK_DEADLOCK FALSE
