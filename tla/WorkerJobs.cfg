SPECIFICATION MCSpec
CONSTANTS
  Events = {"e"}
  Subjects = {"a"}
  SubjectOf <- SubjectOfEvents
  MaximumAttempts = 2
  AttemptLimit = 3
  MaxRevisions = 2
  MaxFaults = 2
  LastEvent = 2
  BulkSubjects = {"a"}
  BulkSubjectOf <- SubjectOfNumbers
  MaximumRows = 1
  MaxBatches = 8
  BulkRevisions = 1
  Workers = {"v", "w"}
  LookbackDays = 2
  CostAttempts = 2
  LastDay = 2
  MaxBackfills = 2
  MaxDates = 1
  Conversions = {"c"}
  MaxAttempts = 2
  GoogleFaults = 1
INVARIANTS
  NothingLeaves PassedIsStored PendingIsReadable PublishedOnce RowsAreAccountedFor
PROPERTIES NoticesFollow ClaimsEnd
\* The bounds on what happens are used up.
CHECK_DEADLOCK FALSE
