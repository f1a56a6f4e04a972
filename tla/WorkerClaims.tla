----------------------------- MODULE WorkerClaims -----------------------------
(* The two claims of the worker: that of a tenant for a cycle, and inside a   *)
(* cycle that of a job in its schedule, by calls with lagging clocks.  They   *)
(* share no state.                                                            *)
EXTENDS TenantCycle

CONSTANTS Run, Nobody, Interval, Retry, Lease, Lag, LastLease, Horizon

VARIABLES
  clock, job, jobLock, link, backend, statement, waits, place, okay, leaseLost,
  result, outcome

Job == INSTANCE WorkerSchedule WITH row <- job, advisory <- jobLock, phase <- place

\* "succeeded" is reported only for an outcome the row has recorded.
ReportedSuccessIsRecorded == Job!TypeOK /\ Job!ReportedSuccessIsRecorded

\* A claim without an outcome is replaced after its lease and its backend.
TakeoverWaits == Job!TakeoverWaits

\* A run that is over leaves the lock of the job.
OverRunFreesJob == Job!OverRunFreesJob
===============================================================================
