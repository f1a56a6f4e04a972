------------------------------ MODULE MetricCycles ------------------------------
(* A saved metric, the queue of the tenants' cycles that decides when its        *)
(* calculations are looked for, and the inbox whose records it counts.  They     *)
(* share no state.                                                               *)
EXTENDS SavedMetrics

CONSTANTS
  Tenant, Configured, Concurrency,
  Batch, Record, home, place, fact, Unreadable, Forgettable, Times, BatchLimit,
  MaxRetries, MaxThrows, None

VARIABLES
  pendingTenants, queue, active, closed, running, idleWaiter, pollInFlight, left,
  listening, stopping, exit,
  arrival, state, retries, blocked, raw, canonical, erased, deliveries, result,
  late, queued, drain, throws, orphaned, overtaken

Pool == INSTANCE TenantWorkCoordinator
Inbox == INSTANCE SdkInbox WITH
  MaxFaults <- MaxThrows, faults <- throws, receivedAt <- arrival

\* A drain ends exactly when nothing runs and nothing is left that could.
DrainIsExact == TypeOK /\ Pool!TypeOK /\ Pool!DrainIsExact

\* A tenant that waits for its cycle gets one.
TurnComes == Pool!TurnComes

\* An event has one record, but for an operator's retry of one of its batches or
\* a batch admitted behind a later one.
OneRecordPerEvent == Inbox!TypeOK /\ Inbox!OneRecordPerEvent

\* A processed batch has its lookups queued and its installs attributed.
SettledIsComplete == Inbox!SettledIsComplete

\* An install is attributed to its click whichever came first.
AttributionSettles == Inbox!AttributionSettles

\* Each batch of the inbox comes to an end.
BatchesEnd == Inbox!BatchesEnd
=================================================================================
