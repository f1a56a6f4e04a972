----------------------------- MODULE WorkerJobs -----------------------------
(***************************************************************************)
(* Jobs of the worker that bring what a tenant recorded to others, or costs *)
(* in: the webhook outbox of a destination, the bulk export of another, the *)
(* cost schedule and the conversions of a Google destination.  They share   *)
(* no state.                                                                *)
(***************************************************************************)
EXTENDS OperatorWebhook

CONSTANTS
  LastEvent, BulkSubjects, BulkSubjectOf, MaximumRows, MaxBatches, BulkRevisions,
  Workers, LookbackDays, CostAttempts, LastDay, MaxBackfills, MaxDates,
  Conversions, MaxAttempts, GoogleFaults

VARIABLES
  bulkProjected, bulkWithdrawn, bulkActive, bulkTx, bulkFaults, bulkCheckpoint,
  late, deletions, revision, batches, flying, stored,
  costActive, today, checkpoint, lease, backfills, cooling, worker, published,
  converted, googleEnabled, googleRevision, resting, outbox, results, googleReadable,
  doomed, googleWorker, googleUnheard, leaked, googleFaults

Bulk == INSTANCE BulkExport_proofs WITH
  Subjects <- BulkSubjects, SubjectOf <- BulkSubjectOf, MaxRevisions <- BulkRevisions,
  projected <- bulkProjected, withdrawn <- bulkWithdrawn,
  active <- bulkActive, tx <- bulkTx, faults <- bulkFaults,
  checkpoint <- bulkCheckpoint

Cost == INSTANCE CostRefresh WITH
  MaximumAttempts <- CostAttempts, active <- costActive

Google == INSTANCE GoogleConversion_proofs WITH
  MaxFaults <- GoogleFaults,
  withdrawn <- converted, enabled <- googleEnabled,
  revision <- googleRevision, rows <- outbox, readable <- googleReadable,
  worker <- googleWorker, unheard <- googleUnheard, faults <- googleFaults

\* Neither a webhook nor an export sends an event of a subject whose deletion
\* is recognized.
NothingLeaves ==
  /\ TypeOK /\ NothingLeavesAfterRecognition
  /\ Bulk!TypeOK /\ Bulk!NothingLeaves

\* The storage has what the cursor of an export has passed.
PassedIsStored == Bulk!PassedIsStored

\* The import of a date's costs is not repeated.
PublishedOnce == Cost!TypeOK /\ Cost!PublishedOnce

\* The outbox of conversions agrees with the ledger and the payload store.
RowsAreAccountedFor == Google!TypeOK /\ Google!RowsAreAccountedFor

\* A receiver, or a storage, that holds an event of a deleted subject is told.
NoticesFollow == NoticeFollows /\ Bulk!NoticeFollows

\* A claim of the cost schedule, and what Google has accepted, come to an end.
ClaimsEnd == Cost!ClaimsEnd /\ Google!DiagnosticsEnd
=============================================================================
