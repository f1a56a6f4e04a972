# openmasu: TLA+ specifications, model checking and proofs

openmasu is a self-hosted measurement system: SDKs, platforms and operators send evidence, an API
makes it durable, workers project and evaluate it tenant by tenant, and a privacy deletion can take
it out again. Its code runs in several processes over one PostgreSQL database, an encrypted payload
store on a file system, and provider APIs. Everything in this directory is about what those
processes do to each other: who may commit, what survives a crash, what a lost answer leaves behind,
what a deletion reaches.

Contents

1. [How to run](#how-to-run)
2. [What is here](#what-is-here)
3. [Inventory of the system](#inventory-of-the-system)
4. [The modules and the code](#the-modules-and-the-code)
5. [The runs](#the-runs)
6. [Fairness, and why the code justifies it](#fairness-and-why-the-code-justifies-it)
7. [What is proved](#what-is-proved)
8. [Where documents and code disagree](#where-documents-and-code-disagree)
9. [What is only model-checked, what is not modelled](#what-is-only-model-checked-what-is-not-modelled)
10. [Plan](#plan)

## How to run

    tlasany TenantCycle.tla                               # parse
    tlc -workers 2 -config TenantCycle.cfg MCTenantCycle  # check
    tlapm TenantCycle_proofs.tla                          # prove

`PROJECT.json` lists the components, the runs with their configurations, the source lines each
definition stands for, and for each property one mutant: a definition marked "bug" or "Mutant" in
the modules that changes the mapped definition the way a plausible bug would, and under which the
property fails. A mutant is never part of `Next`; it shows that the property says something about
the code.

## What is here

| Module | What it models | Checked by | Proved |
| --- | --- | --- | --- |
| `TenantCycle` | one tenant's worker cycles, `apps/runtime/src/tenant-cycle.ts` | `tenant_cycle` | `TenantCycle_proofs` |
| `FencedLog` | what a cycle promises (abstract) | as `ImplementsFencedLog` in `tenant_cycle` | refinement in `TenantCycle_proofs` |
| `PrivacyDeletion` | admission, projection, recognition and purge around one app's deletion: `ingest-batch.ts`, `sdk-worker.ts`, `privacy.ts`, `privacy-purge.ts`, `privacy-fence.ts` | `payload_store`, `privacy_batches`, `privacy_captured`, `privacy_barrier` | `PrivacyDeletion_proofs` |
| `WorkerSchedule` | one scheduled job's claim and lease, `apps/runtime/src/scheduler.ts` | `tenant_cycle` | `TenantCycle_proofs` |
| `GoogleConversion` | the outbox of conversions for one Google destination: discovery, request, diagnostics, `apps/worker/src/google-conversion-worker.ts` | `worker_jobs` | `GoogleConversion_proofs` |
| `AdServicesLookup` | a provider queue with claims, retries and a protected response, `apps/worker/src/adservices-worker.ts` | `adservices`, `adservices_lost_answer` | `AdServicesLookup_proofs` |
| `PayloadStore` | the payload store's lease, recovery, write, read, purge and key rotation, file by file: `apps/runtime/src/payload-store.ts` | `payload_store` | `PayloadStore_proofs` |
| `TenantWorkCoordinator` | the worker's in-process queue, polls and shutdown: `tenant-work-coordinator.ts`, `main.ts` | `saved_metrics` | `SavedMetrics_proofs` |
| `BulkExport` | one operator-owned object storage: discovery behind a cursor, delivery, deletion rows, `apps/worker/src/operator-bulk-export-worker.ts` | `worker_jobs` | `BulkExport_proofs` |
| `OperatorWebhook` | one webhook destination: outbox, notices, signing revisions, recovery, `operator-webhook-worker.ts`, `operator-webhook-recovery.ts`, `operator-webhooks-admin.ts` | `worker_jobs` | `OperatorWebhook_proofs` |
| `CostRefresh` | one cost schedule and its backfills under one lease, `cost-refresh-worker.ts`, `cost-backfills.ts` | `worker_jobs` | `OperatorWebhook_proofs` |
| `SavedMetrics` | the runs of one saved metric and what supersedes them, `metric-recalculation-worker.ts`, `automatic-metric-corrections.ts`, `metric-schedule-worker.ts`, `privacy-metrics.ts` | `saved_metrics`, `saved_metrics_watermark` | `SavedMetrics_proofs` |
| `SdkInbox` | the drain of one tenant's inbox down to records, attributions and provider lookups: `processSdkInbox` with `decide`, `makeAttribution` and `ingestRuntimeBatch`; the operator's retry, `ingest-recovery.ts` | `saved_metrics`, `inbox_crash`, `inbox_second` | `SavedMetrics_proofs` |

Four modules put parts side by side that share no state, and name their properties:

| Module | Extends | Instantiates |
| --- | --- | --- |
| `WorkerClaims` | `TenantCycle` | `WorkerSchedule` |
| `PayloadDeletions` | `PayloadStore` | `PrivacyDeletion` with its proofs |
| `WorkerJobs` | `OperatorWebhook` | `BulkExport` and `GoogleConversion` with their proofs, `CostRefresh` |
| `MetricCycles` | `SavedMetrics` | `TenantWorkCoordinator`, `SdkInbox` |

The proof module of what such a module extends extends the module too, so that its theorems are about
the definitions that a run checks. `MCTenantCycle`, `MCPayloadStore`, `MCWorkerJobs` and
`MCSavedMetrics` extend the four, give constants to TLC and let the first state pick the part (or the
setting of it) that runs, while the others stay in their first state. `MCAdServicesLookup` does it with two settings of one part, and
`MCPrivacyDeletion` only gives constants.

## Inventory of the system

Paths are below `src/`. "Hard" names the behaviour a test would hardly reach, "Correct" what has to
hold whatever happens.

### Parts that are modelled

**tenant-cycle** (`apps/runtime/src/tenant-cycle.ts`). *State*: the row of the tenant in
`control.worker_tenant_cycles` (generation, owner token, status, interrupted count), a session
advisory lock on an owner connection, and in each worker a `CycleFence` with the clients it
borrowed. *Operations*: take the tenant or return "busy", advance the generation, run the jobs over
borrowed pools whose every COMMIT re-reads the row `FOR SHARE`, record an outcome, unlock. *Hard*: a
COMMIT in flight against the next owner's advance; a session that dies before its client hears of
it; an outcome that arrives late. *Correct*: publications carry the current generation, in order,
before its outcome; a live cycle is never fenced out; interruptions are counted exactly; a new owner
is not kept out by an old one's leftovers.

**worker-schedule** (`apps/runtime/src/scheduler.ts`). *State*: a row per tenant and job in
`control.worker_job_schedules` (claim token, expiry, next run), the job's advisory lock, and in each
call a connection, a heartbeat timer and a `leaseLost` flag. *Operations*: claim, renew, complete,
fail, unlock. *Hard*: answers lost after COMMIT, a task that outlives its lease, a renewal in flight
when the task settles, workers with clocks behind. *Correct*: a reported success is recorded for
this very claim; a claim is replaced only when lease and session are both gone; however a run ends,
the job comes free.

**tenant-work-coordinator** (`apps/worker/src/tenant-work-coordinator.ts`, `main.ts`). *State*: the
pending set, the queue, the count of active cycles, the waiter of the shutdown, the poll in flight.
*Operations*: submit, pump, end of a cycle, poll with its listing and heartbeats, stop, drain,
deadline. *Hard*: a poll in flight that submits around the signal; the last cycle settling around
the registration of the waiter; more tenants than slots. *Correct*: one cycle per tenant, no idle
slot, an exact drain, a turn for every configured tenant.

**payload-store** (`apps/runtime/src/payload-store.ts`, `apps/worker/src/payload-rewrap-cli.ts`).
*State*: files: `objects/`, `keys/`, the wrapping-key state with its cursor, staging files, the
lease directory and the reclaim directory. *Operations*: write, read, purge, rewrapBatch, lease
acquisition, reclaim of a dead owner's lease, offline recovery. *Hard*: processes killed between any
two file operations; the lease moved by its path; a rotation resumed by another process over objects
purged meanwhile; reads without the lease. *Correct*: one live owner; a ready store is wholly
rewrapped; the purged stays purged, the kept readable; "not found" proves removal.

**durable-inbox** (`ingest-batch.ts`, `inbox-admission.ts` in `apps/runtime/src`). *State*:
`ledger.ingest_batches` and its current state; the body in the payload store. *Operations*:
`appendDurableBatch` with the body before or inside the admission transaction, and its undo. *Hard*:
a COMMIT whose answer is lost while the catch purges the body. *Correct*: what the client was told is
durable keeps its row and body.

**sdk-inbox-worker** (`apps/worker/src/sdk-worker.ts`, `apps/worker/src/ingestion/`,
`apps/api/src/ingest-recovery.ts`). *State*: the rows it drains with their current state, the
ledger's records, deliveries, logical events, attributions and facts, consent projections. *Operations*:
select, take the privacy barrier, decode, judge, project each record, write receipts, late
attributions and the queues of lookups, finish, fail; the operator returns a failed row. *Hard*: rows
selected before the barrier; a barrier that ends without the worker's knowledge; a drain that ends
between a record's transaction and its batch's receipt, whose next attempt meets its own records; a
resend, an install or a click on the other side of such an end. *Correct*: nothing inside a
recognized deletion becomes a live record; an event has one record; a processed batch has had every
step; attribution does not depend on the order of arrival.

**attribution-core** (`packages/attribution-core`). *State*: none. *Operations*: `decide` (unique,
duplicate, conflict, collision, refusal), `makeAttribution`, and the evaluation of fraud, corrections
and metric runs. *Correct*: the same artifact for the same evidence. Decisions and install attribution
are modelled, in `SdkInbox`, as what a drain does with them; the rest is pure functions of large
records.

**privacy-deletion** (`privacy-fence.ts`, `privacy-purge.ts` in `apps/runtime/src`,
`apps/api/src/privacy.ts`). *State*: requests, jobs, one purge per protected reference, tombstones;
the tenant's barrier (an advisory lock, shared or exclusive). *Operations*: recognize under the
exclusive barrier, purge and verify each reference outside any transaction, complete. *Hard*: a
deletion waiting among shared holders that come and go; purgers that die between erasing and
marking. *Correct*: a completed deletion leaves no body behind; recognized scope stays out of the
live records; requests progress and jobs complete.

**sdk-ingestion** (`apps/api/src/sdk-routes.ts`, `sdk-auth.ts`). *State*: credentials, nonces,
request limits. *Operations*: authenticate, append, acknowledge. *Correct*: a nonce is accepted once;
a deleted installation's credential is refused. Only the receipt time, the credential check and the
acknowledgement are modelled (in `PrivacyDeletion`).

**adservices-lookup** (`apps/worker/src/adservices-worker.ts`). *State*: a queue row with attempts
and a claim, results, protected responses. *Operations*: queue, claim, ask Apple, reschedule, drop,
complete, purge on failure. *Hard*: the provider's answer against the lease, completion against
deletion, a COMMIT's lost answer, a second queueing in the middle of a completion. *Correct*: the
deletion's snapshot covers every response that becomes a result; a finished lookup is not queued
again; the store holds the result's response and no stray one; a lookup ends.

**operator-bulk-exports** (`apps/worker/src/operator-bulk-export-worker.ts`,
`apps/api/src/operator-bulk-exports-admin.ts`). *State*: a destination with a checkpoint of two
cursors (receipt time and record of an event, sequence of a deletion), batches with their bodies,
credential revisions. *Operations*: discover one batch behind the cursors, PUT it with the
destination's lock held, move the cursors, retry, pause on rejected credentials, rotate, disable; a
deletion adds its row and suppresses what is pending. *Hard*: a PUT that lands after its sender gave
up and its batch was suppressed; a lost COMMIT whose catch purges a live body. *Correct*: the cursor
moves only with the object; nothing of a recognized deletion is sent; a copy that left is followed by
its deletion row.

**operator-event-webhooks** (`operator-webhook-worker.ts`, `operator-webhook-deletions.ts` in
`apps/worker/src`, `operator-webhook-recovery.ts` in `apps/runtime/src`,
`apps/api/src/operator-webhooks-admin.ts`). *State*: delivery rows with a body and a pinned signing
revision, notices of deletions, previews and confirmations of recoveries. *Operations*: prepare and
record a delivery, send with the record's and the destination's locks held, finish, purge, recover,
rotate, retire, opt in or out of notices, disable. *Hard*: a body purged late, when its row is
waiting again; a deletion between preparation and record. *Correct*: nothing of a recognized deletion
is sent, what waits is readable, every delivered subject's deletion is notified.

**google-data-manager-delivery** (`apps/worker/src/google-conversion-worker.ts`,
`google-conversion-delivery.ts`, `apps/api/src/google-data-manager.ts`). *State*: a row per verified
purchase and destination with its claim, attempts, request id and deadline; its encrypted body; the
results; the destination's revisions and its next request. *Operations*: discover, claim, check under
the locks, ask, record, poll the diagnostics, expire, purge, configure. *Hard*: no transaction is open
while a request is out, and the claim, the privacy state and the revision may change meanwhile.
*Correct*: the results are one gapless history that agrees with the row; what waits has its body and
no body is left behind; an accepted conversion ends.

**cost-refresh** (`apps/worker/src/cost-refresh-worker.ts`, `apps/api/src/cost-backfills.ts`,
`cost-schedules.ts`). *State*: a checkpoint with the pending and the last range, one lease for the
daily range and for the days of confirmed backfills. *Operations*: claim a day or the range, acquire
outside any transaction, complete or fail, confirm a plan, disable. *Hard*: a late answer after the
lease; a worker killed at its last attempt of either kind. *Correct*: nothing is imported twice, and
every claim ends.

**scheduled-metrics** (`metric-schedule-worker.ts`, `metric-recalculation-worker.ts`,
`automatic-metric-corrections.ts` in `apps/worker/src`, `privacy-metrics.ts` in `apps/runtime/src`).
*State*: runs with the records they refer to and count, watermark and predecessor, receipts of committed records, items
with a lease, the correction policy. *Operations*: compute a date, plan a receipt, request a
recalculation, claim and calculate an item, pause. *Hard*: records received early and committed late;
deletions in the middle of a calculation; items of three kinds for one run. *Correct*: one head per
lineage; a late record reaches it as long as its evidence is there, a deleted one leaves it; a pause
publishes nothing.

### Parts that are not modelled (yet)

| Component | State and operations | What makes it correct | Why not here |
| --- | --- | --- | --- |
| postgres-ledger (`db/schema.sql`) | tables, row security, append-only triggers, grants | tenants see their own rows, evidence is append-only | every module takes from it atomic transactions, row locks, unique constraints and session locks |
| server-event-ingestion | server keys; the SDK's inbox | as sdk-ingestion, with a server key | same inbox; its authentication is planned with the SDK's |
| max-receiver | same inbox, another decoder | as sdk-ingestion | decoding only |
| apple-postback-receiver | one idempotent insert per verified postback | replay and conflict are told apart | cryptographic verification and one insert |
| redirector (`apps/redirector`, `packages/redirector-core`) | appends one click per request | only stored destinations | one insert and pure URL policy |
| admin-api, dashboard | one transaction per handler, over tables of other parts; views | roles; optimistic revisions | no protocol of their own; the handlers that meet a worker are in its module (`ingest-recovery.ts`, the webhook and cost administration) |
| import-worker (`apps/worker/src/import`) | import runs with checkpoints and rejections | each logical row once; a resumed run skips and repeats nothing | planned |
| integrity-verifier, google-play-product-verifier, verified-commerce-lifecycle | provider queues, each with a claim of a database-clock lease, and results | as adservices-lookup, plus renewal orders, purchase bindings, cursors | planned: `AdServicesLookup` is the pattern they vary |
| recurring-comparisons | due comparisons and notifications | one result per due time | planned after scheduled-metrics |
| fraud-engine (`packages/fraud-rules`, `fraud-worker.ts`) | quarantines, two daily jobs | deterministic rules; quarantines end | rules are pure; the expiry of quarantines is planned |
| privacy-restore (`privacy-reapply.ts`, `backup.ts`) | a restored database and store | every completed deletion applied before release | planned on top of `PrivacyDeletion` and `PayloadStore` |
| production-control-plane (`bootstrap.ts`, `migration-engine.ts`, `upgrade.ts`) | roles, migrations | each migration once, in order, with its digest | run by one operator at a time |
| operational-observability | none | closed fields, no payloads | read-only |
| integrity-evidence (`packages/contracts`) | none: schemas and definitions | schemas are closed | data and validation |
| app-association | none: static documents | hosts belong to the tenant | a function of the configuration |
| sdk-android, sdk-ios | a bounded persistent queue, consent, identity resets, sessions | what is acknowledged leaves the queue once; a reset leaves nothing of the old identity | planned |
| unity-bridge | none | calls reach the native SDK | a facade |
| runtime-ci (`tools/`) | none | builds and documents agree | not part of the running system |

### How the parts interact

- API processes, any number of workers and the operator's tools share PostgreSQL and the payload
  store; they never call each other. What they share is rows, advisory locks and files.
- A worker's coordinator runs at most one cycle per tenant in its process; `runTenantCycle` makes
  that one cycle per tenant anywhere; inside a cycle the jobs run in order, the due ones through
  `runScheduledJob`; every transaction of a job goes through the cycle's fence.
- Admission (API), projection and provider completions (worker) hold the tenant's privacy barrier
  shared; the recognition of a deletion holds it exclusively.
- Bodies and responses are written to the payload store outside or inside a transaction, and purged
  outside; a row and its file can therefore disagree after any failure, and each module that has
  both says which disagreements are possible.

The module of one part uses the other's result rather than repeating it: `AdServicesLookup` takes
"only the current owner commits, and nobody becomes owner while a COMMIT is in flight" (`owner`,
`Fenced`, `Takeover`), which `TenantCycle_proofs` proves, and the order of recognition and purge of
`PrivacyDeletion`; `PrivacyDeletion` takes a store whose write, read and purge of one object are
each one step, which `PayloadStore` justifies (`ErasedStaysErased`, `NotFoundMeansErasing`,
`KeptStaysReadable`); `TenantWorkCoordinator` takes cycles that may or may not settle. `BulkExport`,
`OperatorWebhook` and `SavedMetrics` take a recognition as one step under the barrier and its purges
as done by the deletion's job, which `PrivacyDeletion` checks; and, as jobs of one cycle, one
discovery and one delivery at a time, which `TenantCycle` and `TenantWorkCoordinator` give.

## The modules and the code

### TenantCycle and FencedLog

`Cycle` is the set of calls of `runTenantCycle` for one tenant, by any process; `Conn` the
connections of the borrowed pools. The two ends of a connection are separate variables: `session`
and `txn` are the server's, `phase`, `active` and `closed` the client's. That is the heart of the
model: the server frees a dead session's lock before the client hears of it, and a COMMIT already
sent may land after its client is gone.

| Code | Model |
| --- | --- |
| `pg_try_advisory_lock`, "busy" | `TryLock`, `Busy` |
| `INSERT ... ON CONFLICT DO UPDATE`, its COMMIT, its failure | `AdvanceRow`, `AdvanceCommitted`, `AdvanceFails` |
| `new CycleFence`, the task starts | `StartTask` |
| BEGIN, the check `FOR SHARE`, COMMIT of a borrowed client | `BeginTxn`, `SendCheck`, `CheckPasses` or `CheckFails`, `SendCommit`, `CommitLands` or `AbortTxn` |
| the task ends, `fence.close()` | `EndTask`, `CloseFence` |
| the outcome's UPDATE and COMMIT, unlock, a failing finally | `RecordOutcome`, `OutcomeCommitted`, `Unlock`, `FinishFails` |
| the owner session dies, the client hears, the process dies | `SessionDies`, `OnLoss`, `Crash` |

`ledger` (the generations of committed writing transactions) and `history` (the status of each
generation) are history variables; the first becomes the abstract `log`. Standalone statements are
wrapped by the code in the same BEGIN, check and COMMIT and need no action of their own. The token
of an owner is the identity of its cycle.

`FencedLog` is the promise: an epoch that only grows, open until sealed, and a log to which only the
newest open epoch publishes. The refinement maps `epoch` to the row's generation, `open` to its
status being "running", `log` to `ledger`.

### PrivacyDeletion

One tenant, one app, the batches of its SDK inbox, each with one protected body and one record; the
deletion requests of an installation or of the app; purgers that run
`processPrivacyDeletionRequest`. `Admission` are the batches whose body is written inside the admission
transaction, by a process with `OPENMASU_INBOX_ADMISSION_ENABLED`; the others' is written before it.

| Code | Model |
| --- | --- |
| receive, write the body, append under the shared barrier, answer, undo, crash | `Receive`, `StoreBody`, `OpenAppend`, `RefuseAppend`, `AppendLands`, `Acknowledge`, `AppendFails`, `UndoBody`, `AppendCrashes` |
| `processSdkInbox` | `SelectWork`, `EnterBarrier`, `Suppress`, `Decode`/`DecodeFails`/`DecodeThrows`, `Project`, `MarkPost`, `ReleaseBarrier`, `MarkProcessed`, `ProjectionFails`, `WorkerCrashes` |
| the barrier's backend dies | `LoseBarrier` (where `SessionLoss`) |
| `executePrivacyRequest` | `Request`, `Recognize`, `RequestCrashes` |
| `processPrivacyDeletionRequest` | `StartPurge`, `PurgeReference`, `MarkPurged`, `CompleteJob`, `PurgeFails` |

The records of a drain are projected in a transaction each (`Project`), so a failure may leave some
of them projected; the rows move on only when all are.

Abstractions: one clock for all processes, with ties (a difference between clocks widens the window
of the first finding, it makes no new one); a recognition is one transaction and so one step once
the barrier is free; limits of the admission control refuse at any time; the other tables a
recognition empties go with the record.

### WorkerSchedule

The row, the advisory lock, and any number of calls of `runScheduledJob` for one job. As in
`TenantCycle` a connection has a client's end (`link`) and a server's (`backend`); a statement has a
fate (`sent`, `matched`, `unmatched`, `aborted`) that its caller may or may not hear. Each
transaction of the store is one statement, as nothing of it is visible before COMMIT. Every
statement carries the `Date` its caller read, which may lag behind by `Lag`: PostgreSQL's clock plays
no part in this code.

| Code | Model |
| --- | --- |
| connect, try the lock, claim, "not due", their failures | `Start`, `TryLock`, `LockTaken`, `ConnectFails`, `Claimed`, `NotDue`, `ClaimThrows` |
| the heartbeat's renewal and its answer | `Heartbeat`, `Renewed` |
| the task settles, a renewal in flight is awaited | `TaskSettles`, `SendOutcome` (waits for no answer) |
| complete, fail, `releaseLease`, the catch | `CompleteAnswered`, `FailAnswered` with `Unlock` |
| crash, broken socket, server | `Crash`, `LinkBreaks`, `BackendEnds`, `ServerCommits`, `ServerAborts` |

### AdServicesLookup

One install record's queue row from `queueAdServicesLookup` to its result. A response in the payload
store carries the name of the claim that wrote it. Leases run out at any time (`LeaseExpires`), a
due time comes at any time (`BecomesDue`), the token's 23 hours pass at any time (`TokenAges`). What
the provider answers is a free choice between final, not found and transient; the normalised context
is abstracted away. `inFlight` is a COMMIT the server has; it ends by `CommitLands` or
`CommitAborts` whether or not its worker is still waiting.

| Code | Model |
| --- | --- |
| claim, expired token, rate limit, token read, answers | `ClaimLookup`, `TokenExpired`, `RateLimited`, `ReadToken`, `FinalAnswer`, `NotFound`, `TransientAnswer` |
| reschedule, drop | `Reschedule`, `DropUnavailableToken` |
| `completeLookup` and its catch | `LockCompletion`, `WriteResponse`, `SendCommit`, `CommitLands`, `CommitAborts`, `AnswerLost`, `StatementFails`, `PurgeResponse` |
| `queueAdServicesLookup` as a statement with a snapshot | `QueueReads`, `QueueInserts` |
| the deletion of the record and its purges | `Recognize`, `PurgeToken`, `PurgeDoomed` |

### PayloadStore

One step is one change of the file system, because a process may be killed, and another may look,
between any two. `lock` is whose `owner.json` is in `.payload-operation.lock`, `guard` who made
`.payload-lock-reclaim`; staging files, key entries and object files are sets and functions of
objects; `keyState` is `wrapping-key-state.json`, with its absence as "key 0 is ready". A wrapping
key is its id. `secret` is the master key a process is configured with; `Reconfigure` is the restart
at the cutover.

| Code | Model |
| --- | --- |
| `withPayloadLock` | `Begin`, `Acquire`, `EnterGuard`, `GiveUp`, `Release` |
| `reclaimEndedOwner` | `ReadOwner`, `CleanStaging`, `Discard`, `LeaveGuard` |
| offline recovery (`payload-rewrap-cli.ts`) | `RecoverOffline` |
| `write`, `purge` | `WriteKey`, `WriteObject`, `WriteObjectFails`, `PurgeObject`, `PurgeKey` |
| `rewrapBatch` | `OpenBatch`, `PassEntry`, `StageEntry`, `RenameEntry`, `RefuseEntry`, `ClosePage`, `StageState`, `RenameState` |
| `read`, in the order of its file operations | `BeginRead`, `ReadKeyState`, `ReadObject`, `ReadKey`, `ThrowNotFound` |
| any operation throws; the process is killed | `WorkFails`, `Crash` |

Objects are numbers because a page follows the order of file names. A purge is only called for an
object whose write returned, as its callers do. A killed process never returns; its successor is
another identity, as the owner's file identifies a process by host, pid and token. Left out: ciphers
and digests, files of a wrong kind, the counts in the receipt, and the two scans that only read.

Two consequences the model shows and the code intends: a process killed inside the reclaim directory
leaves the lease to the offline recovery, and a write killed between its key and its object makes
every rotation refuse that entry (`RefuseEntry`), so the store never becomes ready until it is
removed by hand.

### TenantWorkCoordinator

One step is one turn of the event loop, in which the code between two awaits is atomic: a poll's
listing with the first submit, each heartbeat with the next submit, the end of a cycle with the pump
it causes. `Pump` is the loop of `#pump` in closed form: it starts the oldest queued tenants while
there is room. `Drained` is the win of the settled promises in `waitForWorkerDrain`, `Deadline` that
of its timer, which Node hears after settled promises. The end of the pools is part of the exit.

### BulkExport

An event is its place in the order (receipt time, record) of the checkpoint. Every transaction that
touches the destination holds its advisory lock to its end, so the one that is open is `tx` and all
others are steps taken while there is none.

| Code | Model |
| --- | --- |
| `discoverOperatorBulkExports`: candidates, body, row, lost answer, death | `Discover`, `DiscoverCommits`, `DiscoverUnheard`, `DiscoverDies` |
| `processOperatorBulkExports`: body, PUT, outcomes | `BodyMissing`, `Send`, `Confirmed`, `Rejected`, `Retried`, `Failed`, `SendDies` |
| the storage carries a PUT out, at any time | `Land` |
| `rotateOperatorBulkExportCredentials`, `disableOperatorBulkExportDestination` | `Rotate`, `Disable` |
| the deletion's transaction; the inbox's commit | `Recognize`, `Project` |

The purge of a body follows the commit that ends its batch and nothing reads the body in between, so
it is one step with it, or does not happen (`Purged`). `late` is the history of the events committed
behind an export that had already passed their receipt time; the code never exports those.

### OperatorWebhook

A row is keyed by its event or by the subject its notice is about; a body by its row and a number that
each recovery raises. `unpurged` are the bodies a process will purge after its commit, at any later
time. `unheard` is a history variable: the rows whose body fell to a catch that mistook a lost COMMIT
answer for a failure.

| Code | Model |
| --- | --- |
| `discoverOperatorWebhookDeliveries` | `Prepare`, `Record`, `RecordUnheard`, `PrepareDies` |
| `discoverOperatorWebhookDeletionNotifications` | `Notice` |
| `processOperatorWebhookDeliveries` | `Stop`, `BodyMissing`, `Send`, `Arrive`, `Accepted`, `Refused`, `Expired`, `SendDies`, `PurgeBody` |
| preview and confirmation of a recovery | `Preview`, `Lapse`, `Confirm` |
| administration | `Rotate`, `OverlapEnds`, `Retire`, `SetNotify`, `Disable` |

### GoogleConversion

`rows` has a row while the outbox has one; `claim` is who took it last and `live` whether the lease
still runs. A worker is at a `place` with its copy of the row, as the code carries it from the claim:
it has `written` a body without a row, `claimed` a row, seen the destination `bound`, decided that it
is `ending`, is `ready` to ask, `asking`, or `purging` the body of a row that ended. `resting` is the
destination's next request, `late` the deadline of the diagnostics. `leaked` and `unheard` are history
variables: bodies whose worker died before it could purge them, and rows whose body fell to a lost
COMMIT answer.

| Code | Model |
| --- | --- |
| `discoverGoogleConversionDeliveries`: body, row, lost answer | `Prepare`, `Record` |
| `claimGoogleConversionDelivery` | `Claim` |
| the privacy and destination check, the deadline, the body | `Check`, `Load` |
| `beginProviderRequest`, the request | `Begin`, `Answer` |
| `finalizeGoogleConversionDelivery`, the purge after it | `Finalize`, `Purge` |
| any exception, a lost answer, a crash | `Die` |
| the lease, the next attempt, the deadline, the destination's rest | `Lapse`, `Due`, `Late`, `Rested` |
| the deletion and its purges; a new revision | `Recognize`, `Erase`, `Configure` |

### CostRefresh

A claim is a pair of a backfill and a day; the daily range's is `Daily`. `worker` holds what each
worker claimed, until it completes, fails or is gone; leases run out at any time. What a source
answers is a choice between completion, a transient and a final failure.

| Code | Model |
| --- | --- |
| `claimBackfill` | `ClaimBackfill`, `EndDay`, `NoBackfill` |
| `claimRefresh` | `ClaimRefresh`, `NoRefresh` (with `Exhausted`) |
| `completeClaim`, `finishBackfill`, `failClaim`, a fenced or dead worker | `Complete`, `Fail`, `Abandon` |
| `confirmCostBackfill`, `disableCostSchedule` | `Confirm`, `Disable` |

### SavedMetrics

A run is the run it supersedes, the records its `evidence_refs` name, those of them it counted, and
its watermark. The references are all records up to the watermark, deleted ones too, with the
lifecycle they had: what was available then is `counted`. `EvidenceLost` looks at the present
lifecycle of all of them, as the planner and the worker do for late items, so a run that was
calculated after a deletion of something before its watermark has lost evidence from the start.
A calculation
reads its snapshot after it has the barrier, the run's lock and the item's row (`Begin`), and commits
them together (`Publish`); the schedule's calculation (`Compute`, `Persist`) has a snapshot and no
lock. A receipt is captured by a trigger of the record's own transaction (`Commit`).

| Code | Model |
| --- | --- |
| `processMetricSchedules`, one date | `ClaimDate`, `Compute`, `ComputeDies`, `Persist` |
| `planAutomaticMetricCorrections`, one receipt of late events | `Plan`, `PlanFails` |
| `claimNext`, `calculate` | `ClaimNext`, `NothingToClaim`, `Begin`, `EndEarly`, `Publish`, `Fail`, `Die` |
| `requestPrivacyMetricRecalculations`, `requestMetricRecalculation`, `saveMetricCorrectionPolicy` | `Recognize`, `Request`, `SetPolicy` |

### SdkInbox

`drain` is what `processSdkInbox` has in its variables: the rows (`work`), those that were pending
(`fresh`), the decisions of the evaluator (`judged`), its attributions (`found`), the step and what is
left of it (`todo`). A step of the model is one transaction of the code, so the drain can end between
any two. Reading and judging are one step, because nothing else writes what they read: the worker's
lock keeps other drains and the operator out, the tenant's fence the deletions.

| Code | Model |
| --- | --- |
| `appendDurableBatch` | `Receive` |
| the rows, the suppressed, the unreadable; `relevantLedgerHistory`; `decide`; `initialAttributionArtifacts` | `Select` with `History`, `Judge`, `Attributions` |
| `persistRawWithClient` to `persistLogicalWithClient`, a transaction per record | `Project` |
| `persistAttributionWithClient`, `persistLateAttribution` | `PersistAttribution`, `PersistLateAttribution` |
| the receipt "records complete, post-processing pending" | `Receipt` |
| the queue functions, the final state | `QueueLookup`, `Finish` |
| the catch of the drain, also when the database fails under it; a killed worker | `Abort` |
| `requestIngestRecovery` | `RequestRecovery` |
| a recognized deletion of the batch's installation | `Forget` |

Of a payload only what the judgement compares is kept (`fact`): event key, digest, click, whether the
click is in its window, whether a token for a provider comes with it, whether consent is refused.
`orphaned` is a history variable: the pending batches of a drain that ended without marking them (the
first disagreement below that concerns this module).

Batches are not admitted in the order in which they were received: a request takes the time of its
receipt before it writes the body and waits for its turn, so `Receive` picks any time that no other
batch has, and `overtaken`, another history variable, names those that came in behind a later one. A
drain reads and judges in the order of receipt; two batches with the same time are ordered by their
number, which is an order that distinct times have as well.

Two things the properties allow, since the code
does them: a resend drained together with a first delivery that consent refuses is an accepted
duplicate of a record that is not written; and after a drain that died, a conflicting record that it
wrote is in the history and turns the original, tried again, into the conflict.

## The runs

Six runs pass, six show a disagreement. `CHECK_DEADLOCK FALSE` is there because each instance
has a bounded number of calls and really ends (a lookup is answered, a process exits).

| Run | Instance | States | Properties |
| --- | --- | --- | --- |
| `tenant_cycle` | 2 cycles, 2 connections, 2 transactions; schedule: 2 calls, lease 1, interval 2, retry 1, lag 1, clock to 2 | 0.7 M | `CommitPinsEpoch`, `LiveCycleNotFenced`, `InterruptedAccounting`, `ImplementsFencedLog`, `TakeoverProgresses`, `OverReleasesAll`, `ReportedSuccessIsRecorded`, `TakeoverWaits`, `OverRunFreesJob` |
| `privacy_batches` | 2 batches of 2 installations, deletion of the app, one body inside the transaction and one before it, barrier may be lost | 6.1 M | `NoLiveCopyAfterCompletion` |
| `adservices` | 2 workers, 3 claims, lost answers; with crashes and takeovers, or without ("steady") | 0.3 M | `DeletionCoversResult`, `LookupIsNotPoisoned`, `NoStrayResponse`, `SteadyLookupEnds` |
| `payload_store` | a writer and a rotation on one host, both mortal, a reader that purges on another, 2 objects, 2 keys, pages of 1; deletions: 1 batch, deletions of its installation and of the app, 1 purger, body first, 1 clock tick | 0.4 M | `MutualExclusion`, `ReadyMeansRewrapped`, `ErasedStaysErased`, `NotFoundMeansErasing`, `KeptStaysReadable`, `DeadOwnerIsReclaimed`; `AcknowledgedIsDurable`, `RecognizedStaysOut`, `DeletionEnds` |
| `worker_jobs` | export: 2 events, one of them of a deleted subject, objects of 1 row, 2 attempts, 8 batches, 2 faults; webhook: 1 event, 2 attempts, 1 recovery, 2 revisions, 2 faults; costs: 2 workers, 2 days, 2 backfills of a day, 2 attempts; conversions: 1 conversion, 2 workers, 2 requests before the deadline, 2 revisions, 1 fault | 0.6 M | `NothingLeaves`, `PassedIsStored`, `PendingIsReadable`, `PublishedOnce`, `RowsAreAccountedFor`, `NoticesFollow`, `ClaimsEnd` |
| `saved_metrics` | 1 record and 2 workers with a fault; 2 records and 1 worker; 1 record, 1 worker with a fault and a pause; the queue: 4 tenants, 3 of them configured, 2 slots; the inbox: 3 batches, drains of 2, 1 retry of each, 2 faults, one batch admitted behind a later one; refusals: 4 batches, drains of 2, 1 retry of each, 1 fault | 0.4 M | `NoForks`, `PausePublishesNothing`, `LateInputReachesHead`, `DeletedLeavesHead`; `DrainIsExact`, `TurnComes`; `OneRecordPerEvent`, `SettledIsComplete`, `AttributionSettles`, `BatchesEnd` |
| `privacy_captured` (violation) | 2 batches, deletion of the app | - | `CapturedNeverLive` |
| `privacy_barrier` (violation) | as above, barrier may be lost | - | `RecognizedStaysOut` |
| `adservices_lost_answer` (violation) | as `adservices` without crashes | - | `EvidenceIsReadable` |
| `saved_metrics_watermark` (violation) | 1 record, 1 worker, no fault; a request may name a time to come | - | `LateInputReachesHead` |
| `inbox_crash` (violation) | the inbox of `saved_metrics` by itself | - | `LookupsFollowRecords` |
| `inbox_second` (violation) | the same | - | `NoSecondRecord` |

The type invariants are checked in the same runs, each as a conjunct of one property of its part
(`ReportedSuccessIsRecorded`, `LookupIsNotPoisoned`, `KeptStaysReadable`, `AcknowledgedIsDurable`,
`NothingLeaves`, `PublishedOnce`, `RowsAreAccountedFor`, `DrainIsExact`, `OneRecordPerEvent`); that of
`TenantCycle` is proved (`TypeInvariant`).

What they show:

- **tenant_cycle.** Through every loss, crash and COMMIT in flight of two cycles, a transaction that
  passed its check keeps the generation where it is until its backend ends it; a cycle whose session
  lives is never fenced out; the interruption count is exact; outside, all this
  is `FencedLog`; a cycle that has the lock gets the row, fails or is lost; a cycle that is over ends
  up holding nothing. For a job of the cycle: success is reported only where recorded; a claim without
  an outcome is replaced only when its lease is over and its backend gone, which is why a slow task
  with a late heartbeat is safe; an ended run frees the job.
- **privacy_batches.** Two batches drained together (one may be stopped while the other is
  projected), retried and undone around the deletion, even when the barrier is lost: completion
  leaves no readable body in scope. Safety only, as the instance is large.
- **adservices.** The completion of a lookup against its deletion, its second queueing, a takeover of
  the cycle and any failure; and, where no cycle is taken over, that it ends and that a deleted
  record's responses go.
- **payload_store.** Every kill point of a write, purge, page of a rotation, reclaim, and every
  interleaving with an unlocked read. Under one deletion of the installation and one of the app, in
  either order and overlapping: a recognized deletion's scope stays out of the live records, an
  acknowledged batch keeps row and body until captured, one whose COMMIT was in doubt loses its body
  only where its sender was answered with an error and is not processed without its record, a waiting
  recognition gets the barrier, a recognized one completes however many purges failed.
- **worker_jobs.** For the export and the webhook: the locks held from the read to the answer keep
  deleted events inside, whatever a process does in between; a copy that left is always followed by
  its deletion row or notice, also a copy the storage made after its batch was given up. For the
  costs: one lease for two kinds of claims neither imports twice nor locks one of them out. For Google: whatever worker answers last, also one
  whose claim ran out under its request, the results stay one history, bodies follow their rows, and
  what was accepted ends.
- **saved_metrics.** The lineage of a metric under every order of receipt, commit, plan, calculation
  and deletion; and every order of polls, failing polls, settling cycles, the signal and its deadline.
  For the inbox: through drains that throw or die anywhere, operator retries in any order and
  admission out of order, an event stays one record, a processed batch has its lookups and results, an install and its click
  find each other whichever came first, and no batch is left open.

**Bounds, and why they are enough.** Two cycles suffice for what a cycle can do to another: the row
carries only its last owner, the advisory lock only one holder, and a third cycle meets either the
state a second one meets or a row that is not its own. Two borrowed connections let one COMMIT be in
flight while another transaction is checked; two publications let the log have an order. (The proofs
remove these three bounds.) One batch against two deletions and two batches against one are the two
ways in which the parts of `PrivacyDeletion` meet: deletions meet only at a batch, batches only in a
drain; one tick separates a receipt from a request and lets them tie. Two calls of a job: a claim is
stolen from one by another; a lease of one tick, a lag of one and a clock to two let a lease run out
while held and be read as live by a late clock. One conversion meets two workers, a deletion and a
change of the destination; two requests have a first and a last before the deadline; one fault is a
claim that runs out under its worker, a death, or a lost answer. Three claims let
two workers and the row name a different one, and a claim that nothing names any more is used again;
`MaxAttempts` is the code's. In `PayloadStore` the
three processes are a dead owner, its reclaimer on the same host, and a third that acquires in
between or reads on another host, where a dead pid cannot be judged; two objects with pages of one
make the cursor count and a purge behind or before it; two keys are one rotation. Four tenants for
two slots make tenants wait, and one that is only listed now and then compete with those that always
are. In `BulkExport` objects of one row make the cursors stop between the events and between an event
and a deletion row, and the eight batches are more than two faults can use up, so that the bound never
keeps a row from being exported. In `OperatorWebhook` an attempt limit of one above the attempts
leaves one recovery. Two days with a range of two, two backfills and two workers let ranges overlap
and a day be asked for again; two attempts (three in the code) have a first, a last and none between.
In `SavedMetrics` two workers meet at one run, two records at one lineage, and a pause meets a
calculation; the settings are apart because together they are too many states, so a fault with two
records, and a pause with two workers, are not checked. In `SdkInbox` an install, its click and a
resend in drains of two can meet in one drain or in three in any order, and be apart by a failure; two
faults are one before a record and one after it (with a deletion, or with a batch admitted behind a
later one, there is one fault; the two are not combined). The refusals' four batches let a refused, an
accepted and a conflicting delivery of an event meet, and a body that cannot be read among them; that
body comes last, as its place changes nothing for the others. The proofs remove all these bounds.

## Fairness, and why the code justifies it

Safety properties are checked with or without fairness alike; liveness needs it. Nothing in the
specifications obliges a task to end, a client to call, or anything to fail.

- *A sent statement ends; an answer that came is handled* (`WF` on the server's commit or abort and
  on the client's next step): PostgreSQL and the event loop.
- *A dead connection is noticed by both ends* (`WF(phase = "done" /\ SessionDies)`,
  `WF(link = "down" /\ BackendEnds)`, `WF(OnLoss)`, `WF(closed /\ AbortTxn)`): sockets are closed with
  their process, and the code destroys the ones it gives up.
- *A lock request that waits is not overtaken for ever* (`SF(Recognize)`): PostgreSQL queues
  conflicting lock requests behind a waiting exclusive one. The row locks of `TenantCycle` need only
  `WF`, as the holders end by themselves.
- *What may fail each time does not fail every time* (`SF` on the claim of an aged lookup and on its
  completion; `ServiceFairness` of the coordinator as the premise of `TurnComes`): the code retries
  without a limit and can only promise something under this assumption. In `AdServicesLookup` it is
  confined to the path of an expired token, which asks nobody. A purger only gets `WF` for its next
  step: `DeletionCompletes` says that a deletion completes if its purges do not fail for ever, and that
  is its premise.
- *A dead owner's lease is reclaimed* (`WF` on the steps of a reclaim, `DeadOwnerIsReclaimed`): with the
  premise that processes of the owner's host enter the reclaim again and again, as
  `withPayloadLock` does every 10 ms while one waits. The code promises nothing to a host nobody calls
  from.
- *Timers fire, settled promises are heard* (`WF(StartPoll)`, `WF(Drained)`, `WF(Deadline)`).
- *The cycle comes back to a job, and leases run out* (`WF` on the discovery, the delivery, the claims
  and the plan, `WF(Expire)`, `WF(Cool)`, `WF(Purged)`): `main.ts` runs every job in each cycle, and the
  clock passes. Requests that land (`Land`, `Arrive`) and answers that come are fair too; faults are
  bounded (`MaxFaults`), so a job, or a drain of the inbox (`WF(Work)`), is tried without one at last. Events, deletions and administration
  owe nothing.
- *Several parts in one run.* The parts share no variable, and one that was not picked stays in its first
  state, where no fair action of it is enabled (`CostRefresh`, whose job polls, is fair only where it is
  picked). So the conjunction of the parts' fairness asks of each what its own specification asks.

## What is proved

The safety that the runs check, for every value of the constants. Each invariant follows from an inductive one that holds at first and that every step keeps; the proof of
that has one lemma per action or kind of action, and under it one step per conjunct it can disturb.
Nothing is assumed but what the table names, and TLC evaluates each of these assumptions in a run
(those of modules that a run instantiates as `ASSUME`s of its MC module).

| Module | Theorem | Statement | From |
| --- | --- | --- | --- |
| `TenantCycle_proofs` | `CycleInvariant`, `TypeInvariant` | `Spec => []Inv`, `Spec => []TypeOK` | `CycleAssumption`, `BoundAssumption` |
| | `PublicationsPinEpoch` | `Spec => []CommitPinsEpoch` | |
| | `LiveCyclesAreNotFenced` | `Spec => []LiveCycleNotFenced` | |
| | `InterruptionsAreExact` | `Spec => []InterruptedAccounting` | |
| | `OutcomesAreFinal` | `Spec => OutcomeIsFinal` | |
| | `CyclesImplementFencedLog` | `Spec => ImplementsFencedLog` | |
| | `SuccessIsRecorded` | `Job!Spec => []ReportedSuccessIsRecorded` | `Job!BoundAssumptions` |
| | `ClaimsAreNotStolen` | `Job!Spec => TakeoverWaits` | |
| `PrivacyDeletion_proofs` | `CompletionLeavesNothing` | `Spec => []NoLiveCopyAfterCompletion` | `ScopeAssumption` |
| | `AcknowledgedStays` | `Spec => [](TypeOK /\ AcknowledgedIsDurable)` | |
| | `RecognizedIsWithdrawn` | `Spec => []RecognizedStaysOut` | and `~SessionLoss` |
| `AdServicesLookup_proofs` | `DeletionCovers` | `Spec => []DeletionCoversResult` | `BoundAssumptions` |
| | `NoLookupIsPoisoned` | `Spec => []LookupIsNotPoisoned` | |
| | `ResponsesAreAccountedFor` | `Spec => []NoStrayResponse` | |
| `PayloadStore_proofs` | `LeaseExcludes`, `StagingIsExclusive` | `Spec => []MutualExclusion`, `Spec => []StagingIsTheOwners` | `ProcessAssumption`, `BoundAssumption` |
| | `CutoverIsSafe` | `Spec => []ReadyMeansRewrapped` | |
| | `ErasureIsFinal` | `Spec => []ErasedStaysErased` | |
| | `NotFoundIsEvidence` | `Spec => []NotFoundMeansErasing` | |
| | `KeptPayloadsAreReadable` | `Spec => []KeptStaysReadable` | |
| | `AcknowledgedBatchesStay`, `RecognizedBatchesStayOut` | those of `PrivacyDeletion_proofs`, as the run of `PayloadDeletions` has them | `DeletionAssumption`, the second `~SessionLoss` |
| `BulkExport_proofs` | `ExportKeepsInside` | `Spec => []NothingLeaves` | |
| | `CheckpointFollowsStorage`, `BulkTypes` | `Spec => []PassedIsStored`, `Spec => []TypeOK` | `BulkAssumption` |
| `OperatorWebhook_proofs` | `NoRequestAfterRecognition` | `Spec => []NothingLeavesAfterRecognition` | `KeysAreDistinct` |
| | `WaitingRowsHaveBodies` | `Spec => []PendingIsReadable` | `KeysAreDistinct` |
| | `WebhookTypes` | `Spec => []TypeOK` | `WebhookAssumption` |
| | `CostsArePublishedOnce` | `Cost!Spec => []PublishedOnce` | `Cost!CostAssumption` |
| | `JobsKeepInside`, `ExportsAreStored`, `ConversionsAreAccountedFor` | `[]NothingLeaves`, `[]PassedIsStored`, `[]RowsAreAccountedFor`, as the run of `WorkerJobs` has them | the parts' |
| `GoogleConversion_proofs` | `OutboxIsAccountedFor` | `Spec => [](TypeOK /\ RowsAreAccountedFor)` | `OutboxAssumption` |
| `SavedMetrics_proofs` | `LineageHasNoForks` | `Spec => []NoForks` | |
| | `PauseHolds` | `Spec => PausePublishesNothing` | |
| | `MetricTypes` | `Spec => []TypeOK` | `MetricAssumption` |
| | `NoWakeUpIsLost` | `Spec /\ Pool!Spec => []DrainIsExact` | `MetricAssumption`, `Pool!CoordinatorAssumption` |
| | `EventsHaveOneRecord` | `Inbox!Spec => []OneRecordPerEvent` | `Inbox!InboxAssumption` |
| | `ProcessedBatchesAreComplete` | `Inbox!Spec => []SettledIsComplete` | |
| | `ArrivalOrderDoesNotMatter` | `Inbox!Spec => []AttributionSettles` | |
| | `InboxTyped` | `Inbox!Spec => []Inbox!TypeOK` | |

What the assumptions say: the bounds are numbers, positive where the code has a positive limit; a
sentinel is not one of the values it stands beside; scopes and hosts are functions on the batches,
deletions and processes; an attempt limit is not below the maximum it limits; a batch of the inbox has a record, and its records
have places of their own; tenants are a finite set
of numbers, which stand for their order. `~SessionLoss` is the exception, as it leaves out a failure:
`privacy_barrier` shows that the statement is false with it.

### The arguments

**`TenantCycle`.** None of the properties is inductive alone. `CommitPinsEpoch` speaks of a transaction
and the row; an advance disturbs it unless the row lock of a checked transaction excludes an
uncommitted UPDATE and the UPDATE is of the row as committed (`UpdateExcludes`), which needs that only
the holder of the advisory lock has a session that can update (`LockIsSession`), that a client's idea
of its session is one of a few combinations (`PhaseMatchesSession`), that a row still owned by an
unrecorded cycle is running (`OwnedIsRunning`, `SessionOwnsRow`), and that only an active fence has
usable clients (`OpenIsActive`). `Inv` is their conjunction. The count of interruptions is a
cardinality, for which a lemma relates the set of unrecorded generations before and after a step. The
refinement maps each step to `Advance`, `Seal`, `Publish` or a stutter.

**`WorkerSchedule`.** `JobInv`: a run's backend that lives holds the job's lock (`LockIsTheLivesOnes`),
so a claim can only be taken from a run whose backend is gone; and what the row recorded of a run is
what its last transaction wrote, whether or not the run heard of it (`OutcomeIsTheLast`), so a success
that is reported is there.

**`PrivacyDeletion`.** What completion leaves rests on what recognition captures: every row in scope has
been captured (`ScopeIsCaptured`), because an append that began before is excluded by the barrier and
one that begins later finds itself blocked (`AppendHolds`), and because a body is written only before
its row exists (`NoRowYet`), never again behind a purge that has verified its absence (`PurgedIsGone`).
`AcknowledgedIsDurable` is two facts: only the undo of an append that failed takes a body from a row
without a deletion (`LandedHolds`), and a row moves on only when its record is there
(`ProjectedHasRow`).
`RecognizedStaysOut` rests on the state that the projection read under the barrier staying true
(`WorkerHolds`), which needs the barrier for as long as it works.

**`AdServicesLookup`.** The three rest on what a COMMIT in flight counts on until it lands, while the
worker that sent it may have purged its response, died or claimed anew: its cycle is current, its row
is queued under its claim, the record is not deleted (`SentHolds`). The row lock and the barrier give
this, as they stay with the transaction and not with the worker (`LockHolds`), and for a worker
that queues the fence under which it read (`QueueingHolds`).

**`PayloadStore`.** Mutual exclusion is delicate: `reclaimEndedOwner` discards whatever lease is at the
path. The strengthening says why that is right: only one process is between reading the owner and
discarding (`GuardHeld`), and the owner it read is dead and its lease still there (`Condemned`),
because nobody else discards and the dead never release. `FreeIsClean` adds that no lease is given up
with a staging file behind it. The data come after that (`DataInv`): the owner is alone with the files,
every entry is under the store's key or, in a rotation, the next one (`KeysAreCurrent`), a name being
written is written by one process and has no key (`WritersAreApart`, `CallsFit`), and everything up to
the cursor of a verification is under the next key (`CursorIsVerified`, and of a batch that is about to
save its state `DraftIsVerified`).

**`BulkExport` and `OperatorWebhook`.** `NothingLeaves` speaks of the one request that is out. It becomes
inductive with two facts: nothing pending holds an event of a withdrawn subject (`PendingClean`: a
recognition suppresses all that holds one), and what a transaction has read stays as it read it until it
commits, because the recognition waits for its lock (`TxClean`, `TxOK`). `PassedIsStored` becomes so
with what a batch covers: of the events that are in time, it has each between its two cursors
(`Covers`, `PassInv`), because a page is a prefix of the candidates and nothing that comes behind the
cursor is in time. `PendingIsReadable` is where a body may be lost to a purge that comes late. It needs
that what is still to be purged is never the body of a waiting row nor one that a recovery is yet to
write (`DueIsPast`): a body's name has the number of the recovery that made it, and a purge is noted
by the commit that ended the row.

**`CostRefresh`.** `CostInv`: a worker whose lease lives acquires what the lease says (`WorkFits`), which
nothing has ended meanwhile (`ClaimFits`); a date has one backfill that has not failed
(`OldOnesFailed`); and what is published is complete, or behind the checkpoint (`ImportsFit`), so no
claim that lives asks for it again.

**`GoogleConversion`.** `OutboxInv` is about the copy of the row that a worker takes with its claim. While
the row names the worker, the copy is the row (`CopyFits`), so what it concludes is the next result of
the row's history, and the body it then purges is one no row waits with (`PurgerFits`, `WriterFits`); a
worker whose claim another has taken only finds that out.

**`SavedMetrics`.** Both `NoForks` and `PausePublishesNothing` follow from what a calculation holds from
its first statement to its commit (`LocksHeld`): the lock of the run it supersedes, so no two
calculations are of one run and that run has no successor yet; and the row of the policy, so that a
pause waits for it. `WorkersOK` and `ScheduleFirst` say that a worker's item and its source run are
there. Of the types two are more than shape: a claim that lives has counted its attempt, so a pause
that gives one back does not go below none, and what waits has one left (`Fits`, `ReceiptsTyped`).

**`TenantWorkCoordinator`.** `PoolInv`: each tenant that is pending is in the queue or at work, once
(`OneTurnEach`), so the counter and the queue together are empty exactly when no tenant is pending, and
the waiter was resolved at the step that made it so (`WaitIsExact`).

**`SdkInbox`.** The three properties speak of the ledger when batches have come to rest; `InboxInv` says
what a drain owes it at each of its steps, so that wherever it throws or dies, what it leaves is
something a later drain can be wrong about only in ways that are known.

- *One record* (`OneEach`) counts the records that an event has together with those that the drain has
  accepted and not written yet. It needs the order: when a record is accepted, those of its event that
  were received sooner are in batches that have ended or are excused by a retry or by their late
  admission, because a sooner open batch would be among the drain's rows and its record be judged
  first. `LedgerInv` says that a batch which is still pending and has records is one that a dead drain
  left (`orphaned`), and that whoever owns an event was accepted for it.
- *No event is lost* (`KnownInv`): of an event of which something was kept, a record is in the ledger or
  one was refused, or else the drain still has to write one that was received no later (`Heir`). This
  is where the order of the transactions counts: a conflict is written after what it conflicts with.
- *A record that nothing has spoilt* (no refused one before it, none of its event in an orphaned batch,
  no other accepted) is accepted by whichever drain takes it (`FairInv`), so when its batch awaits its
  post-processing it has its results and when it is processed also its lookups (`DoneInv`, with
  `FoundInv` for what the drain has stored of its attributions so far).
- *An install and its only click* (`Pair`): the drain that accepts the second of the two finds the
  attribution, since the first is in its history or accepted with it (`PairInv`), and once both are
  processed it is stored (`ValidInv`). A click accepted meanwhile only makes the pair no pair.

Three turns of the proofs are due to the prover. Induction over a predicate cannot be instantiated, so
where a largest or smallest element is needed (the page of a batch, the range of a date, the first
tenant of a poll) it comes from the well-foundedness of `<` on the numbers, for the one set in question.
`LET` and operators with primed arguments are named first (`PICK e : e = ...`). And the operators of a
module that is instantiated are the instance's own, so that, for `FiniteSets`, a lemma says that both
are the same (`SameCardinality`, `InboxCardinality`).

Each of these invariants was checked by TLC as an invariant of the passing run of its module before it
was proved: as it stands for `TenantCycle`, `WorkerSchedule`, `PrivacyDeletion`, `AdServicesLookup`,
`PayloadStore`, `GoogleConversion`, the types and the passed events of `BulkExport`, the types of
`SavedMetrics` and the coordinator; that of the inbox also on larger and on random sets of records.
Where an invariant says "is a sequence" as `\E S : f \in Seq(S)` or speaks of every number
(`SequencesOK`, `BatchesOK`, `BackfillsFit`, `DueIsPast`), which TLC cannot enumerate, it was checked
without that conjunct, the last of them over the purges that are due.

## Where documents and code disagree

Each is a run that must end in a counterexample; `PROJECT.json` has the lines.

1. **A captured batch goes live** (`privacy_captured`). `requested_at` is computed before the
   transaction waits for the exclusive barrier, and app and tenant scope block only what was received
   up to it. A batch received in between and admitted first is captured (its body is queued for
   purge) but not blocked, and the worker projects it. `docs/privacy-security.md` says a deletion
   either snapshots the completed projection or makes the batch `privacy_suppressed`. Installation
   scope has no such window.
2. **The barrier can end under the worker** (`privacy_barrier`). The projection holds the barrier on
   a connection of its own that runs no statement until its release, and writes through others. If
   that backend dies, recognition goes ahead in the middle of the projection.
   `NoLiveCopyAfterCompletion` survives this (`privacy_batches`), `RecognizedStaysOut` does not.
3. **A lost answer purges committed evidence** (`adservices_lost_answer`). `completeLookup` purges
   the response it wrote whenever the transaction throws, also when COMMIT was sent and only its
   answer was lost; if the server commits, the attribution says its evidence is available and the
   response is gone.
4. **A watermark taken for evidence** (`saved_metrics_watermark`). A receipt is completed without an
   item when the newest run's watermark is not before its cutoff. An administrator may ask for a cost
   recalculation with a watermark in the future; computed before a late record commits, it does not
   count it, and the record's receipt then counts as included.
   `docs/automatic-metric-corrections.md` says that a watermark alone cannot prove an input was
   visible. Without such a request `LateInputReachesHead` holds (`saved_metrics`), with the exceptions it names.
5. **A drain that dies costs the lookup** (`inbox_crash`). A record's transaction commits before its
   batch has a receipt, and a drain may end in between without marking the batch. The next drain does
   not leave the batch's own records out of the history (it does for those with a receipt and for
   an operator's retry), takes the record for a collision, queues no lookup for it, and
   the batch is processed; an install gets no attribution either. `docs/operations/observability.md`
   says that the worker retries batches whose records are complete but whose lookups are not queued.
6. **A retry that makes a second record** (`inbox_second`). The records of batches that the operator
   returned are left out of the history, also for other batches of the same drain. When a batch
   failed before its record, and its resend after, both are returned and drained together, the first
   is judged unique although the resend's record is there.
   `spec/event-metric-contract-v0.4.md` says a later delivery creates no second record.
   It also happens without an operator, when a batch is admitted behind one that was received later
   and both are drained while that one awaits its post-processing.
   `OneRecordPerEvent` says that without a retry or such an admission there is never a second.

## What is only model-checked, what is not modelled

Only model-checked:

- all liveness, since the prover does not reach fairness and `ENABLED`;
- that each part alone keeps its promises in a composition with others that share its state: where
  parts are put side by side here, they share none.

Every other invariant and every action property that a passing run checks is a theorem.
`OutcomeIsFinal` and `StagingIsTheOwners` are proved and no longer listed in a run.

Not modelled in the modelled parts: tenant scope and DSAR exports of deletions; consent and
withdrawal projections of the inbox, commerce, corrections, fraud, postbacks and deep links in what it
evaluates; comparison notifications, content
policies and the backfill of old subjects of webhooks; registration and object contents of exports;
adapters and imports of costs; several metrics per receipt, attribution revisions, automatic cost
receipts, requests for late events, replays, replacements and retention of schedules; the parsing of
limits and configuration; ciphers, digests and wording; the strengths of PostgreSQL's isolation beyond
what the code uses (statements and snapshots, row locks, unique constraints, session locks).

What the properties leave out on purpose, because the code does not give it: conversions whose record
is no longer available, or whose consent was withdrawn, without a deletion, are claimed and dropped
again for ever (so only what Google accepted is shown to end); events projected behind
an export's cursor; a late record whose receipt was planned before its day's run was saved, or whose
item failed during a privacy backlog or was skipped because another superseded its run first; every
late record of a lineage once a run of it refers to a deleted record (its replacements refer to it
too, so each later late item ends `unavailable`; the second record of `saved_metrics` reaches this,
and `docs/metric-corrections.md` says that late-input jobs refuse removed evidence); a run
the schedule computed before a deletion and saved after it; bodies that fall to a catch which mistook
a lost COMMIT answer for a failure. `PROJECT.json` has each at its line, and the hazards that have no
property with the reason.

## Plan

Order: first what everything else relies on (the fence, the deletion, the claims, the store), then
what varies it, then the clients.

Done: `TenantCycle` with `FencedLog`, `PrivacyDeletion`, `WorkerSchedule`, `AdServicesLookup`,
`PayloadStore`, `TenantWorkCoordinator`, `BulkExport`, `OperatorWebhook`, `CostRefresh`, `SavedMetrics`,
`GoogleConversion`, `SdkInbox`;
the proofs above.

Next, modules:

1. `SdkInbox`: the consent and withdrawal projections (the comment at `sdk-worker.ts:1042` says a row
   remains retryable where the catch marks it failed, though an operator may retry it), purchases with
   refunds, and their corrections.
2. An abstract outbox that `OperatorWebhook` and `BulkExport` implement (bounded attempts, results in
   order, cursors only after the object), and the parts of them named above as left out.
3. `SavedMetrics`: several metrics per receipt with pages, attribution and automatic cost receipts,
   the schedule's replay after a crash (a deletion in between makes it a mismatch that comes back in
   each cycle), its replacement.
4. The variations of the provider queue: integrity, Google Play (renewal
   orders), commerce readback (cursors). An abstract `ProviderQueue` (a current claim completes once; a
   stale one writes nothing) that these, `CostRefresh` and `AdServicesLookup` implement.
5. `ManagedImport`: sessions, row-level rejection, checkpoints, resume.
6. `RequestReplay` (`sdk-auth.ts`): timestamp window, nonces and their expiry, request limits.
7. `SdkQueue`: the Android and iOS queue, acknowledgement, identity reset, consent, crashes.
8. Compositions: `TenantCycle` with `WorkerSchedule` (a job inside a lost cycle), `PrivacyDeletion`
   over `PayloadStore` (each purge step as file steps), restore.
9. Pure algorithms as operators with reference definitions: retry delays and boundaries, schedule
   dates and lags, ingestion decisions (duplicate, conflict, accepted).

Next, proofs: that `OperatorWebhook` and `BulkExport` implement the abstract outbox and the claims the
abstract provider queue, once these are there; for the coordinator and the inbox, that a step of the
drain is always possible while a batch is open (the safety half of `BatchesEnd`).
