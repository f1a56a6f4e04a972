-------------------------- MODULE PrivacyDeletion --------------------------
(***************************************************************************)
(* Privacy deletion of one app against the SDK inbox.                      *)
(*                                                                         *)
(*   admission    apps/runtime/src/ingest-batch.ts   appendDurableBatch    *)
(*   projection   apps/worker/src/sdk-worker.ts      processSdkInbox       *)
(*   recognition  apps/api/src/privacy.ts            executePrivacyRequest *)
(*   purge        apps/runtime/src/privacy-purge.ts                        *)
(*   the barrier  apps/runtime/src/privacy-fence.ts                        *)
(*                                                                         *)
(* Admission and projection hold the tenant's advisory lock shared,        *)
(* recognition holds it exclusively.  A batch has one protected body and   *)
(* projects one record.  Bodies live in the payload store, outside every   *)
(* database transaction, and any process may die between two steps.  The   *)
(* projection holds the lock on a connection of its own and writes through *)
(* others: when that connection's backend dies, the lock is free before    *)
(* the worker hears of it.                                                 *)
(***************************************************************************)
EXTENDS Naturals, FiniteSets

CONSTANTS Batch,         \* batches offered to the durable inbox
          Deletion,      \* deletion requests
          Purger,        \* processes that run processPrivacyDeletionRequest
          Installation,  \* installations of the app
          from,          \* [Batch -> Installation]
          target,        \* [Deletion -> Installation \cup {WholeApp}]
          WholeApp,      \* the target of an app-scoped request
          Admission,     \* batches that come to a process with
                         \* OPENMASU_INBOX_ADMISSION_ENABLED
          SessionLoss,   \* may the backend of the worker's barrier die?
          None,          \* no deletion
          MaxClock       \* bound: clock ticks

ASSUME ScopeAssumption ==
  /\ from \in [Batch -> Installation]
  /\ target \in [Deletion -> Installation \cup {WholeApp}]
  /\ WholeApp \notin Installation
  /\ None \notin Deletion
ASSUME ConfigAssumption == Admission \subseteq Batch /\ SessionLoss \in BOOLEAN
ASSUME BoundAssumption == MaxClock \in Nat

VARIABLES
  clock,        \* wall clock, shared by every process
  \* admission
  append,       \* [Batch -> AppendState] the HTTP handler of the batch
  receivedAt,   \* [Batch -> Nat]
  stored,       \* [Batch -> BOOLEAN] the body is readable in the payload store
  row,          \* [Batch -> RowState] ledger.ingest_batches_current
  \* projection
  projection,   \* [Batch -> Lifecycle] the raw record of the batch
  worker,       \* where processSdkInbox is
  held,         \* its session holds the barrier shared
  work,         \* batches it selected and has not finished
  blocked,      \* those its barrier found inside a deletion
  decoded,      \* those whose body it has read
  \* deletion
  request,      \* [Deletion -> RequestState]
  requestedAt,  \* [Deletion -> Nat]
  job,          \* [Deletion -> JobState]
  purge,        \* [Deletion -> [Batch -> PurgeState]]
  purging,      \* [Purger -> Deletion \cup {None}]
  left,         \* [Purger -> SUBSET Batch] queued references still to visit
  gone          \* [Purger -> SUBSET Batch] purged and verified, not yet marked

admission == <<append, receivedAt, row>>
projector == <<worker, held, work, blocked, decoded>>
deletion  == <<request, requestedAt, job>>
purgers   == <<purging, left, gone>>
vars      == <<clock, admission, stored, projection, projector, deletion, purge, purgers>>

AppendState  == {"idle", "received", "stored", "appending", "landed", "acked",
                 "undoing", "refused", "crashed"}
RowState     == {"absent", "pending", "post", "processed", "suppressed", "failed"}
Lifecycle    == {"none", "available", "purged"}
WorkerState  == {"idle", "selected", "fenced", "decoding"}
RequestState == {"idle", "waiting", "recognized"}
JobState     == {"none", "processing", "completed"}
PurgeState   == {"none", "queued", "purged"}

TypeOK ==
  /\ clock \in Nat
  /\ append \in [Batch -> AppendState]
  /\ receivedAt \in [Batch -> Nat]
  /\ stored \in [Batch -> BOOLEAN]
  /\ row \in [Batch -> RowState]
  /\ projection \in [Batch -> Lifecycle]
  /\ worker \in WorkerState /\ held \in BOOLEAN
  /\ work \in SUBSET Batch /\ blocked \in SUBSET Batch /\ decoded \in SUBSET Batch
  /\ request \in [Deletion -> RequestState]
  /\ requestedAt \in [Deletion -> Nat]
  /\ job \in [Deletion -> JobState]
  /\ purge \in [Deletion -> [Batch -> PurgeState]]
  /\ purging \in [Purger -> Deletion \cup {None}]
  /\ left \in [Purger -> SUBSET Batch]
  /\ gone \in [Purger -> SUBSET Batch]

Init ==
  /\ clock = 0
  /\ append = [b \in Batch |-> "idle"]
  /\ receivedAt = [b \in Batch |-> 0]
  /\ stored = [b \in Batch |-> FALSE]
  /\ row = [b \in Batch |-> "absent"]
  /\ projection = [b \in Batch |-> "none"]
  /\ worker = "idle" /\ held = FALSE /\ work = {} /\ blocked = {} /\ decoded = {}
  /\ request = [d \in Deletion |-> "idle"]
  /\ requestedAt = [d \in Deletion |-> 0]
  /\ job = [d \in Deletion |-> "none"]
  /\ purge = [d \in Deletion |-> [b \in Batch |-> "none"]]
  /\ purging = [p \in Purger |-> None]
  /\ left = [p \in Purger |-> {}]
  /\ gone = [p \in Purger |-> {}]

Tick ==
  /\ clock < MaxClock
  /\ clock' = clock + 1
  /\ UNCHANGED <<admission, stored, projection, projector, deletion, purge, purgers>>

-----------------------------------------------------------------------------
(* The barrier.                                                            *)

\* Deleting an installation covers it for good; deleting the app covers what it
\* received up to the time written on the request.
InScope(d, b) ==
  \/ from[b] = target[d]
  \/ target[d] = WholeApp /\ receivedAt[b] <= requestedAt[d]

\* (bug) A completed deletion no longer blocks.
BlockedWhileProcessing(b) ==
  \E d \in Deletion : job[d] = "processing" /\ InScope(d, b)

\* Jobs block while processing, completed requests ever after.
Blocked(b) == \E d \in Deletion : job[d] # "none" /\ InScope(d, b)

\* The shared holders of the barrier: appends in their transaction, and the
\* projection from its state check to its last row, while its session lives.
BarrierFree == ~held /\ \A b \in Batch : append[b] # "appending"

-----------------------------------------------------------------------------
(* Admission: appendDurableBatch and its HTTP handler.                     *)

CredentialActive(i) == ~\E d \in Deletion : job[d] # "none" /\ target[d] = i

\* The request authenticates and is stamped.
Receive(b) ==
  /\ append[b] = "idle"
  /\ CredentialActive(from[b])
  /\ append' = [append EXCEPT ![b] = "received"]
  /\ receivedAt' = [receivedAt EXCEPT ![b] = clock]
  /\ UNCHANGED <<clock, row, stored, projection, projector, deletion, purge, purgers>>

\* Without admission control the body is written before the transaction.
StoreBody(b) ==
  /\ append[b] = "received"
  /\ b \notin Admission
  /\ append' = [append EXCEPT ![b] = "stored"]
  /\ stored' = [stored EXCEPT ![b] = TRUE]
  /\ UNCHANGED <<clock, receivedAt, row, projection, projector, deletion, purge, purgers>>

\* Inside the barrier: the batch must be outside every deletion and its
\* credential active; with admission control the body is written here.
OpenAppend(b) ==
  /\ append[b] = IF b \in Admission THEN "received" ELSE "stored"
  /\ ~Blocked(b)
  /\ CredentialActive(from[b])
  /\ append' = [append EXCEPT ![b] = "appending"]
  /\ stored' = [stored EXCEPT ![b] = TRUE]
  /\ UNCHANGED <<clock, receivedAt, row, projection, projector, deletion, purge, purgers>>

\* With admission control the limits, the app's and the global ones, may refuse at
\* any time: what else is in the inbox is left open.
LimitsRefuse(b) == b \in Admission

\* Refused by the barrier, the credential or the admission limits: a body
\* already written is purged by the catch.
RefuseAppend(b) ==
  /\ append[b] = IF b \in Admission THEN "received" ELSE "stored"
  /\ Blocked(b) \/ ~CredentialActive(from[b]) \/ LimitsRefuse(b)
  /\ append' = [append EXCEPT ![b] = IF stored[b] THEN "undoing" ELSE "refused"]
  /\ UNCHANGED <<clock, receivedAt, row, stored, projection, projector, deletion,
                 purge, purgers>>

\* COMMIT: the row is pending and the barrier is released.
AppendLands(b) ==
  /\ append[b] = "appending"
  /\ append' = [append EXCEPT ![b] = "landed"]
  /\ row' = [row EXCEPT ![b] = "pending"]
  /\ UNCHANGED <<clock, receivedAt, stored, projection, projector, deletion, purge, purgers>>

\* (bug) The SDK is answered before COMMIT.
AcknowledgeEarly(b) ==
  /\ append[b] = "appending"
  /\ append' = [append EXCEPT ![b] = "acked"]
  /\ UNCHANGED <<clock, receivedAt, row, stored, projection, projector, deletion,
                 purge, purgers>>

\* The answer with the batch's id goes out.
Acknowledge(b) ==
  /\ append[b] = "landed"
  /\ append' = [append EXCEPT ![b] = "acked"]
  /\ UNCHANGED <<clock, receivedAt, row, stored, projection, projector, deletion,
                 purge, purgers>>

\* The transaction fails, or its COMMIT landed and only the answer was lost: the
\* handler cannot tell and undoes the write.
AppendFails(b) ==
  /\ append[b] \in {"appending", "landed"}
  /\ append' = [append EXCEPT ![b] = "undoing"]
  /\ UNCHANGED <<clock, receivedAt, row, stored, projection, projector, deletion,
                 purge, purgers>>

UndoBody(b) ==
  /\ append[b] = "undoing"
  /\ append' = [append EXCEPT ![b] = "refused"]
  /\ stored' = [stored EXCEPT ![b] = FALSE]
  /\ UNCHANGED <<clock, receivedAt, row, projection, projector, deletion, purge, purgers>>

\* The API process dies, or the purge of the catch fails.
AppendCrashes(b) ==
  /\ append[b] \in {"received", "stored", "appending", "landed", "undoing"}
  /\ append' = [append EXCEPT ![b] = "crashed"]
  /\ UNCHANGED <<clock, receivedAt, row, stored, projection, projector, deletion,
                 purge, purgers>>

-----------------------------------------------------------------------------
(* Projection: processSdkInbox.  One runs at a time (TenantCycle).         *)

Selectable == {b \in Batch : row[b] \in {"pending", "post"}}

\* Rows are selected before the barrier is taken, oldest first up to a limit;
\* which ones the limit lets in is left open.
SelectWork ==
  /\ worker = "idle"
  /\ \E chosen \in SUBSET Selectable \ {{}} : work' = chosen
  /\ worker' = "selected"
  /\ UNCHANGED <<clock, admission, stored, projection, held, blocked, decoded,
                 deletion, purge, purgers>>

\* The session barrier, then the deletion state under it.
EnterBarrier ==
  /\ worker = "selected"
  /\ worker' = "fenced" /\ held' = TRUE
  /\ blocked' = {b \in work : Blocked(b)}
  /\ UNCHANGED <<clock, admission, stored, projection, work, decoded, deletion,
                 purge, purgers>>

\* A batch inside a deletion ends as processed with reason privacy_suppressed.
Suppress(b) ==
  /\ worker = "fenced"
  /\ b \in work \cap blocked
  /\ row' = [row EXCEPT ![b] = "suppressed"]
  /\ work' = work \ {b}
  /\ UNCHANGED <<clock, append, receivedAt, stored, projection, worker, held,
                 blocked, decoded, deletion, purge, purgers>>

\* The body is read and decoded.
Decode(b) ==
  /\ worker \in {"fenced", "decoding"}
  /\ work \cap blocked = {}
  /\ b \in work \ decoded
  /\ stored[b]
  /\ worker' = "decoding"
  /\ decoded' = decoded \cup {b}
  /\ UNCHANGED <<clock, admission, stored, projection, held, work, blocked,
                 deletion, purge, purgers>>

\* A pending row whose body cannot be read is failed and left out.
DecodeFails(b) ==
  /\ worker \in {"fenced", "decoding"}
  /\ work \cap blocked = {}
  /\ b \in work \ decoded
  /\ ~stored[b]
  /\ row[b] = "pending"
  /\ row' = [row EXCEPT ![b] = "failed"]
  /\ work' = work \ {b}
  /\ UNCHANGED <<clock, append, receivedAt, stored, projection, worker, held,
                 blocked, decoded, deletion, purge, purgers>>

LeaveWorker ==
  /\ worker' = "idle" /\ held' = FALSE
  /\ work' = {} /\ blocked' = {} /\ decoded' = {}

\* A row already durable post processing whose body cannot be read: the error is
\* not that row's alone, the whole call ends with it.
DecodeThrows(b) ==
  /\ worker \in {"fenced", "decoding"}
  /\ work \cap blocked = {}
  /\ b \in work \ decoded
  /\ ~stored[b]
  /\ row[b] = "post"
  /\ LeaveWorker
  /\ UNCHANGED <<clock, admission, stored, projection, deletion, purge, purgers>>

\* Everything selected and not failed is decoded.
AllDecoded == worker = "decoding" /\ work \subseteq decoded

\* ingestRuntimeBatch: a transaction per record; a record already there stays.
Project(b) ==
  /\ AllDecoded
  /\ b \in work
  /\ projection[b] = "none"
  /\ projection' = [projection EXCEPT ![b] = "available"]
  /\ UNCHANGED <<clock, admission, stored, projector, deletion, purge, purgers>>

AllProjected == AllDecoded /\ \A b \in work : projection[b] # "none"

\* processed / post_processing_pending, durable before the auxiliary queues.
MarkPost(b) ==
  /\ AllProjected
  /\ b \in work
  /\ row[b] = "pending"
  /\ row' = [row EXCEPT ![b] = "post"]
  /\ UNCHANGED <<clock, append, receivedAt, stored, projection, projector, deletion,
                 purge, purgers>>

MarkProcessed(b) ==
  /\ AllProjected
  /\ b \in work
  /\ \A c \in work : row[c] # "pending"
  /\ row' = [row EXCEPT ![b] = "processed"]
  /\ work' = work \ {b}
  /\ UNCHANGED <<clock, append, receivedAt, stored, projection, worker, held,
                 blocked, decoded, deletion, purge, purgers>>

\* (bug) The client goes back to its pool with the lock.
ReleaseForgotten ==
  /\ worker \in {"fenced", "decoding"}
  /\ work = {}
  /\ worker' = "idle" /\ work' = {} /\ blocked' = {} /\ decoded' = {}
  /\ UNCHANGED <<clock, admission, stored, projection, held, deletion, purge, purgers>>

\* Nothing left to do: the barrier is released.
ReleaseBarrier ==
  /\ worker \in {"fenced", "decoding"}
  /\ work = {}
  /\ LeaveWorker
  /\ UNCHANGED <<clock, admission, stored, projection, deletion, purge, purgers>>

\* A step throws.  Once everything is decoded the catch fails the rows that were
\* pending and are not yet durable post processing, one statement per row, so
\* possibly not all of them; an earlier error leaves every row for a retry.
ProjectionFails ==
  /\ worker # "idle"
  /\ \E failed \in SUBSET {b \in work : row[b] = "pending"} :
       /\ failed # {} => AllDecoded
       /\ row' = [b \in Batch |-> IF b \in failed THEN "failed" ELSE row[b]]
  /\ LeaveWorker
  /\ UNCHANGED <<clock, append, receivedAt, stored, projection, deletion, purge, purgers>>

\* The backend of the barrier's connection dies while the worker works on.
LoseBarrier ==
  /\ SessionLoss
  /\ held
  /\ held' = FALSE
  /\ UNCHANGED <<clock, admission, stored, projection, worker, work, blocked, decoded,
                 deletion, purge, purgers>>

\* The worker dies, by itself or because it hears that a connection did; the
\* server releases its session lock.
WorkerCrashes ==
  /\ worker # "idle"
  /\ LeaveWorker
  /\ UNCHANGED <<clock, admission, stored, projection, deletion, purge, purgers>>

-----------------------------------------------------------------------------
(* Recognition: executePrivacyRequest.                                     *)

\* requested_at is taken before the transaction that waits for the barrier.
Request(d) ==
  /\ request[d] = "idle"
  /\ request' = [request EXCEPT ![d] = "waiting"]
  /\ requestedAt' = [requestedAt EXCEPT ![d] = clock]
  /\ UNCHANGED <<clock, admission, stored, projection, projector, job, purge, purgers>>

\* (bug) Only batches already projected are captured.
CapturedProjected(d) ==
  {b \in Batch : projection[b] # "none" /\ target[d] \in {WholeApp, from[b]}}

\* The durable rows a request captures, whatever their state.
Captured(d) ==
  {b \in Batch : row[b] # "absent" /\ target[d] \in {WholeApp, from[b]}}

\* A queued purge per captured reference.
QueuePurges(d) ==
  purge' = [purge EXCEPT ![d] =
              [b \in Batch |-> IF b \in Captured(d) THEN "queued" ELSE "none"]]

\* The records there are of what is captured are purged, for good.
Withdraw(d) ==
  projection' = [b \in Batch |-> IF b \in Captured(d) /\ projection[b] = "available"
                                 THEN "purged" ELSE projection[b]]

\* One transaction under the exclusive barrier.
Recognize(d) ==
  /\ request[d] = "waiting"
  /\ BarrierFree
  /\ request' = [request EXCEPT ![d] = "recognized"]
  /\ job' = [job EXCEPT ![d] = "processing"]
  /\ QueuePurges(d)
  /\ Withdraw(d)
  /\ UNCHANGED <<clock, admission, stored, projector, requestedAt, purgers>>

\* The API process dies while it waits.
RequestCrashes(d) ==
  /\ request[d] = "waiting"
  /\ request' = [request EXCEPT ![d] = "idle"]
  /\ UNCHANGED <<clock, admission, stored, projection, projector, requestedAt, job,
                 purge, purgers>>

-----------------------------------------------------------------------------
(* Purge: processPrivacyDeletionRequest, by the API once and by the worker *)
(* for every processing job.                                               *)

\* The per-request session lock, then the queued references.
StartPurge(p, d) ==
  /\ purging[p] = None
  /\ job[d] = "processing"
  /\ \A q \in Purger : purging[q] # d
  /\ purging' = [purging EXCEPT ![p] = d]
  /\ left' = [left EXCEPT ![p] = {b \in Batch : purge[d][b] = "queued"}]
  /\ UNCHANGED <<clock, admission, stored, projection, projector, deletion, purge, gone>>

\* purgeAndVerify: only "not found" proves absence.
PurgeReference(p, b) ==
  /\ purging[p] # None
  /\ gone[p] = {}
  /\ b \in left[p]
  /\ stored' = [stored EXCEPT ![b] = FALSE]
  /\ gone' = [gone EXCEPT ![p] = {b}]
  /\ UNCHANGED <<clock, admission, projection, projector, deletion, purge, purging, left>>

\* The reference is marked purged in a transaction of its own.
MarkPurged(p, b) ==
  /\ b \in gone[p]
  /\ purge' = [purge EXCEPT ![purging[p]][b] = "purged"]
  /\ gone' = [gone EXCEPT ![p] = {}]
  /\ left' = [left EXCEPT ![p] = @ \ {b}]
  /\ UNCHANGED <<clock, admission, stored, projection, projector, deletion, purging>>

LeavePurge(p) ==
  /\ purging' = [purging EXCEPT ![p] = None]
  /\ left' = [left EXCEPT ![p] = {}]
  /\ gone' = [gone EXCEPT ![p] = {}]

\* Every reference visited: complete the job if nothing is outstanding.
CompleteJob(p) ==
  /\ purging[p] # None
  /\ left[p] = {}
  /\ LET d == purging[p] IN
       job' = [job EXCEPT ![d] = IF \E b \in Batch : purge[d][b] = "queued"
                                 THEN @ ELSE "completed"]
  /\ LeavePurge(p)
  /\ UNCHANGED <<clock, admission, stored, projection, projector, request,
                 requestedAt, purge>>

\* The store fails, the database fails, or the process dies: the lock is freed
\* and the job stays processing.
PurgeFails(p) ==
  /\ purging[p] # None
  /\ LeavePurge(p)
  /\ UNCHANGED <<clock, admission, stored, projection, projector, deletion, purge>>

-----------------------------------------------------------------------------

Append(b)  == Receive(b) \/ StoreBody(b) \/ OpenAppend(b) \/ RefuseAppend(b)
              \/ AppendLands(b) \/ Acknowledge(b) \/ AppendFails(b) \/ UndoBody(b)
              \/ AppendCrashes(b)
ProjectionStep == \/ SelectWork \/ EnterBarrier \/ ReleaseBarrier
                  \/ \E b \in Batch : Suppress(b) \/ Project(b) \/ Decode(b) \/ DecodeFails(b)
                                      \/ DecodeThrows(b) \/ MarkPost(b)
                                      \/ MarkProcessed(b)
Delete(d)  == Request(d) \/ Recognize(d) \/ RequestCrashes(d)
Purge(p)   == \/ \E d \in Deletion : StartPurge(p, d)
              \/ \E b \in Batch : PurgeReference(p, b) \/ MarkPurged(p, b)
              \/ CompleteJob(p) \/ PurgeFails(p)

Next ==
  \/ Tick
  \/ \E b \in Batch : Append(b)
  \/ ProjectionStep \/ ProjectionFails \/ LoseBarrier \/ WorkerCrashes
  \/ \E d \in Deletion : Delete(d)
  \/ \E p \in Purger : Purge(p)

Spec == Init /\ [][Next]_vars

\* Handlers and jobs that can go on do; PostgreSQL queues lock requests, so a
\* waiting recognition is not overtaken for ever.
Fairness ==
  /\ \A b \in Batch : WF_vars(StoreBody(b) \/ OpenAppend(b) \/ RefuseAppend(b)
                              \/ AppendLands(b) \/ Acknowledge(b) \/ UndoBody(b))
  /\ WF_vars(ProjectionStep)
  /\ \A d \in Deletion : SF_vars(Recognize(d))
  /\ \A p \in Purger :
       /\ WF_vars(\E d \in Deletion : StartPurge(p, d))
       /\ WF_vars((\E b \in Batch : PurgeReference(p, b) \/ MarkPurged(p, b)) \/ CompleteJob(p))


-----------------------------------------------------------------------------
(* What must hold.                                                         *)

\* A completed deletion leaves no readable body behind any durable row in its
\* scope, whichever appends, retries, crashes and half-done purges it met.
NoLiveCopyAfterCompletion ==
  \A d \in Deletion, b \in Batch :
    job[d] = "completed" /\ row[b] # "absent" /\ InScope(d, b) => ~stored[b]

\* From recognition on, nothing in a deletion's scope is a live record: work the
\* barrier let finish was captured, work it stopped never projects.
RecognizedStaysOut ==
  \A d \in Deletion, b \in Batch :
    job[d] # "none" /\ InScope(d, b) => projection[b] # "available"

\* A durable batch keeps its body until a deletion captures it, unless its sender
\* was answered with an error: the undo of a COMMIT whose answer was lost reaches
\* no acknowledged batch, and what it reaches is not processed without its record.
AcknowledgedIsDurable ==
  \A b \in Batch :
    /\ append[b] = "acked" => row[b] # "absent"
    /\ row[b] # "absent" => \/ stored[b] \/ append[b] = "refused"
                            \/ \E d \in Deletion : purge[d][b] # "none"
    /\ row[b] = "processed" => projection[b] # "none"

\* docs/privacy-security.md: "Deletion therefore either snapshots the completed
\* projection or commits first and makes the in-flight batch terminal as
\* privacy_suppressed."  So no captured batch is a live record afterwards.
CapturedNeverLive ==
  \A d \in Deletion, b \in Batch :
    purge[d][b] # "none" => projection[b] # "available"

\* A request that waits for the barrier gets it unless its process dies.
RecognitionProgresses ==
  \A d \in Deletion : []<>(request[d] # "waiting")

\* A recognized deletion completes once purges stop failing and dying, wherever
\* the earlier ones were left.
DeletionCompletes ==
  <>[][\A p \in Purger : ~PurgeFails(p)]_vars =>
    \A d \in Deletion : []<>(job[d] \in {"none", "completed"})
=============================================================================
