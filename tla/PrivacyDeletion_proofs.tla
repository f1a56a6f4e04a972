------------------------ MODULE PrivacyDeletion_proofs ------------------------
(* For any batches, deletions, purgers and installations, with and without     *)
(* admission control: a completed deletion leaves no readable body behind a    *)
(* row in its scope, and a batch that was acknowledged keeps its row, and its  *)
(* body until a deletion captures it.  As long as the session of the worker's  *)
(* barrier lives, nothing that a deletion recognized is a live record.         *)
(*                                                                             *)
(* The first rests on what recognition captures: every row in scope has been   *)
(* captured (ScopeIsCaptured), since an append that began before is excluded   *)
(* by the barrier and one that begins later is blocked (AppendHolds), and a    *)
(* body is written only before its row exists (NoRowYet).  The last rests on   *)
(* the state that the projection reads under the barrier staying true          *)
(* (WorkerHolds), which needs the barrier for as long as it works.             *)
EXTENDS PrivacyDeletion, TLAPS

NoRowYet ==
  \A b \in Batch :
    append[b] \in {"idle", "received", "stored", "appending"} => row[b] = "absent"

AppendHolds ==
  \A b \in Batch : append[b] = "appending" => stored[b] /\ ~Blocked(b)

\* What the SDK is told, or is about to be told, is durable; a durable batch loses
\* its body to a deletion or to the undo of a request answered with an error.
LandedHolds ==
  \A b \in Batch :
    /\ append[b] \in {"landed", "acked"} => row[b] # "absent"
    /\ row[b] # "absent" => \/ stored[b] \/ append[b] = "refused"
                            \/ \E d \in Deletion : purge[d][b] # "none"

RequestHasJob ==
  \A d \in Deletion : request[d] = "recognized" <=> job[d] # "none"

\* Only recognition captures, and only rows.
CaptureHasRow ==
  \A d \in Deletion, b \in Batch :
    purge[d][b] # "none" => job[d] # "none" /\ row[b] # "absent"

ScopeIsCaptured ==
  \A d \in Deletion, b \in Batch :
    job[d] # "none" /\ row[b] # "absent" /\ InScope(d, b) => purge[d][b] # "none"

PurgedIsGone ==
  \A d \in Deletion, b \in Batch : purge[d][b] = "purged" => ~stored[b]

CompletedIsPurged ==
  \A d \in Deletion, b \in Batch : job[d] = "completed" => purge[d][b] # "queued"

\* A purger visits captured references of a recognized deletion, and what it
\* is about to mark is gone.
PurgerHolds ==
  \A p \in Purger :
    /\ purging[p] # None => job[purging[p]] # "none"
    /\ gone[p] \subseteq left[p]
    /\ \A b \in left[p] : purging[p] # None /\ purge[purging[p]][b] # "none"
    /\ \A b \in gone[p] : ~stored[b]

\* Work and live records have rows, and a row past its projection a record.
ProjectedHasRow ==
  /\ \A b \in work : row[b] # "absent"
  /\ \A b \in Batch : projection[b] = "available" => row[b] # "absent"
  /\ \A b \in Batch : row[b] \in {"post", "processed"} => projection[b] # "none"

\* What the worker decided on under its barrier is still so.
WorkerHolds ==
  /\ worker = "decoding" => work \cap blocked = {}
  /\ ~SessionLoss /\ worker \in {"fenced", "decoding"} =>
       held /\ \A b \in work : Blocked(b) => b \in blocked

AppendInv == NoRowYet /\ AppendHolds /\ LandedHolds
CaptureInv == RequestHasJob /\ CaptureHasRow /\ ScopeIsCaptured
PurgeInv == PurgedIsGone /\ CompletedIsPurged /\ PurgerHolds
WorkInv == ProjectedHasRow /\ WorkerHolds /\ (~SessionLoss => RecognizedStaysOut)

IInv == TypeOK /\ AppendInv /\ CaptureInv /\ PurgeInv /\ WorkInv

LEMMA Initially == Init => IInv
<1> SUFFICES ASSUME Init
             PROVE  IInv
  OBVIOUS
<1>1. TypeOK
  BY DEF Init, TypeOK, AppendState, RowState, Lifecycle, WorkerState, RequestState,
     JobState, PurgeState
<1>2. AppendInv
  BY DEF Init, AppendInv, NoRowYet, AppendHolds, LandedHolds
<1>3. CaptureInv /\ PurgeInv
  BY DEF Init, CaptureInv, RequestHasJob, CaptureHasRow, ScopeIsCaptured, PurgeInv,
     PurgedIsGone, CompletedIsPurged, PurgerHolds
<1>4. WorkInv
  BY DEF Init, WorkInv, ProjectedHasRow, WorkerHolds, RecognizedStaysOut
<1> QED
  BY <1>1, <1>2, <1>3, <1>4 DEF IInv

-----------------------------------------------------------------------------
(* The scope of a deletion.                                                    *)

LEMMA ScopeStays ==
  ASSUME UNCHANGED <<receivedAt, requestedAt>>
  PROVE  \A d \in Deletion, b \in Batch : InScope(d, b)' <=> InScope(d, b)
BY DEF InScope

LEMMA BlockedStays ==
  ASSUME UNCHANGED <<receivedAt, requestedAt>>,
         \A d \in Deletion : job'[d] # "none" <=> job[d] # "none"
  PROVE  \A b \in Batch : Blocked(b)' <=> Blocked(b)
BY ScopeStays DEF Blocked

\* Only rows in a deletion's scope are captured by it.
LEMMA CapturedCoversScope ==
  ASSUME NEW d \in Deletion, NEW b \in Batch, InScope(d, b), row[b] # "absent"
  PROVE  b \in Captured(d)
BY DEF InScope, Captured

-----------------------------------------------------------------------------
(* Admission.                                                                  *)

LEMMA ReceiveKeeps ==
  ASSUME IInv, NEW b \in Batch, Receive(b)
  PROVE  IInv'
<1>1. /\ append[b] = "idle" /\ row[b] = "absent"
      /\ append' = [append EXCEPT ![b] = "received"]
      /\ receivedAt' = [receivedAt EXCEPT ![b] = clock]
      /\ UNCHANGED <<clock, row, stored, projection, projector, deletion, purge, purgers>>
  BY DEF Receive, IInv, AppendInv, NoRowYet
<1> USE <1>1 DEF projector, deletion, purgers
<1>2. TypeOK'
  BY DEF IInv, TypeOK, AppendState
<1>3. \A c \in Batch : c # b => append'[c] = append[c] /\ receivedAt'[c] = receivedAt[c]
  BY DEF IInv, TypeOK
<1>4. append'[b] = "received"
  BY DEF IInv, TypeOK
<1>5. \A d \in Deletion, c \in Batch : row[c] # "absent" => (InScope(d, c)' <=> InScope(d, c))
  BY <1>3 DEF InScope
<1>6. \A c \in Batch : c # b => (Blocked(c)' <=> Blocked(c))
  BY <1>3 DEF InScope, Blocked
<1>7. AppendInv'
  BY <1>3, <1>4, <1>6 DEF IInv, AppendInv, NoRowYet, AppendHolds, LandedHolds
<1>8. CaptureInv' /\ PurgeInv'
  BY <1>5 DEF IInv, CaptureInv, RequestHasJob, CaptureHasRow, ScopeIsCaptured, PurgeInv,
     PurgedIsGone, CompletedIsPurged, PurgerHolds
<1>9. ProjectedHasRow' /\ WorkerHolds'
  <2>1. b \notin work
    BY DEF IInv, WorkInv, ProjectedHasRow
  <2> QED
    BY <1>6, <2>1 DEF IInv, TypeOK, WorkInv, ProjectedHasRow, WorkerHolds
<1>10. ~SessionLoss => RecognizedStaysOut'
  BY <1>5 DEF IInv, WorkInv, ProjectedHasRow, RecognizedStaysOut
<1> QED
  BY <1>2, <1>7, <1>8, <1>9, <1>10 DEF IInv, WorkInv

(* A body is written for a batch that has no row, so none of what was captured, *)
(* purged or is being purged comes back.                                       *)
LEMMA WriteBodyKeeps ==
  ASSUME IInv, NEW b \in Batch, StoreBody(b) \/ OpenAppend(b)
  PROVE  IInv'
<1>1. /\ append[b] \in {"received", "stored"} /\ row[b] = "absent"
      /\ stored' = [stored EXCEPT ![b] = TRUE]
      /\ UNCHANGED <<clock, receivedAt, row, projection, worker, held, work, blocked,
                     decoded, request, requestedAt, job, purge, purging, left, gone>>
  BY DEF StoreBody, OpenAppend, IInv, AppendInv, NoRowYet, projector, deletion, purgers
<1>2. \/ append' = [append EXCEPT ![b] = "stored"]
      \/ append' = [append EXCEPT ![b] = "appending"] /\ ~Blocked(b)
  BY DEF StoreBody, OpenAppend
<1>3. TypeOK'
  BY <1>1, <1>2 DEF IInv, TypeOK, AppendState
<1>4. \A c \in Batch : c # b => append'[c] = append[c] /\ stored'[c] = stored[c]
  BY <1>1, <1>2 DEF IInv, TypeOK
<1>5. /\ append'[b] \in {"stored", "appending"} /\ stored'[b]
      /\ append'[b] = "appending" => ~Blocked(b)
  BY <1>1, <1>2 DEF IInv, TypeOK
<1>6. \A c \in Batch : Blocked(c)' <=> Blocked(c)
  BY <1>1, BlockedStays
<1>7. AppendInv'
  BY <1>1, <1>4, <1>5, <1>6 DEF IInv, AppendInv, NoRowYet, AppendHolds, LandedHolds
<1>8. CaptureInv'
  BY <1>1, ScopeStays DEF IInv, CaptureInv, RequestHasJob, CaptureHasRow, ScopeIsCaptured
<1>9. \A d \in Deletion : purge[d][b] = "none"
  BY <1>1 DEF IInv, CaptureInv, CaptureHasRow
<1>10. PurgeInv'
  <2>1. PurgedIsGone' /\ CompletedIsPurged'
    BY <1>1, <1>4, <1>9 DEF IInv, PurgeInv, PurgedIsGone, CompletedIsPurged
  <2>2. PurgerHolds'
    <3>1. \A p \in Purger : b \notin left[p] /\ b \notin gone[p]
      BY <1>9 DEF IInv, PurgeInv, PurgerHolds, TypeOK
    <3> QED
      BY <1>1, <1>4, <3>1 DEF IInv, PurgeInv, PurgerHolds, TypeOK
  <2> QED
    BY <2>1, <2>2 DEF PurgeInv
<1>11. WorkInv'
  BY <1>1, <1>6, ScopeStays DEF IInv, TypeOK, WorkInv, ProjectedHasRow, WorkerHolds,
     RecognizedStaysOut
<1> QED
  BY <1>3, <1>7, <1>8, <1>10, <1>11 DEF IInv

(* The handler goes on, gives up or dies: a row may appear for what passed the *)
(* barrier, a body goes where nothing was acknowledged.                        *)
LEMMA EndAppendKeeps ==
  ASSUME IInv, NEW b \in Batch,
         \/ RefuseAppend(b) \/ AppendLands(b) \/ Acknowledge(b) \/ AppendFails(b)
         \/ UndoBody(b) \/ AppendCrashes(b)
  PROVE  IInv'
<1>1. /\ UNCHANGED <<clock, receivedAt, projection, worker, held, work, blocked,
                     decoded, request, requestedAt, job, purge, purging, left, gone>>
      /\ \E s \in {"landed", "acked", "undoing", "refused", "crashed"} :
            append' = [append EXCEPT ![b] = s]
      /\ stored' = stored \/ stored' = [stored EXCEPT ![b] = FALSE]
      /\ row' = row \/ row' = [row EXCEPT ![b] = "pending"]
  BY DEF RefuseAppend, AppendLands, Acknowledge, AppendFails, UndoBody, AppendCrashes,
     projector, deletion, purgers
<1>2. TypeOK'
  <2>1. append' \in [Batch -> AppendState]
    <3>1. append \in [Batch -> AppendState]
      BY DEF IInv, TypeOK
    <3> QED
      BY <1>1, <3>1 DEF AppendState
  <2>2. stored' \in [Batch -> BOOLEAN]
    <3>1. stored \in [Batch -> BOOLEAN]
      BY DEF IInv, TypeOK
    <3> QED
      BY <1>1, <3>1
  <2>3. row' \in [Batch -> RowState]
    <3>1. row \in [Batch -> RowState]
      BY DEF IInv, TypeOK
    <3> QED
      BY <1>1, <3>1 DEF RowState
  <2> QED
    BY <1>1, <2>1, <2>2, <2>3 DEF IInv, TypeOK
<1>3. /\ append'[b] \in {"landed", "acked", "undoing", "refused", "crashed"}
      /\ \A c \in Batch : c # b => /\ append'[c] = append[c] /\ stored'[c] = stored[c]
                                  /\ row'[c] = row[c]
      /\ stored'[b] => stored[b]
      /\ row[b] # "absent" => row'[b] # "absent"
  BY <1>1 DEF IInv, TypeOK
<1>4. append'[b] \in {"landed", "acked"} =>
        /\ stored' = stored /\ row'[b] # "absent"
        /\ append[b] = "appending" \/ append[b] = "landed"
  BY <1>1 DEF RefuseAppend, AppendLands, Acknowledge, AppendFails, UndoBody, AppendCrashes,
     IInv, TypeOK, AppendInv, LandedHolds
<1>5. row[b] = "absent" /\ row'[b] # "absent" => ~Blocked(b)
  BY DEF RefuseAppend, AppendLands, Acknowledge, AppendFails, UndoBody, AppendCrashes,
     IInv, AppendInv, AppendHolds
<1>6. \A c \in Batch : Blocked(c)' <=> Blocked(c)
  BY <1>1, BlockedStays
<1>11. row'[b] # "absent" => \/ stored'[b] \/ append'[b] = "refused"
                              \/ \E d \in Deletion : purge[d][b] # "none"
  <2>1. CASE UndoBody(b)
    BY <2>1 DEF UndoBody, IInv, TypeOK
  <2>2. CASE ~UndoBody(b)
    <3>1. stored' = stored /\ append[b] # "refused"
      BY <2>2 DEF RefuseAppend, AppendLands, Acknowledge, AppendFails, AppendCrashes
    <3>2. row'[b] # row[b] => append[b] = "appending"
      BY <2>2 DEF RefuseAppend, AppendLands, Acknowledge, AppendFails, AppendCrashes
    <3> QED
      BY <3>1, <3>2 DEF IInv, AppendInv, AppendHolds, LandedHolds
  <2> QED
    BY <2>1, <2>2
<1>7. AppendInv'
  BY <1>1, <1>3, <1>4, <1>6, <1>11 DEF IInv, AppendInv, NoRowYet, AppendHolds, LandedHolds
<1>8. CaptureInv'
  <2>1. RequestHasJob' /\ CaptureHasRow'
    BY <1>1, <1>3 DEF IInv, CaptureInv, RequestHasJob, CaptureHasRow
  <2>2. ScopeIsCaptured'
    BY <1>1, <1>3, <1>5, ScopeStays DEF IInv, CaptureInv, ScopeIsCaptured, Blocked
  <2> QED
    BY <2>1, <2>2 DEF CaptureInv
<1>9. PurgeInv'
  <2>1. PurgedIsGone' /\ CompletedIsPurged'
    BY <1>1, <1>3 DEF IInv, PurgeInv, PurgedIsGone, CompletedIsPurged
  <2>2. PurgerHolds'
    BY <1>1, <1>3 DEF IInv, PurgeInv, PurgerHolds, TypeOK
  <2> QED
    BY <2>1, <2>2 DEF PurgeInv
<1>10. WorkInv'
  <2>1. ProjectedHasRow'
    BY <1>1, <1>3 DEF IInv, TypeOK, WorkInv, ProjectedHasRow
  <2>2. WorkerHolds' /\ (~SessionLoss => RecognizedStaysOut')
    BY <1>1, <1>6, ScopeStays DEF IInv, TypeOK, WorkInv, WorkerHolds, RecognizedStaysOut
  <2> QED
    BY <2>1, <2>2 DEF WorkInv
<1> QED
  BY <1>2, <1>7, <1>8, <1>9, <1>10 DEF IInv

-----------------------------------------------------------------------------
(* Projection.                                                                 *)

\* What the projection changes, it changes on rows that exist.
LEMMA RowsStay ==
  ASSUME IInv,
         UNCHANGED <<append, receivedAt, stored, request, requestedAt, job, purge,
                     purging, left, gone>>,
         \A b \in Batch : row'[b] = "absent" <=> row[b] = "absent"
  PROVE  /\ AppendInv' /\ CaptureInv' /\ PurgeInv'
         /\ \A d \in Deletion, b \in Batch : InScope(d, b)' <=> InScope(d, b)
         /\ \A b \in Batch : Blocked(b)' <=> Blocked(b)
<1>1. \A b \in Batch : Blocked(b)' <=> Blocked(b)
  BY BlockedStays
<1>2. AppendInv'
  BY <1>1 DEF IInv, AppendInv, NoRowYet, AppendHolds, LandedHolds
<1>3. CaptureInv'
  BY ScopeStays DEF IInv, CaptureInv, RequestHasJob, CaptureHasRow, ScopeIsCaptured
<1>4. PurgeInv'
  BY DEF IInv, PurgeInv, PurgedIsGone, CompletedIsPurged, PurgerHolds
<1> QED
  BY <1>1, <1>2, <1>3, <1>4, ScopeStays

\* A worker that leaves holds nothing, and decides on nothing.
LEMMA LeaveKeeps ==
  ASSUME IInv, LeaveWorker,
         UNCHANGED <<clock, append, receivedAt, stored, projection, request, requestedAt,
                     job, purge, purging, left, gone>>,
         row' \in [Batch -> RowState],
         \A b \in Batch : row'[b] = "absent" <=> row[b] = "absent",
         \A b \in Batch : row'[b] \in {row[b], "failed"}
  PROVE  IInv'
<1>1. TypeOK'
  BY DEF LeaveWorker, IInv, TypeOK, WorkerState
<1>2. ProjectedHasRow' /\ WorkerHolds'
  BY DEF LeaveWorker, IInv, WorkInv, ProjectedHasRow, WorkerHolds
<1>3. ~SessionLoss => RecognizedStaysOut'
  BY RowsStay DEF IInv, WorkInv, RecognizedStaysOut
<1> QED
  BY <1>1, <1>2, <1>3, RowsStay DEF IInv, WorkInv

LEMMA WorkerLeavesKeeps ==
  ASSUME IInv,
         \/ ReleaseBarrier \/ ProjectionFails \/ WorkerCrashes
         \/ \E b \in Batch : DecodeThrows(b)
  PROVE  IInv'
<1>1. /\ LeaveWorker
      /\ UNCHANGED <<clock, append, receivedAt, stored, projection, request, requestedAt,
                     job, purge, purging, left, gone>>
  BY DEF ReleaseBarrier, ProjectionFails, WorkerCrashes, DecodeThrows, admission, deletion,
     purgers
<1>2. /\ row' \in [Batch -> RowState]
      /\ \A b \in Batch : row'[b] = "absent" <=> row[b] = "absent"
      /\ \A b \in Batch : row'[b] \in {row[b], "failed"}
  <2>1. CASE ProjectionFails
    <3>1. PICK failed \in SUBSET {b \in work : row[b] = "pending"} :
            row' = [b \in Batch |-> IF b \in failed THEN "failed" ELSE row[b]]
      BY <2>1 DEF ProjectionFails
    <3> QED
      BY <3>1 DEF IInv, TypeOK, RowState
  <2>2. CASE ~ProjectionFails
    BY <2>2 DEF ReleaseBarrier, WorkerCrashes, DecodeThrows, admission, IInv, TypeOK
  <2> QED
    BY <2>1, <2>2
<1> QED
  BY <1>1, <1>2, LeaveKeeps

\* Rows are selected before the barrier, which then tells the blocked ones.
LEMMA SelectKeeps ==
  ASSUME IInv, SelectWork \/ EnterBarrier \/ LoseBarrier
  PROVE  IInv'
<1>1. UNCHANGED <<clock, append, receivedAt, row, stored, projection, request, requestedAt,
                  job, purge, purging, left, gone>>
  BY DEF SelectWork, EnterBarrier, LoseBarrier, admission, deletion, purgers
<1>2. AppendInv' /\ CaptureInv' /\ PurgeInv' /\ (\A b \in Batch : Blocked(b)' <=> Blocked(b))
  BY <1>1, RowsStay
<1>3. ~SessionLoss => RecognizedStaysOut'
  BY <1>1, RowsStay DEF IInv, WorkInv, RecognizedStaysOut
<1>4. CASE SelectWork
  <2>1. /\ worker' = "selected" /\ work' \subseteq Selectable
        /\ UNCHANGED <<held, blocked, decoded>>
    BY <1>4 DEF SelectWork
  <2>2. TypeOK' /\ ProjectedHasRow' /\ WorkerHolds'
    BY <1>1, <2>1 DEF Selectable, IInv, TypeOK, WorkerState, WorkInv, ProjectedHasRow,
       WorkerHolds
  <2> QED
    BY <1>2, <1>3, <2>2 DEF IInv, WorkInv
<1>5. CASE EnterBarrier
  <2>1. /\ worker' = "fenced" /\ held' = TRUE /\ blocked' = {b \in work : Blocked(b)}
        /\ UNCHANGED <<work, decoded>>
    BY <1>5 DEF EnterBarrier
  <2>2. TypeOK'
    BY <1>1, <2>1 DEF IInv, TypeOK, WorkerState
  <2>3. ProjectedHasRow' /\ WorkerHolds'
    BY <1>1, <1>2, <2>1 DEF IInv, TypeOK, WorkInv, ProjectedHasRow, WorkerHolds
  <2> QED
    BY <1>2, <1>3, <2>2, <2>3 DEF IInv, WorkInv
<1>6. CASE LoseBarrier
  BY <1>1, <1>2, <1>3, <1>6 DEF LoseBarrier, IInv, TypeOK, WorkInv, ProjectedHasRow,
     WorkerHolds
<1> QED
  BY <1>4, <1>5, <1>6

\* A row of the work is decided, under the barrier.
LEMMA DecideKeeps ==
  ASSUME IInv, NEW b \in Batch,
         \/ Suppress(b) \/ Decode(b) \/ DecodeFails(b) \/ MarkPost(b) \/ MarkProcessed(b)
  PROVE  IInv'
<1>0. UNCHANGED <<clock, append, receivedAt, stored, projection, held, blocked, request,
                  requestedAt, job, purge, purging, left, gone>>
  BY DEF Suppress, Decode, DecodeFails, MarkPost, MarkProcessed, admission, projector,
     deletion, purgers
<1>1. /\ b \in work /\ work' \subseteq work
      /\ worker \in {"fenced", "decoding"}
      /\ worker' # worker => worker' = "decoding" /\ work \cap blocked = {}
      /\ decoded' \subseteq decoded \cup {b}
  BY DEF Suppress, Decode, DecodeFails, MarkPost, MarkProcessed, AllProjected, AllDecoded,
     projector
<1>8. \/ row' = row
      \/ \E s \in {"suppressed", "failed"} : row' = [row EXCEPT ![b] = s]
      \/ /\ projection[b] # "none"
         /\ \E s \in {"post", "processed"} : row' = [row EXCEPT ![b] = s]
  BY DEF Suppress, Decode, DecodeFails, MarkPost, MarkProcessed, AllProjected, admission
<1>2. row[b] # "absent"
  BY <1>1 DEF IInv, WorkInv, ProjectedHasRow
<1>3. /\ row' \in [Batch -> RowState]
      /\ \A c \in Batch : row'[c] = "absent" <=> row[c] = "absent"
  BY <1>2, <1>8 DEF IInv, TypeOK, RowState
<1>4. TypeOK'
  BY <1>0, <1>1, <1>3 DEF IInv, TypeOK, WorkerState
<1>5. /\ AppendInv' /\ CaptureInv' /\ PurgeInv'
      /\ \A c \in Batch : Blocked(c)' <=> Blocked(c)
  BY <1>0, <1>3, RowsStay
<1>6. ProjectedHasRow' /\ WorkerHolds'
  BY <1>0, <1>1, <1>3, <1>5, <1>8 DEF IInv, TypeOK, WorkInv, ProjectedHasRow, WorkerHolds
<1>7. ~SessionLoss => RecognizedStaysOut'
  BY <1>0, <1>3, RowsStay DEF IInv, WorkInv, RecognizedStaysOut
<1> QED
  BY <1>4, <1>5, <1>6, <1>7 DEF IInv, WorkInv

\* What is projected was found outside every deletion, and still is.
LEMMA ProjectKeeps ==
  ASSUME IInv, NEW b \in Batch, Project(b)
  PROVE  IInv'
<1>1. /\ UNCHANGED <<clock, append, receivedAt, row, stored, worker, held, work, blocked,
                     decoded, request, requestedAt, job, purge, purging, left, gone>>
      /\ worker = "decoding" /\ b \in work
      /\ projection' = [projection EXCEPT ![b] = "available"]
  BY DEF Project, AllDecoded, admission, projector, deletion, purgers
<1>2. /\ AppendInv' /\ CaptureInv' /\ PurgeInv'
      /\ \A c \in Batch : Blocked(c)' <=> Blocked(c)
  BY <1>1, RowsStay
<1>3. TypeOK'
  BY <1>1 DEF IInv, TypeOK, Lifecycle
<1>4. ProjectedHasRow' /\ WorkerHolds'
  BY <1>1, <1>2 DEF IInv, TypeOK, WorkInv, ProjectedHasRow, WorkerHolds
<1>5. ~SessionLoss => ~Blocked(b)
  BY <1>1 DEF IInv, WorkInv, WorkerHolds
<1>6. ~SessionLoss => RecognizedStaysOut'
  BY <1>1, <1>5, RowsStay DEF IInv, TypeOK, WorkInv, RecognizedStaysOut, Blocked
<1> QED
  BY <1>2, <1>3, <1>4, <1>6 DEF IInv, WorkInv

-----------------------------------------------------------------------------
(* Recognition.                                                                *)

LEMMA RequestKeeps ==
  ASSUME IInv, NEW d \in Deletion, Request(d) \/ RequestCrashes(d)
  PROVE  IInv'
<1>1. /\ UNCHANGED <<clock, append, receivedAt, row, stored, projection, worker, held, work,
                     blocked, decoded, job, purge, purging, left, gone>>
      /\ request[d] \in {"idle", "waiting"} /\ job[d] = "none"
      /\ \E s \in {"idle", "waiting"} : request' = [request EXCEPT ![d] = s]
      /\ requestedAt' = [requestedAt EXCEPT ![d] = requestedAt'[d]]
      /\ requestedAt'[d] \in Nat
  BY DEF Request, RequestCrashes, admission, projector, deletion, purgers, IInv, TypeOK,
     CaptureInv, RequestHasJob
<1>2. TypeOK'
  BY <1>1 DEF IInv, TypeOK, RequestState
<1>3. \A e \in Deletion, b \in Batch : job[e] # "none" => (InScope(e, b)' <=> InScope(e, b))
  BY <1>1 DEF IInv, TypeOK, InScope
<1>4. \A b \in Batch : Blocked(b)' <=> Blocked(b)
  BY <1>1, <1>3 DEF Blocked
<1>5. AppendInv'
  BY <1>1, <1>4 DEF IInv, AppendInv, NoRowYet, AppendHolds, LandedHolds
<1>6. RequestHasJob'
  BY <1>1 DEF IInv, TypeOK, CaptureInv, RequestHasJob
<1>7. CaptureInv' /\ PurgeInv'
  BY <1>1, <1>3, <1>6 DEF IInv, CaptureInv, CaptureHasRow, ScopeIsCaptured, PurgeInv,
     PurgedIsGone, CompletedIsPurged, PurgerHolds
<1>8. WorkInv'
  BY <1>1, <1>3, <1>4 DEF IInv, TypeOK, WorkInv, ProjectedHasRow, WorkerHolds,
     RecognizedStaysOut
<1> QED
  BY <1>2, <1>5, <1>7, <1>8 DEF IInv

(* One transaction recognizes, captures every row in scope and withdraws the   *)
(* live records; no append is in its transaction, and no projection works.     *)
LEMMA RecognizeKeeps ==
  ASSUME IInv, NEW d \in Deletion, Recognize(d)
  PROVE  IInv'
<1>1. /\ UNCHANGED <<clock, append, receivedAt, row, stored, worker, held, work, blocked,
                     decoded, requestedAt, purging, left, gone>>
      /\ request[d] = "waiting" /\ job[d] = "none"
      /\ request' = [request EXCEPT ![d] = "recognized"]
      /\ job' = [job EXCEPT ![d] = "processing"]
      /\ ~held /\ \A b \in Batch : append[b] # "appending"
  BY DEF Recognize, BarrierFree, admission, projector, purgers, IInv, CaptureInv,
     RequestHasJob
<1>2. /\ purge' = [purge EXCEPT ![d] =
                     [b \in Batch |-> IF b \in Captured(d) THEN "queued" ELSE "none"]]
      /\ projection' = [b \in Batch |-> IF b \in Captured(d) /\ projection[b] = "available"
                                        THEN "purged" ELSE projection[b]]
  BY DEF Recognize, QueuePurges, Withdraw
<1>3. TypeOK'
  BY <1>1, <1>2 DEF IInv, TypeOK, RequestState, JobState, PurgeState, Lifecycle
<1>4. \A b \in Batch : /\ b \in Captured(d) => row[b] # "absent"
                       /\ purge[d][b] = "none"
                       /\ purge'[d][b] = IF b \in Captured(d) THEN "queued" ELSE "none"
  BY <1>1, <1>2 DEF Captured, IInv, TypeOK, CaptureInv, CaptureHasRow
<1>5. \A e \in Deletion : e # d => /\ purge'[e] = purge[e] /\ job'[e] = job[e]
                                  /\ request'[e] = request[e]
  BY <1>1, <1>2 DEF IInv, TypeOK
<1>6. job'[d] = "processing" /\ request'[d] = "recognized"
  BY <1>1 DEF IInv, TypeOK
<1>7. AppendInv'
  <2>1. NoRowYet' /\ AppendHolds'
    BY <1>1 DEF IInv, AppendInv, NoRowYet, AppendHolds
  <2>2. LandedHolds'
    BY <1>1, <1>4, <1>5 DEF IInv, AppendInv, LandedHolds
  <2> QED
    BY <2>1, <2>2 DEF AppendInv
<1>8. CaptureInv'
  <2>1. RequestHasJob' /\ CaptureHasRow'
    BY <1>1, <1>4, <1>5, <1>6 DEF IInv, CaptureInv, RequestHasJob, CaptureHasRow
  <2>2. ScopeIsCaptured'
    BY <1>1, <1>4, <1>5, ScopeStays, CapturedCoversScope DEF IInv, CaptureInv,
       ScopeIsCaptured
  <2> QED
    BY <2>1, <2>2 DEF CaptureInv
<1>9. PurgeInv'
  <2>1. PurgedIsGone' /\ CompletedIsPurged'
    BY <1>1, <1>4, <1>5, <1>6 DEF IInv, PurgeInv, PurgedIsGone, CompletedIsPurged
  <2>2. \A p \in Purger : purging[p] # d
    BY <1>1, ScopeAssumption DEF IInv, PurgeInv, PurgerHolds, TypeOK
  <2>3. PurgerHolds'
    BY <1>1, <1>5, <2>2 DEF IInv, TypeOK, PurgeInv, PurgerHolds
  <2> QED
    BY <2>1, <2>3 DEF PurgeInv
<1>10. ProjectedHasRow'
  BY <1>1, <1>2 DEF IInv, WorkInv, ProjectedHasRow
<1>11. WorkerHolds'
  BY <1>1 DEF IInv, WorkInv, WorkerHolds
<1>12. ~SessionLoss => RecognizedStaysOut'
  <2> SUFFICES ASSUME ~SessionLoss, NEW e \in Deletion, NEW b \in Batch,
                      job'[e] # "none", InScope(e, b)', projection'[b] = "available"
               PROVE  FALSE
    BY DEF RecognizedStaysOut
  <2>1. projection[b] = "available" /\ b \notin Captured(d) /\ row[b] # "absent"
    BY <1>2 DEF IInv, WorkInv, ProjectedHasRow
  <2>2. InScope(e, b)
    BY <1>1, ScopeStays
  <2>3. e # d
    BY <2>1, <2>2, CapturedCoversScope
  <2> QED
    BY <1>5, <2>1, <2>2, <2>3 DEF IInv, WorkInv, RecognizedStaysOut
<1> QED
  BY <1>3, <1>7, <1>8, <1>9, <1>10, <1>11, <1>12 DEF IInv, WorkInv

-----------------------------------------------------------------------------
(* Purge.                                                                      *)

\* A purger begins, goes on, or leaves its job for another.
LEMMA PurgeStepKeeps ==
  ASSUME IInv, NEW p \in Purger,
         \/ \E d \in Deletion : StartPurge(p, d)
         \/ CompleteJob(p) \/ PurgeFails(p)
  PROVE  IInv'
<1>1. /\ UNCHANGED <<clock, append, receivedAt, row, stored, projection, worker, held, work,
                     blocked, decoded, request, requestedAt, purge>>
  BY DEF StartPurge, CompleteJob, PurgeFails, admission, projector, deletion
<1>2. TypeOK' /\ (\A d \in Deletion : job'[d] # "none" <=> job[d] # "none")
              /\ CompletedIsPurged'
  <2>1. CASE UNCHANGED job
    <3>1. TypeOK'
      <4>1. /\ purging' \in [Purger -> Deletion \cup {None}]
            /\ left' \in [Purger -> SUBSET Batch] /\ gone' \in [Purger -> SUBSET Batch]
        <5>1. CASE CompleteJob(p) \/ PurgeFails(p)
          BY <5>1 DEF CompleteJob, PurgeFails, LeavePurge, IInv, TypeOK
        <5>2. ASSUME NEW d \in Deletion, StartPurge(p, d)
              PROVE  /\ purging' \in [Purger -> Deletion \cup {None}]
                     /\ left' \in [Purger -> SUBSET Batch] /\ gone' \in [Purger -> SUBSET Batch]
          <6>1. {b \in Batch : purge[d][b] = "queued"} \in SUBSET Batch
            OBVIOUS
          <6> QED
            BY <5>2, <6>1 DEF StartPurge, IInv, TypeOK
        <5> QED
          BY <5>1, <5>2
      <4> QED
        BY <1>1, <2>1, <4>1 DEF IInv, TypeOK
    <3> QED
      BY <1>1, <2>1, <3>1 DEF IInv, PurgeInv, CompletedIsPurged
  <2>2. CASE CompleteJob(p) /\ job' # job
    <3>1. PICK d \in Deletion :
            /\ d = purging[p] /\ job[d] # "none"
            /\ job' = [job EXCEPT ![d] = "completed"]
            /\ \A b \in Batch : purge[d][b] # "queued"
      BY <2>2 DEF CompleteJob, IInv, TypeOK, PurgeInv, PurgerHolds
    <3>2. TypeOK'
      BY <1>1, <2>2, <3>1 DEF CompleteJob, LeavePurge, IInv, TypeOK, JobState
    <3> QED
      BY <1>1, <3>1, <3>2 DEF IInv, TypeOK, PurgeInv, CompletedIsPurged
  <2> QED
    BY <2>1, <2>2 DEF StartPurge, PurgeFails, deletion
<1>3. \A b \in Batch : Blocked(b)' <=> Blocked(b)
  BY <1>1, <1>2, BlockedStays
<1>4. AppendInv' /\ CaptureInv'
  BY <1>1, <1>2, <1>3, ScopeStays DEF IInv, AppendInv, NoRowYet, AppendHolds, LandedHolds,
     CaptureInv, RequestHasJob, CaptureHasRow, ScopeIsCaptured
<1>5. PurgedIsGone'
  BY <1>1 DEF IInv, PurgeInv, PurgedIsGone
<1>6. PurgerHolds'
  <2>1. \A q \in Purger : q # p =>
          purging'[q] = purging[q] /\ left'[q] = left[q] /\ gone'[q] = gone[q]
    BY DEF StartPurge, CompleteJob, PurgeFails, LeavePurge, IInv, TypeOK
  <2>2. CASE CompleteJob(p) \/ PurgeFails(p)
    <3>1. purging'[p] = None /\ left'[p] = {} /\ gone'[p] = {}
      BY <2>2 DEF CompleteJob, PurgeFails, LeavePurge, IInv, TypeOK
    <3> QED
      BY <1>1, <1>2, <2>1, <3>1 DEF IInv, TypeOK, PurgeInv, PurgerHolds
  <2>3. ASSUME NEW d \in Deletion, StartPurge(p, d) PROVE PurgerHolds'
    <3>1. /\ purging'[p] = d /\ left'[p] = {b \in Batch : purge[d][b] = "queued"}
          /\ gone'[p] = gone[p] /\ purging[p] = None /\ job[d] # "none"
      BY <2>3 DEF StartPurge, IInv, TypeOK
    <3>2. gone[p] = {}
      BY <3>1 DEF IInv, PurgeInv, PurgerHolds
    <3>3. d # None
      BY ScopeAssumption
    <3>4. \A b \in left'[p] : purge[d][b] # "none"
      BY <3>1
    <3>5. job'[d] # "none"
      BY <1>2, <3>1
    <3>6. \A q \in Purger : purging[q] \in Deletion \cup {None}
      BY DEF IInv, TypeOK
    <3> SUFFICES ASSUME NEW q \in Purger
                 PROVE  /\ purging'[q] # None => job'[purging'[q]] # "none"
                        /\ gone'[q] \subseteq left'[q]
                        /\ \A b \in left'[q] :
                             purging'[q] # None /\ purge[purging'[q]][b] # "none"
                        /\ \A b \in gone'[q] : ~stored[b]
      BY <1>1 DEF PurgerHolds
    <3>7. CASE q = p
      BY <3>1, <3>2, <3>3, <3>4, <3>5, <3>7
    <3>8. CASE q # p
      BY <1>2, <2>1, <3>6, <3>8 DEF IInv, PurgeInv, PurgerHolds
    <3> QED
      BY <3>7, <3>8
  <2> QED
    BY <2>2, <2>3
<1>7. WorkInv'
  BY <1>1, <1>2, <1>3, ScopeStays DEF IInv, TypeOK, WorkInv, ProjectedHasRow, WorkerHolds,
     RecognizedStaysOut
<1> QED
  BY <1>2, <1>4, <1>5, <1>6, <1>7 DEF IInv, PurgeInv

\* A body is purged only where it was captured.
LEMMA PurgeReferenceKeeps ==
  ASSUME IInv, NEW p \in Purger, NEW b \in Batch, PurgeReference(p, b)
  PROVE  IInv'
<1>1. /\ UNCHANGED <<clock, append, receivedAt, row, projection, worker, held, work,
                     blocked, decoded, request, requestedAt, job, purge, purging, left>>
      /\ b \in left[p] /\ purging[p] \in Deletion /\ purge[purging[p]][b] # "none"
      /\ stored' = [stored EXCEPT ![b] = FALSE]
      /\ gone' = [gone EXCEPT ![p] = {b}]
  BY DEF PurgeReference, admission, projector, deletion, IInv, TypeOK, PurgeInv, PurgerHolds
<1>2. TypeOK'
  BY <1>1 DEF IInv, TypeOK
<1>3. \A c \in Batch : stored'[c] = (c # b /\ stored[c])
  BY <1>1 DEF IInv, TypeOK
<1>4. row[b] # "absent"
  BY <1>1 DEF IInv, CaptureInv, CaptureHasRow
<1>5. \A c \in Batch : Blocked(c)' <=> Blocked(c)
  BY <1>1, BlockedStays
<1>6. AppendInv'
  BY <1>1, <1>3, <1>4, <1>5 DEF IInv, AppendInv, NoRowYet, AppendHolds, LandedHolds
<1>7. CaptureInv'
  BY <1>1, ScopeStays DEF IInv, CaptureInv, RequestHasJob, CaptureHasRow, ScopeIsCaptured
<1>8. PurgeInv'
  <2>1. PurgedIsGone' /\ CompletedIsPurged'
    BY <1>1, <1>3 DEF IInv, PurgeInv, PurgedIsGone, CompletedIsPurged
  <2>2. \A q \in Purger : gone'[q] = IF q = p THEN {b} ELSE gone[q]
    BY <1>1 DEF IInv, TypeOK
  <2>3. PurgerHolds'
    BY <1>1, <1>3, <2>2 DEF IInv, TypeOK, PurgeInv, PurgerHolds
  <2> QED
    BY <2>1, <2>3 DEF PurgeInv
<1>9. WorkInv'
  BY <1>1, <1>5, ScopeStays DEF IInv, TypeOK, WorkInv, ProjectedHasRow, WorkerHolds,
     RecognizedStaysOut
<1> QED
  BY <1>2, <1>6, <1>7, <1>8, <1>9 DEF IInv

\* It is marked purged once it is gone.
LEMMA MarkPurgedKeeps ==
  ASSUME IInv, NEW p \in Purger, NEW b \in Batch, MarkPurged(p, b)
  PROVE  IInv'
<1> DEFINE d == purging[p]
<1>1. /\ UNCHANGED <<clock, append, receivedAt, row, stored, projection, worker, held, work,
                     blocked, decoded, request, requestedAt, job, purging>>
      /\ b \in gone[p] /\ b \in left[p] /\ ~stored[b]
      /\ d \in Deletion /\ purge[d][b] # "none"
      /\ purge' = [purge EXCEPT ![d][b] = "purged"]
      /\ gone' = [gone EXCEPT ![p] = {}]
      /\ left' = [left EXCEPT ![p] = left[p] \ {b}]
  BY DEF MarkPurged, admission, projector, deletion, IInv, TypeOK, PurgeInv, PurgerHolds
<1> HIDE DEF d
<1>2. TypeOK'
  BY <1>1 DEF IInv, TypeOK, PurgeState
<1>3. \A e \in Deletion, c \in Batch :
        purge'[e][c] = IF e = d /\ c = b THEN "purged" ELSE purge[e][c]
  BY <1>1 DEF IInv, TypeOK
<1>4. \A c \in Batch : Blocked(c)' <=> Blocked(c)
  BY <1>1, BlockedStays
<1>5. AppendInv'
  BY <1>1, <1>3, <1>4 DEF IInv, AppendInv, NoRowYet, AppendHolds, LandedHolds
<1>6. CaptureInv'
  BY <1>1, <1>3, ScopeStays DEF IInv, CaptureInv, RequestHasJob, CaptureHasRow,
     ScopeIsCaptured
<1>7. PurgeInv'
  <2>1. PurgedIsGone' /\ CompletedIsPurged'
    BY <1>1, <1>3 DEF IInv, PurgeInv, PurgedIsGone, CompletedIsPurged
  <2>2. \A q \in Purger : /\ gone'[q] = IF q = p THEN {} ELSE gone[q]
                          /\ left'[q] = IF q = p THEN left[p] \ {b} ELSE left[q]
    BY <1>1 DEF IInv, TypeOK
  <2>3. PurgerHolds'
    BY <1>1, <1>3, <2>2 DEF IInv, TypeOK, PurgeInv, PurgerHolds
  <2> QED
    BY <2>1, <2>3 DEF PurgeInv
<1>8. WorkInv'
  BY <1>1, <1>4, ScopeStays DEF IInv, TypeOK, WorkInv, ProjectedHasRow, WorkerHolds,
     RecognizedStaysOut
<1> QED
  BY <1>2, <1>5, <1>6, <1>7, <1>8 DEF IInv

-----------------------------------------------------------------------------
LEMMA ClockKeeps ==
  ASSUME IInv, Tick \/ UNCHANGED vars
  PROVE  IInv'
<1>1. /\ UNCHANGED <<append, receivedAt, row, stored, projection, worker, held, work,
                     blocked, decoded, request, requestedAt, job, purge, purging, left, gone>>
      /\ clock' \in Nat
  BY DEF Tick, vars, admission, projector, deletion, purgers, IInv, TypeOK
<1>2. TypeOK'
  BY <1>1 DEF IInv, TypeOK
<1>3. WorkInv'
  BY <1>1, RowsStay DEF IInv, TypeOK, WorkInv, ProjectedHasRow, WorkerHolds,
     RecognizedStaysOut
<1> QED
  BY <1>1, <1>2, <1>3, RowsStay DEF IInv

LEMMA NextKeeps == IInv /\ [Next]_vars => IInv'
BY ReceiveKeeps, WriteBodyKeeps, EndAppendKeeps, WorkerLeavesKeeps, SelectKeeps, DecideKeeps,
   ProjectKeeps, RequestKeeps, RecognizeKeeps, PurgeStepKeeps, PurgeReferenceKeeps,
   MarkPurgedKeeps, ClockKeeps
DEF Next, Append, ProjectionStep, Delete, Purge

(* Whatever crashes, is retried or runs at once, and whether or not the        *)
(* barrier's session survives, deletion keeps the invariant above.             *)
THEOREM DeletionInvariant == Spec => []IInv
BY Initially, NextKeeps, PTL DEF Spec

(* A completed deletion leaves no readable body behind any durable row in its  *)
(* scope (executePrivacyRequest, processPrivacyDeletionRequest); it does not   *)
(* depend on the session of the worker's barrier.                              *)
THEOREM CompletionLeavesNothing == Spec => []NoLiveCopyAfterCompletion
<1>1. IInv => NoLiveCopyAfterCompletion
  <2> SUFFICES ASSUME IInv, NEW d \in Deletion, NEW b \in Batch,
                      job[d] = "completed", row[b] # "absent", InScope(d, b)
               PROVE  ~stored[b]
    BY DEF NoLiveCopyAfterCompletion
  <2>1. purge[d][b] # "none"
    BY DEF IInv, CaptureInv, ScopeIsCaptured
  <2>2. purge[d][b] # "queued"
    BY DEF IInv, PurgeInv, CompletedIsPurged
  <2>3. purge[d][b] = "purged"
    BY <2>1, <2>2 DEF IInv, TypeOK, PurgeState
  <2> QED
    BY <2>3 DEF IInv, PurgeInv, PurgedIsGone
<1> QED
  BY <1>1, DeletionInvariant, PTL

(* A durable batch keeps its body until a deletion captures it or its sender   *)
(* is answered with an error (appendDurableBatch and the undo of its handler), *)
(* and it is processed only with its record (processSdkInbox).                 *)
THEOREM AcknowledgedStays == Spec => [](TypeOK /\ AcknowledgedIsDurable)
<1>1. IInv => TypeOK /\ AcknowledgedIsDurable
  BY DEF IInv, AppendInv, LandedHolds, WorkInv, ProjectedHasRow, AcknowledgedIsDurable
<1> QED
  BY <1>1, DeletionInvariant, PTL

(* While the session of the worker's barrier lives (privacy-fence.ts), nothing *)
(* in a recognized deletion's scope is a live record.  Without it this fails.  *)
THEOREM RecognizedIsWithdrawn ==
  ASSUME ~SessionLoss
  PROVE  Spec => []RecognizedStaysOut
<1>1. IInv => RecognizedStaysOut
  BY DEF IInv, WorkInv
<1> QED
  BY <1>1, DeletionInvariant, PTL
=============================================================================
