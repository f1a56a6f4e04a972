--------------------------- MODULE PayloadDeletions ---------------------------
(* The payload store, and the privacy deletions that purge it: in the store a  *)
(* purge is files that go one by one, in a deletion it is a body that is no    *)
(* longer readable.  They share no state.                                      *)
EXTENDS PayloadStore

CONSTANTS
  Batch, Installation, from, Deletion, target, WholeApp, Purger, Admission,
  SessionLoss, MaxClock

VARIABLES
  clock, append, receivedAt, stored, row, projection, worker, held, work,
  blocked, decoded, request, requestedAt, job, purge, purging, left, gone

Deletions == INSTANCE PrivacyDeletion_proofs

DeletionAssumption ==
  Deletions!ScopeAssumption /\ Deletions!ConfigAssumption /\ Deletions!BoundAssumption

\* A batch the SDK was told is durable keeps its row, and its body until a
\* deletion captures it.
AcknowledgedIsDurable == Deletions!TypeOK /\ Deletions!AcknowledgedIsDurable

\* From recognition on, nothing in a deletion's scope is a live record.
RecognizedStaysOut == Deletions!RecognizedStaysOut

\* A deletion that waits is recognized, and completed once purges succeed.
DeletionEnds == Deletions!RecognitionProgresses /\ Deletions!DeletionCompletes
===============================================================================
