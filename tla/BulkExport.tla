----------------------------- MODULE BulkExport -----------------------------
(***************************************************************************)
(* The bulk export of one destination: batches discovered behind a keyset  *)
(* checkpoint, written to operator-owned object storage, suppressed by a   *)
(* privacy deletion or by disabling the destination.                       *)
(*                                                                         *)
(* Every transaction that touches the destination holds its advisory lock  *)
(* until it ends, so an open one is the variable tx and the others are     *)
(* atomic steps taken while tx = NoTx.  An event is its place in the order *)
(* (received_at, record_id) of the checkpoint.                             *)
(***************************************************************************)
EXTENDS Integers, Sequences, FiniteSets, FiniteSetsExt

CONSTANTS
  LastEvent,     \* events are 1..LastEvent, in the order of the checkpoint
  Subjects,
  SubjectOf,     \* [1..LastEvent -> Subjects and others, never deleted]
  MaximumRows,   \* rows of one object
  MaximumAttempts,
  MaxBatches,    \* bound: batches ever written
  MaxRevisions,  \* bound: credential rotations
  MaxFaults      \* bound: crashes, lost answers and refusals of the storage

\* What the constants are.
BulkAssumption ==
  /\ LastEvent \in Nat /\ MaximumRows \in Nat
  /\ MaxRevisions \in Nat /\ MaxFaults \in Nat

VARIABLES
  projected,     \* events whose facts are committed
  late,          \* history: those projected behind an export that passed them
  withdrawn,     \* subjects whose deletion is recognized
  deletions,     \* operator_bulk_export_deletions: deletion_seq -> subject
  active,        \* the destination's status
  revision,      \* credential_revision_seq
  checkpoint,    \* [event, deletion]: the cursors
  batches,       \* operator_bulk_export_batches, and bodies no row names
  tx,            \* the open transaction that holds the destination's lock
  flying,        \* PUT requests the storage may still carry out
  stored,        \* batches whose object the storage holds
  faults

facts == <<projected, late>>
subjects == <<withdrawn, deletions>>
destination == <<active, revision, checkpoint>>
network == <<flying, stored>>
vars == <<facts, subjects, destination, batches, tx, network, faults>>

NoTx == [kind |-> "none"]
AllEvents == 1..LastEvent
Cursors == [event : 0..LastEvent, deletion : Nat]
Batches == [events : SUBSET AllEvents, notices : SUBSET (Nat \ {0}),
            before : Cursors, after : Cursors,
            state : {"queued", "retry", "succeeded", "failed", "suppressed",
                     "unrecorded"},
            attempts : 0..32, rejectedBy : Nat \cup {-1}, body : BOOLEAN]

Pending == {i \in DOMAIN batches : batches[i].state \in {"queued", "retry"}}
\* safe_reason = 'credentials_rejected', with the revision that was rejected
Paused(i) == batches[i].state = "retry" /\ batches[i].rejectedBy # -1
Least(n, S) == {e \in S : Cardinality({d \in S : d <= e}) <= n}
Greatest(S, otherwise) == IF S = {} THEN otherwise ELSE Max(S)
Faulting(n) == faults + n <= MaxFaults /\ faults' = faults + n

TypeOK ==
  /\ projected \subseteq AllEvents /\ late \subseteq projected
  /\ withdrawn \subseteq Subjects /\ deletions \in Seq(Subjects)
  /\ active \in BOOLEAN /\ revision \in 0..MaxRevisions
  /\ checkpoint \in Cursors
  /\ batches \in Seq(Batches)
  /\ tx.kind \in {"none", "discover", "send"}
  /\ flying \cup stored \subseteq DOMAIN batches
  /\ faults \in 0..MaxFaults

Init ==
  /\ projected = {} /\ late = {} /\ withdrawn = {} /\ deletions = <<>>
  /\ active = TRUE /\ revision = 0
  /\ checkpoint = [event |-> 0, deletion |-> 0]
  /\ batches = <<>> /\ tx = NoTx
  /\ flying = {} /\ stored = {}
  /\ faults = 0

-----------------------------------------------------------------------------
(* The events and the subjects *)

\* The inbox worker commits an event's facts: in the order of its own retries,
\* not of receipt.
Project(e) ==
  /\ e \notin projected /\ SubjectOf[e] \notin withdrawn
  /\ projected' = projected \cup {e}
  /\ late' = IF \/ e <= checkpoint.event
                \/ \E i \in Pending : e <= batches[i].after.event
                \/ tx.kind = "discover" /\ e <= tx.batch.after.event
             THEN late \cup {e} ELSE late
  /\ UNCHANGED <<subjects, destination, batches, tx, network, faults>>

\* The purge of a body follows the commit that ends its batch and nothing
\* reads the body in between: one step, unless its process dies or does not
\* hear of the commit, and then nobody purges it.
Purged(b, heard) == [b EXCEPT !.body = ~heard /\ @]

\* Mutant: a batch that waits for its next attempt is overlooked.
SuppressedQueued(heard) == [i \in DOMAIN batches |->
  IF batches[i].state = "queued"
  THEN Purged([batches[i] EXCEPT !.state = "suppressed"], heard)
  ELSE batches[i]]

Suppressed(heard) == [i \in DOMAIN batches |->
  IF i \in Pending
  THEN Purged([batches[i] EXCEPT !.state = "suppressed"], heard)
  ELSE batches[i]]

\* One transaction: the deletion row, every pending batch suppressed, and the
\* references of their bodies in the deletion's durable job.
Recognize(s) ==
  /\ tx = NoTx /\ s \notin withdrawn
  /\ withdrawn' = withdrawn \cup {s}
  /\ deletions' = IF active THEN Append(deletions, s) ELSE deletions
  /\ batches' = Suppressed(TRUE)
  /\ UNCHANGED <<facts, destination, tx, network, faults>>

-----------------------------------------------------------------------------
(* Discovery *)

Candidates == {e \in projected : /\ e > checkpoint.event
                                 /\ SubjectOf[e] \notin withdrawn}

\* Mutant: the cursor moves to the last candidate, whatever fits.
NextRowsToLast ==
  LET notices == Least(MaximumRows,
                       (checkpoint.deletion + 1)..Len(deletions))
      events == Least(MaximumRows - Cardinality(notices), Candidates)
  IN  [events |-> events, notices |-> notices,
       before |-> checkpoint,
       after |-> [event |-> Greatest(Candidates, checkpoint.event),
                  deletion |-> Greatest(notices, checkpoint.deletion)],
       state |-> "queued", attempts |-> 0, rejectedBy |-> -1, body |-> TRUE]

NextRows ==
  LET notices == Least(MaximumRows,
                       (checkpoint.deletion + 1)..Len(deletions))
      events == Least(MaximumRows - Cardinality(notices), Candidates)
  IN  [events |-> events, notices |-> notices,
       before |-> checkpoint,
       after |-> [event |-> Greatest(events, checkpoint.event),
                  deletion |-> Greatest(notices, checkpoint.deletion)],
       state |-> "queued", attempts |-> 0, rejectedBy |-> -1, body |-> TRUE]

\* The rows are read and the body is written before the row is inserted.
Discover ==
  /\ tx = NoTx /\ active /\ Pending = {} /\ Len(batches) < MaxBatches
  /\ NextRows.events \cup NextRows.notices # {}
  /\ tx' = [kind |-> "discover", batch |-> NextRows]
  /\ UNCHANGED <<facts, subjects, destination, batches, network, faults>>

DiscoverEnds(batch) ==
  /\ tx.kind = "discover" /\ tx' = NoTx
  /\ batches' = Append(batches, batch)
  /\ UNCHANGED <<facts, subjects, destination, network>>

DiscoverCommits == DiscoverEnds(tx.batch) /\ UNCHANGED faults

\* The commit's answer is lost: the catch purges a body whose row is there.
DiscoverUnheard ==
  /\ tx.kind = "discover"
  /\ DiscoverEnds([tx.batch EXCEPT !.body = FALSE])
  /\ Faulting(1)

\* The worker dies: the transaction rolls back, the body has no row.
DiscoverDies ==
  /\ tx.kind = "discover"
  /\ DiscoverEnds([tx.batch EXCEPT !.state = "unrecorded"])
  /\ Faulting(1)

-----------------------------------------------------------------------------
(* Delivery *)

Attempted(b, state) ==
  [b EXCEPT !.state = state, !.attempts = Min({@ + 1, 32}),
            !.rejectedBy = -1]

\* Disabling suppresses under the same lock what is pending, so a disabled
\* destination has nothing due.
Due(i) == tx = NoTx /\ i \in Pending /\ ~Paused(i)

\* Mutant: it is tried again.
BodyMissingRetried(i) ==
  /\ Due(i) /\ ~batches[i].body
  /\ batches' = [batches EXCEPT ![i] = Attempted(@, "retry")]
  /\ UNCHANGED <<facts, subjects, destination, tx, network, faults>>

\* The body was purged: the batch fails, its rows are discovered again.
BodyMissing(i) ==
  /\ Due(i) /\ ~batches[i].body
  /\ batches' = [batches EXCEPT ![i] = Attempted(@, "failed")]
  /\ UNCHANGED <<facts, subjects, destination, tx, network, faults>>

\* The transaction stays open, with its locks, while the PUT is out.
Send(i) ==
  /\ Due(i) /\ batches[i].body
  /\ tx' = [kind |-> "send", batch |-> i, with |-> revision]
  /\ flying' = flying \cup {i}
  /\ UNCHANGED <<facts, subjects, destination, batches, stored, faults>>

\* The storage carries a PUT out, possibly long after its sender gave up.
Land(i) ==
  /\ i \in flying
  /\ stored' = stored \cup {i} /\ flying' = flying \ {i}
  /\ UNCHANGED <<facts, subjects, destination, batches, tx, faults>>

\* The transaction ends with what the answer calls for.
Settle(i, batch, cursor) ==
  /\ tx.kind = "send" /\ tx.batch = i /\ tx' = NoTx
  /\ batches' = [batches EXCEPT ![i] = batch]
  /\ checkpoint' = cursor
  /\ UNCHANGED <<facts, subjects, active, revision, stored>>

\* The object is stored now or was already there: the checkpoint moves, from
\* the batch's own starting point only.
Confirmed(i, heard) ==
  /\ i \in stored /\ checkpoint = batches[i].before
  /\ Settle(i, Purged(Attempted(batches[i], "succeeded"), heard),
            batches[i].after)
  /\ UNCHANGED flying
  /\ Faulting(IF heard THEN 0 ELSE 1)

\* 401 or 403: paused until a rotation, whatever the attempts.
Rejected(i) ==
  /\ Settle(i, [Attempted(batches[i], "retry") EXCEPT !.rejectedBy = tx.with],
            checkpoint)
  /\ flying' = flying \ {i}
  /\ Faulting(1)

\* No answer, or one to try again after: the PUT may still be carried out.
Retried(i) ==
  /\ batches[i].attempts + 1 < MaximumAttempts
  /\ Settle(i, Attempted(batches[i], "retry"), checkpoint)
  /\ flying' \in {flying, flying \ {i}}
  /\ Faulting(1)

\* The same at the last attempt, or a final refusal; credentials that cannot be read
\* and a body unlike its digest end the same way, without a request.
Failed(i) ==
  /\ Settle(i, Purged(Attempted(batches[i], "failed"), TRUE), checkpoint)
  /\ IF batches[i].attempts + 1 < MaximumAttempts
     THEN flying' = flying \ {i} ELSE flying' \in {flying, flying \ {i}}
  /\ Faulting(1)

\* The worker dies with the request out: nothing of the attempt is recorded.
SendDies ==
  /\ tx.kind = "send" /\ tx' = NoTx
  /\ Faulting(1)
  /\ UNCHANGED <<facts, subjects, destination, batches, network>>

-----------------------------------------------------------------------------
(* Administration *)

\* A new credential revision wakes the batches the old one was refused for.
Rotate ==
  /\ tx = NoTx /\ active /\ revision < MaxRevisions
  /\ revision' = revision + 1
  /\ batches' = [i \in DOMAIN batches |->
       IF Paused(i) THEN [batches[i] EXCEPT !.rejectedBy = -1] ELSE batches[i]]
  /\ UNCHANGED <<facts, subjects, active, checkpoint, tx, network, faults>>

Disable(heard) ==
  /\ tx = NoTx /\ active
  /\ active' = FALSE
  /\ batches' = Suppressed(heard)
  /\ Faulting(IF heard THEN 0 ELSE 1)
  /\ UNCHANGED <<facts, subjects, revision, checkpoint, tx, network>>

-----------------------------------------------------------------------------
Next ==
  \/ \E e \in AllEvents : Project(e)
  \/ \E s \in Subjects : Recognize(s)
  \/ Discover \/ DiscoverCommits \/ DiscoverUnheard \/ DiscoverDies
  \/ \E i \in DOMAIN batches :
       \/ BodyMissing(i) \/ Send(i) \/ Land(i)
       \/ Rejected(i) \/ Retried(i) \/ Failed(i)
       \/ \E heard \in BOOLEAN : Confirmed(i, heard)
  \/ SendDies
  \/ Rotate \/ \E heard \in BOOLEAN : Disable(heard)

\* The worker's cycle returns to the job and a request that is out lands;
\* events, deletions and administration need not happen.
Fairness ==
  /\ WF_vars(Discover \/ DiscoverCommits)
  /\ WF_vars(\E i \in DOMAIN batches :
       BodyMissing(i) \/ Send(i) \/ Land(i) \/ Confirmed(i, TRUE))

Spec == Init /\ [][Next]_vars /\ Fairness

-----------------------------------------------------------------------------
(* Properties *)

Holds(i, s) == \E e \in batches[i].events : SubjectOf[e] = s

\* The checkpoint moves past an event only with the object that holds it: of
\* an event that was there when its range was exported and whose subject was
\* never deleted, the storage has a copy once the cursor is behind it.
PassedIsStored ==
  \A e \in projected \ late :
    e <= checkpoint.event /\ SubjectOf[e] \notin withdrawn =>
      \E i \in stored : e \in batches[i].events

\* The lock is held from the read of the candidates to the answer, so no
\* request goes out, and none is waited for, with an event of a subject whose
\* deletion is already recognized.
NothingLeaves ==
  tx.kind = "send" => \A s \in withdrawn : ~Holds(tx.batch, s)

\* The storage that holds an event of a deleted subject gets the deletion row,
\* unless the destination is disabled or its credentials stay refused.
NoticeStored(s) ==
  \E i \in stored : \E n \in batches[i].notices : deletions[n] = s
NoticeFollows ==
  \A s \in Subjects :
    []<>(s \in withdrawn /\ (\E i \in stored : Holds(i, s)) =>
         \/ NoticeStored(s) \/ ~active
         \/ \E i \in DOMAIN batches : Paused(i))
=============================================================================
