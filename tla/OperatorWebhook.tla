--------------------------- MODULE OperatorWebhook ---------------------------
(***************************************************************************)
(* The webhook outbox of one destination: an encrypted body and a row per  *)
(* event, one notice per deleted subject, signing revisions that rotate,   *)
(* and the recovery of a failed delivery after an audited preview.         *)
(*                                                                         *)
(* A delivery's transaction holds its record's advisory lock and the       *)
(* destination's while the request is out.  Recognizing a deletion waits   *)
(* for the record locks of the subject, the administrator's commands and   *)
(* the enqueueing of a delivery for the destination's.                     *)
(***************************************************************************)
EXTENDS Integers, FiniteSets, Functions

CONSTANTS
  Events,
  Subjects,        \* disjoint from Events
  SubjectOf,       \* the subject of each event
  MaximumAttempts, \* OPENMASU_OPERATOR_WEBHOOK_MAX_ATTEMPTS
  AttemptLimit,    \* 32 in the code: attempts of a delivery, recoveries included
  MaxRevisions,    \* bound: signing revisions
  MaxFaults        \* bound: crashes, lost answers and refusals

VARIABLES
  projected,   \* events with committed facts
  withdrawn,   \* subjects with a recognized deletion
  active, notify,   \* the destination: status, deletion_notifications
  signing,     \* its current signing revision
  overlap,     \* the revision before it may still sign
  rows,        \* operator_webhook_deliveries: key -> row
  job,         \* the body discovery has written and not yet recorded
  tx,          \* the delivery whose request is out, its transaction open
  readable,    \* bodies in the payload store: <<key, number>>
  unpurged,    \* bodies a process purges after its commit
  previews,    \* audited previews: <<key, receipt>>
  confirmed,   \* audited confirmations
  received,    \* deliveries the receiver has accepted
  unheard,     \* history: rows whose body fell to a lost commit answer
  faults

destination == <<active, notify, signing, overlap>>
bodies == <<readable, unpurged>>
recovery == <<previews, confirmed>>
vars == <<projected, withdrawn, destination, rows, job, tx, bodies, recovery,
          received, unheard, faults>>

\* A row is keyed by its event, or by the subject its notice is about.
Keys == Events \cup Subjects
None == "none"
Pending == {k \in DOMAIN rows : rows[k].state \in {"queued", "retry"}}
States == {"queued", "retry", "succeeded", "failed", "suppressed"}
Of(s) == {e \in Events : SubjectOf[e] = s}
Faulting(n) == faults + n <= MaxFaults /\ faults' = faults + n

TypeOK ==
  /\ projected \subseteq Events /\ withdrawn \subseteq Subjects
  /\ active \in BOOLEAN /\ notify \in BOOLEAN /\ overlap \in BOOLEAN
  /\ signing \in 1..MaxRevisions
  /\ DOMAIN rows \subseteq Keys
  /\ \A k \in DOMAIN rows :
       rows[k] \in [state : States, attempts : 0..AttemptLimit,
                    revision : 1..MaxRevisions, body : Nat]
  /\ job \in Events \cup {None} /\ tx \in Pending \cup {None}
  /\ readable \cup unpurged \subseteq Keys \X Nat
  /\ previews \cup confirmed \subseteq Keys \X (0..AttemptLimit)
  /\ received \cup unheard \subseteq DOMAIN rows
  /\ faults \in 0..MaxFaults

Init ==
  /\ projected = {} /\ withdrawn = {}
  /\ active = TRUE /\ notify \in BOOLEAN /\ signing = 1 /\ overlap = FALSE
  /\ rows = <<>> /\ job = None /\ tx = None
  /\ readable = {} /\ unpurged = {} /\ previews = {} /\ confirmed = {}
  /\ received = {} /\ unheard = {} /\ faults = 0

\* The keys of the rows and the absence of one are told apart.
KeysAreDistinct == Events \cap Subjects = {} /\ None \notin Keys

\* What the constants are; processOperatorWebhookDeliveries refuses other attempts.
WebhookAssumption ==
  /\ KeysAreDistinct
  /\ AttemptLimit \in Nat /\ MaximumAttempts \in 1..AttemptLimit
  /\ MaxRevisions \in Nat \ {0} /\ MaxFaults \in Nat

\* webhookSigningRevision: what a pinned revision may still sign.
MaySign(revision) == revision = signing \/ (overlap /\ revision = signing - 1)

Eligible(e) == active /\ e \in projected /\ SubjectOf[e] \notin withdrawn

\* recognizedWebhookDeletion: opted in, recognized, and an event was accepted.
NoticeDue(s) ==
  /\ active /\ notify /\ s \in withdrawn
  /\ \E e \in Of(s) \cap DOMAIN rows : rows[e].state = "succeeded"

Row(n) == [state |-> "queued", attempts |-> 0, revision |-> signing, body |-> n]
With(f, k, value) == [x \in DOMAIN f \cup {k} |-> IF x = k THEN value ELSE f[x]]

Suppress(S) == [k \in DOMAIN rows |->
  IF k \in S THEN [rows[k] EXCEPT !.state = "suppressed"] ELSE rows[k]]
Bodies(S) == {<<k, rows[k].body>> : k \in S}

-----------------------------------------------------------------------------
Project(e) ==
  /\ e \notin projected /\ SubjectOf[e] \notin withdrawn
  /\ projected' = projected \cup {e}
  /\ UNCHANGED <<withdrawn, destination, rows, job, tx, bodies, recovery,
                 received, unheard, faults>>

\* Waits for a request of the subject that is out; suppresses what is pending
\* of it, and its durable job purges those bodies.
Recognize(s) ==
  /\ s \notin withdrawn /\ tx \notin Of(s)
  /\ withdrawn' = withdrawn \cup {s}
  /\ rows' = Suppress(Pending \cap Of(s))
  /\ readable' = readable \ Bodies(Pending \cap Of(s))
  /\ UNCHANGED <<projected, destination, job, tx, unpurged, recovery,
                 received, unheard, faults>>

(* Discovery: the body is written before any lock is taken. *)
Prepare(e) ==
  /\ job = None /\ Eligible(e) /\ e \notin DOMAIN rows
  /\ job' = e
  /\ readable' = readable \cup {<<e, 0>>}
  /\ UNCHANGED <<projected, withdrawn, destination, rows, tx, unpurged,
                 recovery, received, unheard, faults>>

\* Under the locks everything is checked again; a body without a row is purged.
Record(e) ==
  /\ job = e /\ tx = None /\ job' = None
  /\ IF Eligible(e)
     THEN rows' = With(rows, e, Row(0)) /\ UNCHANGED readable
     ELSE readable' = readable \ {<<e, 0>>} /\ UNCHANGED rows
  /\ UNCHANGED <<projected, withdrawn, destination, tx, unpurged, recovery,
                 received, unheard, faults>>

\* The row is committed, the answer is lost and the catch purges its body.
RecordUnheard(e) ==
  /\ job = e /\ tx = None /\ Eligible(e) /\ job' = None
  /\ rows' = With(rows, e, Row(0))
  /\ readable' = readable \ {<<e, 0>>}
  /\ unheard' = unheard \cup {e} /\ Faulting(1)
  /\ UNCHANGED <<projected, withdrawn, destination, tx, unpurged, recovery,
                 received>>

PrepareDies ==
  /\ job # None /\ job' = None /\ Faulting(1)
  /\ UNCHANGED <<projected, withdrawn, destination, rows, tx, bodies, recovery,
                 received, unheard>>

\* One notice for each deleted subject with a recorded delivery, in one
\* transaction that writes its body too.
Notice(s, heard) ==
  /\ tx = None /\ s \notin DOMAIN rows /\ NoticeDue(s)
  /\ rows' = With(rows, s, Row(0))
  /\ readable' = IF heard THEN readable \cup {<<s, 0>>} ELSE readable
  /\ unheard' = IF heard THEN unheard ELSE unheard \cup {s}
  /\ Faulting(IF heard THEN 0 ELSE 1)
  /\ UNCHANGED <<projected, withdrawn, destination, job, tx, unpurged,
                 recovery, received>>

-----------------------------------------------------------------------------
(* Delivery *)

\* What stops a delivery before its request is made.
Stopped(k) ==
  \/ ~active \/ ~MaySign(rows[k].revision)
  \/ k \in Subjects /\ ~NoticeDue(k)
  \/ k \in Events /\ SubjectOf[k] \in withdrawn

Attempted(k, state) ==
  [rows EXCEPT ![k].state = state, ![k].attempts = @ + 1]

\* A final state's body is purged after the commit, by a process that may not
\* hear of it.
Settle(k, state, heard) ==
  /\ rows' = Attempted(k, state)
  /\ unpurged' = IF heard /\ state # "retry"
                 THEN unpurged \cup Bodies({k}) ELSE unpurged
  /\ UNCHANGED <<projected, withdrawn, destination, job, readable, recovery,
                 received, unheard>>

Stop(k) ==
  /\ tx = None /\ k \in Pending /\ Stopped(k)
  /\ Settle(k, "suppressed", TRUE) /\ UNCHANGED <<tx, faults>>

BodyMissing(k) ==
  /\ tx = None /\ k \in Pending /\ ~Stopped(k)
  /\ <<k, rows[k].body>> \notin readable
  /\ Settle(k, "failed", TRUE) /\ UNCHANGED <<tx, faults>>

Send(k) ==
  /\ tx = None /\ k \in Pending /\ ~Stopped(k)
  /\ <<k, rows[k].body>> \in readable
  /\ tx' = k
  /\ UNCHANGED <<projected, withdrawn, destination, rows, job, bodies,
                 recovery, received, unheard, faults>>

\* The receiver takes the request; its answer may still be lost.
Arrive ==
  /\ tx # None /\ received' = received \cup {tx}
  /\ UNCHANGED <<projected, withdrawn, destination, rows, job, tx, bodies,
                 recovery, unheard, faults>>

Accepted(k, heard) ==
  /\ tx = k /\ k \in received /\ tx' = None
  /\ Settle(k, "succeeded", heard)
  /\ Faulting(IF heard THEN 0 ELSE 1)

Refused(k) ==
  /\ tx = k /\ tx' = None /\ Faulting(1)
  /\ \/ rows[k].attempts + 1 < MaximumAttempts /\ Settle(k, "retry", TRUE)
     \/ Settle(k, "failed", TRUE)

\* The overlap ends between the choice of the revision and the request's making;
\* whether this or an earlier request of the row arrived is not told apart.
Expired(k) ==
  /\ tx = k /\ ~MaySign(rows[k].revision) /\ tx' = None
  /\ Settle(k, "suppressed", TRUE) /\ UNCHANGED faults

SendDies ==
  /\ tx # None /\ tx' = None /\ Faulting(1)
  /\ UNCHANGED <<projected, withdrawn, destination, rows, job, bodies,
                 recovery, received, unheard>>

\* Mutant: a purge removes the body that its row has now.
PurgeCurrent(body) ==
  readable' = readable \ {<<body[1], rows[body[1]].body>>}

\* A purge names the body, not the row.
Purge(body) == readable' = readable \ {body}
PurgeBody(body) ==
  /\ body \in unpurged /\ unpurged' = unpurged \ {body}
  /\ Purge(body)
  /\ UNCHANGED <<projected, withdrawn, destination, rows, job, tx, recovery,
                 received, unheard, faults>>

-----------------------------------------------------------------------------
(* Recovery of a failed delivery, under the locks of a delivery *)

Recoverable(k) ==
  /\ tx = None /\ k \in DOMAIN rows
  /\ rows[k].state = "failed" /\ rows[k].attempts < AttemptLimit
  /\ active /\ MaySign(rows[k].revision)
  /\ IF k \in Subjects THEN NoticeDue(k) ELSE Eligible(k)

Receipt(k) == <<k, rows[k].attempts>>

Preview(k) ==
  /\ Recoverable(k) /\ previews' = previews \cup {Receipt(k)}
  /\ UNCHANGED <<projected, withdrawn, destination, rows, job, tx, bodies,
                 confirmed, received, unheard, faults>>

\* previewWebhookRecovery lapses after ten minutes.
Lapse(receipt) ==
  /\ receipt \in previews /\ previews' = previews \ {receipt}
  /\ UNCHANGED <<projected, withdrawn, destination, rows, job, tx, bodies,
                 confirmed, received, unheard, faults>>

\* A fresh body under a new reference; when the commit's answer is lost, the
\* catch purges the body of a row that is waiting for it.
Confirm(k, heard) ==
  LET old == rows[k].body IN
  /\ Recoverable(k) /\ Receipt(k) \in previews \ confirmed
  /\ confirmed' = confirmed \cup {Receipt(k)}
  /\ rows' = [rows EXCEPT ![k].state = "retry", ![k].body = old + 1]
  /\ readable' = (readable \ {<<k, old>>})
                   \cup (IF heard THEN {<<k, old + 1>>} ELSE {})
  /\ unheard' = IF heard THEN unheard ELSE unheard \cup {k}
  /\ Faulting(IF heard THEN 0 ELSE 1)
  /\ UNCHANGED <<projected, withdrawn, destination, job, tx, unpurged,
                 previews, received>>

-----------------------------------------------------------------------------
(* Administration, under the destination's lock *)

Command(suppressed) ==
  /\ tx = None /\ active
  /\ rows' = Suppress(suppressed)
  /\ UNCHANGED <<projected, withdrawn, job, tx, recovery, received, unheard,
                 faults>>

Rotate ==
  /\ Command({}) /\ ~overlap /\ signing < MaxRevisions
  /\ signing' = signing + 1 /\ overlap' \in BOOLEAN
  /\ UNCHANGED <<active, notify, bodies>>

\* The end of the overlap suppresses at the next delivery, not now.
OverlapEnds ==
  /\ overlap /\ overlap' = FALSE
  /\ UNCHANGED <<projected, withdrawn, active, notify, signing, rows, job, tx,
                 bodies, recovery, received, unheard, faults>>

\* Any revision but the current one, its overlap over or not, retired before or not.
Retire(revision) ==
  LET old == {k \in Pending : rows[k].revision = revision} IN
  /\ Command(old) /\ revision < signing
  /\ overlap' = (overlap /\ revision # signing - 1)
  /\ unpurged' = unpurged \cup Bodies(old)
  /\ UNCHANGED <<active, notify, signing, readable>>

SetNotify(enabled) ==
  LET notices == IF enabled THEN {} ELSE Pending \cap Subjects IN
  /\ Command(notices) /\ notify # enabled /\ notify' = enabled
  /\ unpurged' = unpurged \cup Bodies(notices)
  /\ UNCHANGED <<active, signing, overlap, readable>>

\* Purges every body of the destination, those of final rows too.
Disable ==
  /\ Command(Pending) /\ active' = FALSE
  /\ unpurged' = unpurged \cup Bodies(DOMAIN rows)
  /\ UNCHANGED <<notify, signing, overlap, readable>>

-----------------------------------------------------------------------------
Next ==
  \/ \E e \in Events : Project(e) \/ Prepare(e) \/ Record(e) \/ RecordUnheard(e)
  \/ \E s \in Subjects : Recognize(s) \/ \E heard \in BOOLEAN : Notice(s, heard)
  \/ \E k \in DOMAIN rows :
       \/ Stop(k) \/ BodyMissing(k) \/ Send(k) \/ Refused(k) \/ Expired(k)
       \/ Preview(k)
       \/ \E heard \in BOOLEAN : Accepted(k, heard) \/ Confirm(k, heard)
  \/ PrepareDies \/ Arrive \/ SendDies
  \/ \E body \in unpurged : PurgeBody(body)
  \/ \E receipt \in previews : Lapse(receipt)
  \/ Rotate \/ OverlapEnds \/ Disable
  \/ \E revision \in 1..MaxRevisions : Retire(revision)
  \/ \E enabled \in BOOLEAN : SetNotify(enabled)

\* The cycle returns to the job, a receiver that is up takes a request, and
\* the cycle's own purges end.
Fairness ==
  /\ WF_vars(\E s \in Subjects : Notice(s, TRUE))
  /\ WF_vars(\E k \in DOMAIN rows :
       Stop(k) \/ BodyMissing(k) \/ Send(k) \/ Accepted(k, TRUE))
  /\ WF_vars(tx \notin received /\ Arrive)

Spec == Init /\ [][Next]_vars /\ Fairness

-----------------------------------------------------------------------------
(* Properties *)

\* Recognition and a delivery exclude each other on the record's lock: no
\* request with an event of a subject is out once its deletion is recognized.
NothingLeavesAfterRecognition ==
  tx \in Events => SubjectOf[tx] \notin withdrawn

\* A row that waits to be sent has its body: neither the purge that follows an
\* earlier attempt, however late, nor a recovery takes it away.  Only the catch
\* that mistakes a lost commit answer for a failure does.
PendingIsReadable ==
  \A k \in Pending \ unheard : <<k, rows[k].body>> \in readable

\* A subject whose event was delivered and whose deletion is recognized gets a
\* notice that comes to an end, as long as the destination wants it.
NoticeFollows ==
  \A s \in Subjects :
    []<>(NoticeDue(s) => s \in DOMAIN rows /\ s \notin Pending)
=============================================================================
