------------------------------ MODULE SdkInbox ------------------------------
(* The drain of one tenant's inbox (processSdkInbox) down to the records: it  *)
(* selects the open batches, judges their records against the ledger, writes  *)
(* each record in a transaction of its own, then the attributions, a receipt  *)
(* for each batch, the late attributions and the queues of the provider       *)
(* lookups.  It may throw, which marks new batches failed, or die, which      *)
(* marks nothing; an operator may return a failed batch.                      *)
(*                                                                            *)
(* One app.  The records are clicks and installs; of their payload only what  *)
(* the judgement compares is kept (fact).  A worker lock serialises drains    *)
(* and the operator's retries, a tenant fence drains and deletions: see       *)
(* WorkerSchedule and PrivacyDeletion for both.                               *)
EXTENDS Naturals, FiniteSets

CONSTANTS
  Batch, Record,
  home,        \* [Record -> Batch]: the batch whose admission named the record
  place,       \* [Record -> Nat]: the order of the record ids of a batch
  fact,        \* [Record -> Fact]
  Unreadable,  \* batches whose body cannot be decoded
  Forgettable, \* batches a deletion may name
  Times,       \* the times at which batches are received
  BatchLimit,  \* rows of one drain (OPENMASU_SDK_INBOX_BATCH_LIMIT)
  MaxRetries,  \* an operator's retries of one batch: three in the code
  MaxFaults,   \* bound: drains that throw or die
  None

\* What the evaluator sees of a record.  "event" is the idempotency key (producer
\* and event id), "digest" its payload; "click" the click id, "good" whether the
\* click is in the window of its installs; "lookup" that it carries a token for a
\* provider; "refused" that consent was not given when it was received.
Fact == [name : {"click", "install"}, event : STRING, digest : STRING,
         click : STRING, good : BOOLEAN, lookup : BOOLEAN, refused : BOOLEAN]

\* The reasons of a result that the model tells apart.
Reason == {"unknown_click_id", "ambiguous_click_id", "valid_install_referrer", "window_expired"}

\* What the constants are.
InboxAssumption ==
  /\ home \in [Record -> Batch] /\ place \in [Record -> Nat] /\ fact \in [Record -> Fact]
  /\ \A b \in Batch : \E r \in Record : home[r] = b
  /\ \A q, r \in Record : home[q] = home[r] /\ place[q] = place[r] => q = r
  /\ IsFiniteSet(Batch) /\ Times \subseteq Nat \ {0} /\ None \notin Record \cup Reason
  /\ Unreadable \subseteq Batch /\ Forgettable \subseteq Batch
  /\ BatchLimit \in Nat \ {0} /\ MaxRetries \in Nat /\ MaxFaults \in Nat

VARIABLES
  receivedAt, \* [Batch -> Times \cup {0}]: when a batch came, 0 before it is admitted
  state,      \* the current state row of each batch
  retries,    \* operator_retry_requested rows of each batch
  blocked,    \* batches of a recognized deletion
  raw,        \* raw_records
  canonical,  \* logical_events: the record that owns each event
  erased,     \* records whose payload is gone
  deliveries, \* event_deliveries
  result,     \* attribution_results: the first result of each install
  late,       \* attribution_results: those that replaced it, with their click
  queued,     \* records whose provider lookup is queued
  drain,      \* the running drain
  faults,
  orphaned,   \* history: pending batches that a dead drain left pending
  overtaken   \* history: batches admitted after one that was received later

vars == <<receivedAt, state, retries, blocked, raw, canonical, erased, deliveries,
          result, late, queued, drain, faults, orphaned, overtaken>>
ledger == <<raw, canonical, erased, deliveries, result, late, queued>>

Event == {fact[r].event : r \in Record}
RecordsOf(batches) == {r \in Record : home[r] \in batches}

\* The order of receipt, of the batches and of their records.
Sooner(b, c) == receivedAt[b] < receivedAt[c]
Before(q, r) ==
  Sooner(home[q], home[r]) \/ (home[q] = home[r] /\ place[q] < place[r])
Earliest(S) == CHOOSE r \in S : \A q \in S : q = r \/ Before(r, q)

Open(b) == state[b] \in {"pending", "retry", "post"}

----------------------------------------------------------------------------
(* What the evaluator decides for a drain's rows.                             *)

Owns(r) == canonical[fact[r].event] = r
\* An accepted record whose payload may still be read.
Semantic(r) == Owns(r) /\ r \notin erased

\* Mutant: a batch that an operator returned meets its own records.
ResumedPost(work) == {b \in work : state[b] = "post"}

\* The batches whose own records are no history: they were persisted by an
\* earlier attempt at the same batch.
Resumed(work) == {b \in work : state[b] \in {"retry", "post"}}

\* Mutant: no history but the records of the rows themselves.
HistoryOwn(work) == (raw \ RecordsOf(Resumed(work))) \cap RecordsOf(work)

Related(q, r) == fact[q].event = fact[r].event \/ fact[q].click = fact[r].click

\* relevantLedgerHistory.
History(work) ==
  {r \in raw \ RecordsOf(Resumed(work)) :
     home[r] \in work \/ (Owns(r) /\ \E q \in RecordsOf(work) : Related(q, r))}

\* The first candidate with the same event decides, whatever became of it; what
\* is in the ledger comes before what is not.
FirstOf(r, work, history) ==
  LET Same(S) == {q \in S : fact[q].event = fact[r].event}
  IN  Earliest(IF Same(history) # {} THEN Same(history) ELSE Same(RecordsOf(work)))

\* decide, for a record of the rows "work".
Judge(r, work, history) ==
  LET first == FirstOf(r, work, history)
      resolution ==
        IF r \in history THEN "record_id_collision"
        ELSE IF first = r THEN "unique"
        ELSE IF fact[first].digest = fact[r].digest THEN "duplicate_delivery"
        ELSE "event_id_conflict"
  IN  [record |-> r, resolution |-> resolution,
       accepted |-> resolution \in {"unique", "duplicate_delivery"} /\ ~fact[r].refused,
       canonical |-> IF resolution = "record_id_collision" THEN None ELSE first]

Judged(work, history) == {Judge(r, work, history) : r \in RecordsOf(work)}

\* A delivery that gives its event a record, and these records.
Accepted(d) == d.accepted /\ d.resolution = "unique"
Unique(judged) == {d.record : d \in {d \in judged : Accepted(d)}}

\* makeAttribution of the install r, from the clicks accepted so far and now.
Attribute(r, judged, history) ==
  LET clicks == {q \in Unique(judged) \cup {h \in history : Semantic(h)} :
                   fact[q].name = "click" /\ fact[q].click = fact[r].click}
      reason == IF clicks = {} THEN "unknown_click_id"
                ELSE IF \E p, q \in clicks : p # q THEN "ambiguous_click_id"
                ELSE IF \A q \in clicks : fact[q].good THEN "valid_install_referrer"
                ELSE "window_expired"
  IN  [install |-> r, reason |-> reason,
       click |-> IF reason = "valid_install_referrer" THEN CHOOSE q \in clicks : TRUE
                 ELSE None]

\* Mutant: a click changes nothing for the installs before it.
AttributionsNow(judged, history) ==
  {Attribute(r, judged, history) : r \in {r \in Unique(judged) : fact[r].name = "install"}}

\* initialAttributionArtifacts, and of those what belongs to the current records:
\* the installs accepted now, and the earlier ones that a click accepted now
\* gives a valid result.
Attributions(judged, history) ==
  LET now == {Attribute(r, judged, history) :
                r \in {r \in Unique(judged) : fact[r].name = "install"}}
      before == {Attribute(h, judged, history) :
                   h \in {h \in history : Semantic(h) /\ fact[h].name = "install"}}
  IN  now \cup {a \in before : a.click \in Unique(judged)}

-----------------------------------------------------------------------------
Idle == [step |-> "idle", work |-> {}, fresh |-> {}, judged |-> {}, found |-> {},
         todo |-> {}, asked |-> {}]

Init ==
  /\ receivedAt = [b \in Batch |-> 0] /\ state = [b \in Batch |-> "absent"]
  /\ retries = [b \in Batch |-> 0] /\ blocked = {}
  /\ raw = {} /\ canonical = [e \in Event |-> None] /\ erased = {} /\ deliveries = {}
  /\ result = [r \in Record |-> None] /\ late = {} /\ queued = {}
  /\ drain = Idle /\ faults = 0 /\ orphaned = {} /\ overtaken = {}

\* Admission of a batch: its row, with the state pending.  The request took the
\* time of its receipt before it wrote the body and got its turn.
Receive(b, now) ==
  /\ state[b] = "absent" /\ \A c \in Batch : receivedAt[c] # now
  /\ receivedAt' = [receivedAt EXCEPT ![b] = now]
  /\ state' = [state EXCEPT ![b] = "pending"]
  /\ overtaken' = IF \E c \in Batch : receivedAt[c] > now THEN overtaken \cup {b}
                                                         ELSE overtaken
  /\ UNCHANGED <<retries, blocked, ledger, drain, faults, orphaned>>

\* The provider lookups of a batch.
Lookups(b, judged) == {r \in Unique(judged) : home[r] = b /\ fact[r].lookup}

Begin(d, step) == [d EXCEPT !.step = step, !.todo =
  CASE step = "project" -> RecordsOf(d.work)
    [] step \in {"attribute", "late"} -> d.found
    [] step \in {"receipt", "queue"} -> d.work]

Following(d) ==
  CASE d.step = "project" -> Begin(d, IF d.found = {} THEN "receipt" ELSE "attribute")
    [] d.step = "attribute" -> Begin(d, "receipt")
    [] d.step = "receipt" -> Begin(d, IF d.found = {} THEN "queue" ELSE "late")
    [] d.step = "late" -> Begin(d, "queue")
    [] d.step = "queue" -> Idle

\* x is done.
Proceed(x) ==
  drain' = IF drain.todo = {x} THEN Following(drain) ELSE [drain EXCEPT !.todo = @ \ {x}]

\* The first rows of the inbox.
Rows ==
  LET open == {b \in Batch : Open(b)}
  IN  {b \in open : Cardinality({c \in open : Sooner(c, b)}) < BatchLimit}

\* The rows of a drain: those of a deletion end here, those that cannot be
\* decoded fail, and the rest is judged against the history.  Nothing else
\* writes what it reads, so reading and judging are one step.
Select ==
  /\ drain.step = "idle" /\ Rows # {}
  /\ LET work == Rows \ (blocked \cup Unreadable)
     IN  /\ state' = [b \in Batch |->
              IF b \notin Rows \ work THEN state[b]
              ELSE IF b \in blocked THEN "processed" ELSE "failed"]
         /\ \E history \in {History(work)} : \E judged \in {Judged(work, history)} :
              drain' = IF work = {} THEN Idle
                ELSE Begin([Idle EXCEPT
                       !.work = work, !.fresh = {b \in work : state[b] # "post"},
                       !.judged = judged, !.found = Attributions(judged, history)], "project")
  /\ UNCHANGED <<receivedAt, retries, blocked, ledger, faults, orphaned, overtaken>>

\* The transaction of one record: raw, delivery, logical event and projection.
\* What exists already stays as it is.
Project(d) ==
  LET e == fact[d.record].event
      conflict == d.resolution = "event_id_conflict" /\ ~fact[d.record].refused
  IN  /\ drain.step = "project" /\ d.record \in drain.todo
      /\ \A q \in drain.todo : q = d.record \/ Before(d.record, q)
      /\ deliveries' = deliveries \cup {d}
      /\ raw' = IF Accepted(d) \/ conflict THEN raw \cup {d.record} ELSE raw
      /\ canonical' = IF Accepted(d) /\ canonical[e] = None
                      THEN [canonical EXCEPT ![e] = d.record] ELSE canonical
      /\ Proceed(d.record)
      /\ UNCHANGED <<receivedAt, state, retries, blocked, erased, result, late, queued,
                     faults, orphaned, overtaken>>

\* persistAttribution: the first result of an install stays.
PersistAttribution(a) ==
  /\ drain.step = "attribute" /\ a \in drain.todo
  /\ result' = IF result[a.install] = None
               THEN [result EXCEPT ![a.install] = a.reason] ELSE result
  /\ Proceed(a)
  /\ UNCHANGED <<receivedAt, state, retries, blocked, raw, canonical, erased, deliveries,
                 late, queued, faults, orphaned, overtaken>>

\* The batch whose turn it is.
Turn(b) == b \in drain.todo /\ \A c \in drain.todo : c = b \/ Sooner(b, c)

\* The records of a batch are complete.
Receipt(b) ==
  /\ drain.step = "receipt" /\ Turn(b)
  /\ state' = [state EXCEPT ![b] = "post"]
  /\ Proceed(b)
  /\ UNCHANGED <<receivedAt, retries, blocked, ledger, faults, orphaned, overtaken>>

PersistLateAttribution(a) ==
  /\ drain.step = "late" /\ a \in drain.todo
  /\ late' = IF /\ result[a.install] \notin {None, a.reason}
                /\ a.reason = "valid_install_referrer"
             THEN late \cup {<<a.install, a.click>>} ELSE late
  /\ Proceed(a)
  /\ UNCHANGED <<receivedAt, state, retries, blocked, raw, canonical, erased, deliveries,
                 result, queued, faults, orphaned, overtaken>>

\* Mutant: the row of the queue is inserted without regard to the one before.
QueueLookupAgain(b, r) ==
  /\ drain.step = "queue" /\ Turn(b) /\ r \in Lookups(b, drain.judged) \ drain.asked
  /\ r \notin queued /\ queued' = queued \cup {r}
  /\ drain' = [drain EXCEPT !.asked = @ \cup {r}]
  /\ UNCHANGED <<receivedAt, state, retries, blocked, raw, canonical, erased, deliveries,
                 result, late, faults, orphaned, overtaken>>

\* Queueing is idempotent: one row per record.
QueueLookup(b, r) ==
  /\ drain.step = "queue" /\ Turn(b) /\ r \in Lookups(b, drain.judged) \ drain.asked
  /\ queued' = queued \cup {r}
  /\ drain' = [drain EXCEPT !.asked = @ \cup {r}]
  /\ UNCHANGED <<receivedAt, state, retries, blocked, raw, canonical, erased, deliveries,
                 result, late, faults, orphaned, overtaken>>

\* The last of a batch.
Finish(b) ==
  /\ drain.step = "queue" /\ Turn(b) /\ Lookups(b, drain.judged) \subseteq drain.asked
  /\ state' = [state EXCEPT ![b] = "processed"]
  /\ Proceed(b)
  /\ UNCHANGED <<receivedAt, retries, blocked, ledger, faults, orphaned, overtaken>>

\* The drain throws, and its catch marks the rows that were new and have no
\* receipt yet.  The database may be what failed: then the catch stops as well,
\* after the first rows, as does a worker that is killed, after none.
Abort ==
  /\ drain.step # "idle" /\ faults < MaxFaults
  /\ LET new == {b \in drain.fresh : state[b] \in {"pending", "retry"}}
     IN  \E marked \in SUBSET new :
           /\ \A b \in marked : \A c \in new \ marked : Sooner(b, c)
           /\ state' = [b \in Batch |-> IF b \in marked THEN "failed" ELSE state[b]]
           /\ orphaned' = orphaned \cup {b \in new \ marked : state[b] = "pending"}
  /\ drain' = Idle /\ faults' = faults + 1
  /\ UNCHANGED <<receivedAt, retries, blocked, ledger, overtaken>>

\* requestIngestRecovery: the operator returns a failed batch whose evidence is
\* whole.
RequestRecovery(b) ==
  /\ drain.step = "idle" /\ state[b] = "failed"
  /\ b \notin blocked \cup Unreadable /\ retries[b] < MaxRetries
  /\ state' = [state EXCEPT ![b] = "retry"]
  /\ retries' = [retries EXCEPT ![b] = @ + 1]
  /\ UNCHANGED <<receivedAt, blocked, ledger, drain, faults, orphaned, overtaken>>

\* A deletion of the batch's installation is recognized and its payloads go.
Forget(b) ==
  /\ drain.step = "idle" /\ b \in Forgettable \ blocked /\ state[b] # "absent"
  /\ blocked' = blocked \cup {b}
  /\ erased' = erased \cup (RecordsOf({b}) \cap raw)
  /\ UNCHANGED <<receivedAt, state, retries, raw, canonical, deliveries, result, late,
                 queued, drain, faults, orphaned, overtaken>>

Work ==
  \/ Select
  \/ \E d \in drain.judged : Project(d)
  \/ \E a \in drain.found : PersistAttribution(a) \/ PersistLateAttribution(a)
  \/ \E b \in drain.work :
       \/ Receipt(b) \/ Finish(b)
       \/ \E r \in Record : QueueLookup(b, r)

Next ==
  \/ Work \/ Abort
  \/ \E b \in Batch : RequestRecovery(b) \/ Forget(b) \/ \E now \in Times : Receive(b, now)

Spec == Init /\ [][Next]_vars

\* The schedule of the worker runs the job again after each drain.
Fairness == WF_vars(Work)

-----------------------------------------------------------------------------
Resolutions == {"unique", "duplicate_delivery", "event_id_conflict", "record_id_collision"}

TypeOK ==
  /\ receivedAt \in [Batch -> Times \cup {0}]
  /\ state \in [Batch -> {"absent", "pending", "retry", "failed", "post", "processed"}]
  /\ retries \in [Batch -> 0..MaxRetries] /\ blocked \subseteq Batch
  /\ canonical \in [Event -> raw \cup {None}] /\ erased \subseteq raw
  /\ raw \subseteq Record /\ queued \subseteq raw
  /\ orphaned \subseteq Batch /\ overtaken \subseteq Batch
  /\ deliveries \subseteq [record : Record, accepted : BOOLEAN, resolution : Resolutions,
                            canonical : Record \cup {None}]
  /\ result \in [Record -> Reason \cup {None}] /\ late \subseteq Record \X Record

\* The records that a drain has given to an event.
Admitted == Unique(deliveries)
SameEvent(q, r) == fact[q].event = fact[r].event

\* One event, one record: of two that are both accepted the operator has returned
\* the batch of one, or it was admitted behind a batch received later; and an
\* event of which a delivery was accepted is in the ledger (unless it repeats one
\* that consent refused), so that a resend, a crash between two transactions or an
\* erased payload neither doubles nor loses it (decide and relevantLedgerHistory).
OneRecordPerEvent ==
  /\ \A q, r \in Admitted : SameEvent(q, r) =>
       \/ q = r
       \/ \E x \in {q, r} : retries[home[x]] > 0 \/ home[x] \in overtaken
  /\ \A d \in deliveries : d.accepted =>
       \/ canonical[fact[d.record].event] # None
       \/ \E q \in Record : SameEvent(q, d.record) /\ fact[q].refused

\* The record owns its event alone, no refused one came before it, and its batch
\* has come to its end without a drain that died on a batch of this event.
Undisputed(r) ==
  /\ Owns(r) /\ home[r] \notin blocked
  /\ \A q \in Record : SameEvent(q, r) =>
       /\ home[q] \notin orphaned
       /\ q \in Admitted => q = r
       /\ fact[q].refused /\ state[home[q]] # "absent" => ~Before(q, r)
Settled(r) == Undisputed(r) /\ state[home[r]] = "processed"

\* Whatever a drain's throw or an operator's retry leaves behind, when a batch is
\* processed its accepted records have had all the steps of the drain: the lookup
\* of a token is queued and an install has a result.
SettledIsComplete ==
  \A r \in Record : Settled(r) =>
    /\ fact[r].lookup => r \in queued
    /\ fact[r].name = "install" => result[r] # None

Valid(r) == result[r] = "valid_install_referrer" \/ \E q \in Record : <<r, q>> \in late
ClicksOf(r) == {q \in Admitted : fact[q].name = "click" /\ fact[q].click = fact[r].click}

\* The order of arrival does not matter: once an install and its only click are
\* both settled and the click is in its window, the install is attributed, which-
\* ever came first and whatever was retried in between; and no install is
\* attributed without a click that was accepted and in its window
\* (initialAttributionArtifacts and persistLateAttribution).
AttributionSettles ==
  \A r \in raw : fact[r].name = "install" =>
    /\ Valid(r) => \E q \in ClicksOf(r) : fact[q].good
    /\ Settled(r) /\ (\E q \in Record : ClicksOf(r) = {q} /\ Settled(q) /\ fact[q].good)
         => Valid(r)

\* Each batch comes to an end, also one whose provider lookups were not queued
\* at the first attempt.
BatchesEnd == \A b \in Batch : []<>~Open(b)

\* docs/operations/observability.md:56-60: the worker also retries the batches
\* "whose base ledger records are complete but whose server-side AdServices [...]
\* work still needs durable queue installation".
LookupsFollowRecords ==
  \A r \in Record : Owns(r) /\ fact[r].lookup /\ state[home[r]] = "processed"
    => r \in queued \/ home[r] \in blocked

\* spec/event-metric-contract-v0.4.md:52: a later delivery with the same key and
\* digest "creates no second raw or logical record".
NoSecondRecord ==
  \A r, q \in raw :
    fact[r].event = fact[q].event /\ fact[r].digest = fact[q].digest => r = q
=============================================================================
