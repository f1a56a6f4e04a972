--------------------------- MODULE MCSavedMetrics ---------------------------
(* A saved metric in three settings, of which the first state picks one: one   *)
(* record and two workers that may fail ("crowd"), two records and one worker  *)
(* that does not ("pair"), one record, one worker that may fail and a policy   *)
(* that is paused and resumed ("pause").  Others, that share no state with it: *)
(* the queue of the tenants' cycles ("queue"), and the inbox whose records a   *)
(* metric counts, with an install, its click and a resend ("inbox") or with    *)
(* what the worker refuses ("refusals").                                       *)
EXTENDS MetricCycles, FiniteSetsExt

VARIABLE part

\* An install with a token for a provider, its click, and a resend of the install.
Install == [name |-> "install", event |-> "e", digest |-> "x", click |-> "k",
            good |-> TRUE, lookup |-> TRUE, refused |-> FALSE]
Click == [Install EXCEPT !.name = "click", !.event = "f", !.lookup = FALSE]

\* For the refusals: an install without consent, the same install with it, together
\* with a click out of its window, the install once more with another payload, and
\* a body that cannot be read.
RecordFacts ==
  [install |-> Install, click |-> Click, resend |-> Install,
   early |-> [Install EXCEPT !.refused = TRUE], again |-> Install,
   expired |-> [Click EXCEPT !.good = FALSE],
   changed |-> [Install EXCEPT !.digest = "y"],
   lost |-> [Click EXCEPT !.event = "g"]]
RecordHomes ==
  [install |-> "a", click |-> "b", resend |-> "c",
   early |-> "d", expired |-> "e", again |-> "e", changed |-> "f", lost |-> "g"]
RecordPlaces == [r \in Record |-> IF r = "again" THEN 1 ELSE 0]

ASSUME MetricConstants == MetricAssumption
ASSUME PoolAssumption == Pool!CoordinatorAssumption
ASSUME InboxConstants == Inbox!InboxAssumption

poolVars == <<pendingTenants, queue, active, closed, running, idleWaiter,
  pollInFlight, left, listening, stopping, exit>>
inboxVars == <<arrival, state, retries, blocked, raw, canonical, erased,
  deliveries, result, late, queued, drain, throws, orphaned, overtaken>>

MCInit ==
  /\ part \in {"crowd", "pair", "pause", "queue", "inbox", "refusals"}
  /\ Init /\ Pool!Init /\ Inbox!Init

\* The batches that come, and the bounds of each setting.  Their times leave no gap
\* but for one batch that is still on its way.
InboxBounds ==
  LET received == {b \in Batch : state'[b] # "absent"}
      latest == Max({arrival'[b] : b \in Batch})
  IN  \/ /\ part = "inbox" /\ received \subseteq {"a", "b", "c"}
         /\ latest <= 3 /\ latest <= Cardinality(received) + 1
         /\ overtaken' # {} => throws' <= 1 /\ blocked' = {}
         /\ throws' = 2 => blocked' = {} /\ latest = Cardinality(received)
      \/ /\ part = "refusals" /\ received \subseteq {"d", "e", "f", "g"}
         /\ latest = Cardinality(received)
         /\ "g" \in received => {"d", "e", "f"} \subseteq received
         /\ throws' <= 1 /\ blocked' = {}

MCNext ==
  /\ part' = part
  /\ \/ part = "queue" /\ Pool!Next /\ UNCHANGED <<vars, inboxVars>>
     \/ part \in {"inbox", "refusals"} /\ Inbox!Next /\ InboxBounds /\ UNCHANGED <<vars, poolVars>>
     \/ /\ part \notin {"queue", "inbox", "refusals"}
        /\ Next /\ UNCHANGED <<poolVars, inboxVars>>
        /\ part # "pair" \/ record'["r"] = "unseen" => record'["s"] = "unseen"
        /\ part # "crowd" => worker'["v"] = worker["v"]
        /\ part # "pause" => pauses' = pauses
        /\ part = "pair" => requests' = requests /\ faults' = faults

\* Each is at rest in its first state, where its fairness asks nothing.
MCSpec ==
  /\ MCInit /\ [][MCNext]_<<part, vars, poolVars, inboxVars>>
  /\ Fairness /\ Pool!TimerFairness /\ Inbox!Fairness

\* The inbox by itself.
InboxSpec ==
  /\ MCInit /\ part = "inbox"
  /\ [][MCNext]_<<part, vars, poolVars, inboxVars>>

LookupsFollowRecords == Inbox!LookupsFollowRecords
NoSecondRecord == Inbox!NoSecondRecord
=============================================================================
