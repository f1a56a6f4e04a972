---------------------------- MODULE SavedMetrics ----------------------------
(***************************************************************************)
(* One saved metric and its lineage: the run a schedule computes, and the  *)
(* runs that supersede it when input comes late, when a cost is revised    *)
(* and when a record it counts is deleted.                                 *)
(*                                                                         *)
(* A calculation holds the tenant's privacy barrier shared and the lock of *)
(* the run it supersedes, both from before its snapshot to its commit, and *)
(* the row of its item.  Recognizing a deletion takes the barrier          *)
(* exclusively.  A run refers to every record up to the watermark it was   *)
(* computed at, the deleted ones too, and counts those that were not.      *)
(***************************************************************************)
EXTENDS Integers, Sequences, FiniteSets, FiniteSetsExt

CONSTANTS
  Records,
  Workers,          \* processes that run processMetricRecalculations
  MaximumAttempts,  \* 3 in the code
  Ahead,            \* how far a requested watermark may lie in the future
  MaxRequests,      \* bound: recalculations an administrator asks for
  MaxPauses,        \* bound: pauses of the correction policy
  MaxFaults         \* bound: crashes and failing transactions

\* What the constants are.
MetricAssumption == MaximumAttempts \in Nat \ {0} /\ Ahead \in Nat

VARIABLES
  now,
  record,     \* lifecycle of each record
  receivedAt,
  purging,    \* records whose deletion is recognized and not completed
  enabled, pauses, \* the correction policy
  receipts,   \* metric_correction_receipts: [state, attempts] of each record
  schedule,   \* the pending date: [state, watermark, evidence, counted]
  stale,      \* history: deleted records the schedule's run was saved with
  runs,       \* ledger.metric_runs, in order: the run each supersedes, the
              \* records its evidence_refs name, those it counted, its watermark
  items,      \* control.metric_recalculation_items
  worker,     \* the item each worker has claimed, and its calculation
  requests, faults

policy == <<enabled, pauses>>
inputs == <<record, receivedAt, purging>>
saved == <<runs, stale, schedule>>
vars == <<now, inputs, policy, receipts, saved, items, worker, requests, faults>>

Idle == [at |-> "idle"]
Nobody == "nobody"
Open == {"queued", "retry", "processing"}
ItemStates == Open \cup {"completed", "skipped", "failed", "unavailable"}
Faulting == faults < MaxFaults /\ faults' = faults + 1

Committed == {r \in Records : record[r] = "committed"}
Withdrawn == {r \in Records : record[r] = "withdrawn"}
\* What a calculation at a watermark refers to now, and what it counts of it.
Evidence(watermark) == {r \in Committed \cup Withdrawn : receivedAt[r] <= watermark}
Counted(watermark) == Evidence(watermark) \ Withdrawn
Superseded(n) == \E m \in DOMAIN runs : runs[m].of = n
\* The run of the lineage that nothing supersedes.
Newest == CHOOSE n \in DOMAIN runs : ~Superseded(n)
Pending(n) == \E i \in DOMAIN items : items[i].source = n /\ items[i].state \in Open
InHead(r) == runs # <<>> /\ r \in runs[Newest].counted
\* Every reference of a run must name an available record, also one that was
\* deleted before the run was computed.
EvidenceLost(n) == runs[n].evidence \cap Withdrawn # {}

TypeOK ==
  /\ now \in Nat
  /\ record \in [Records -> {"unseen", "received", "committed", "withdrawn"}]
  /\ receivedAt \in [Records -> 0..now]
  /\ purging \subseteq Withdrawn /\ stale \subseteq Withdrawn
  /\ receipts \in [Records ->
       [state : {"none", "queued", "retry", "completed", "unmatched", "unavailable",
                 "failed"},
        attempts : 0..MaximumAttempts]]
  /\ \A n \in DOMAIN runs : runs[n] \in
       [of : 0..(n - 1), evidence : SUBSET Records, counted : SUBSET Records,
        watermark : 0..(now + Ahead)]
  /\ \A i \in DOMAIN items : items[i] \in
       [source : DOMAIN runs, kind : {"late", "cost", "privacy"},
        inputs : SUBSET Records, watermark : 0..(now + Ahead),
        state : ItemStates, attempts : 0..MaximumAttempts,
        holder : Workers \cup {Nobody}, live : BOOLEAN]
  /\ \A w \in Workers : worker[w].at \in {"idle", "claimed", "calculating"}

Init ==
  /\ now = 0
  /\ record = [r \in Records |-> "unseen"]
  /\ receivedAt = [r \in Records |-> 0] /\ purging = {}
  /\ enabled = TRUE /\ pauses = 0
  /\ receipts = [r \in Records |-> [state |-> "none", attempts |-> 0]]
  /\ schedule = [state |-> "idle", watermark |-> 0, evidence |-> {},
                 counted |-> {}]
  /\ stale = {} /\ runs = <<>> /\ items = <<>>
  /\ worker = [w \in Workers |-> Idle]
  /\ requests = 0 /\ faults = 0

Item(kind, source, sources, watermark, state) ==
  [source |-> source, kind |-> kind, inputs |-> sources,
   watermark |-> watermark, state |-> state, attempts |-> 0,
   holder |-> Nobody, live |-> FALSE]

-----------------------------------------------------------------------------
(* Records and deletions *)

Receive(r) ==
  /\ record[r] = "unseen" /\ now' = now + 1
  /\ record' = [record EXCEPT ![r] = "received"]
  /\ receivedAt' = [receivedAt EXCEPT ![r] = now + 1]
  /\ UNCHANGED <<purging, policy, receipts, saved, items, worker, requests, faults>>

\* The trigger captures a receipt in the transaction that commits the record,
\* while the policy is paused too.
Commit(r) ==
  /\ record[r] = "received"
  /\ record' = [record EXCEPT ![r] = "committed"]
  /\ receipts' = [receipts EXCEPT ![r].state = "queued"]
  /\ UNCHANGED <<now, receivedAt, purging, policy, saved, items, worker,
                 requests, faults>>

Automatic(i) == items[i].kind = "late"

\* Mutants: a recognition waits for no calculation, a pause for none.
BarrierIgnored == TRUE
PolicyIgnored == TRUE

\* A calculation holds the barrier shared, an automatic one the policy's row too.
BarrierFree == \A w \in Workers : worker[w].at # "calculating"
PolicyFree ==
  \A w \in Workers : worker[w].at = "calculating" => ~Automatic(worker[w].item)

\* requestPrivacyMetricRecalculations, in the transaction of the recognition:
\* an item for the newest run that counts the record.
Recognize(r) ==
  /\ record[r] = "committed" /\ BarrierFree
  /\ record' = [record EXCEPT ![r] = "withdrawn"]
  /\ purging' = purging \cup {r}
  /\ items' = IF InHead(r)
              THEN Append(items, Item("privacy", Newest, {r},
                                      runs[Newest].watermark, "queued"))
              ELSE items
  /\ UNCHANGED <<now, receivedAt, policy, receipts, saved, worker, requests, faults>>

Purged(r) ==
  /\ r \in purging /\ purging' = purging \ {r}
  /\ UNCHANGED <<now, record, receivedAt, policy, receipts, saved, items, worker,
                 requests, faults>>

-----------------------------------------------------------------------------
(* The schedule: its calculation takes a snapshot and no barrier. *)

\* The watermark is a midnight that has passed.
ClaimDate ==
  /\ schedule.state = "idle"
  /\ \E midnight \in 0..now :
       schedule' = [schedule EXCEPT !.state = "pending", !.watermark = midnight]
  /\ UNCHANGED <<now, inputs, policy, receipts, runs, stale, items, worker,
                 requests, faults>>

Compute ==
  /\ schedule.state = "pending"
  /\ schedule' = [schedule EXCEPT !.state = "computing",
                                  !.evidence = Evidence(schedule.watermark),
                                  !.counted = Counted(schedule.watermark)]
  /\ UNCHANGED <<now, inputs, policy, receipts, runs, stale, items, worker,
                 requests, faults>>

ComputeDies ==
  /\ schedule.state = "computing" /\ Faulting
  /\ schedule' = [schedule EXCEPT !.state = "pending", !.evidence = {},
                                  !.counted = {}]
  /\ UNCHANGED <<now, inputs, policy, receipts, runs, stale, items, worker,
                 requests>>

Persist ==
  /\ schedule.state = "computing"
  /\ schedule' = [schedule EXCEPT !.state = "computed", !.evidence = {},
                                  !.counted = {}]
  /\ runs' = <<[of |-> 0, evidence |-> schedule.evidence,
                counted |-> schedule.counted, watermark |-> schedule.watermark]>>
  /\ stale' = schedule.counted \cap Withdrawn
  /\ UNCHANGED <<now, inputs, policy, receipts, items, worker, requests, faults>>

-----------------------------------------------------------------------------
(* planAutomaticMetricCorrections: one receipt, under the shared barrier.  It  *)
(* and the schedule are jobs of one cycle and never run at once.               *)

Plannable(r) ==
  /\ receipts[r].state \in {"queued", "retry"}
  /\ enabled /\ PolicyFree /\ purging = {} /\ schedule.state # "computing"
  /\ runs # <<>> => ~Pending(Newest)  \* else it waits, without an attempt

\* Mutant: the cutoff is when the record was received.
ReceivedCutoff(r) == receivedAt[r]

\* The operational cutoff, not before the record's own time nor the planning's.
Cutoff(r) == Max({receivedAt[r], now + 1})
Included(r) == InHead(r) \/ runs[Newest].watermark >= Cutoff(r)

Plan(r) ==
  /\ Plannable(r)
  /\ receipts' = [receipts EXCEPT
       ![r] = [state |-> CASE r \in Withdrawn -> "unavailable"
                           [] runs = <<>> -> "unmatched"
                           [] OTHER -> "completed",
               attempts |-> 0]]
  /\ items' =
       IF r \in Withdrawn \/ runs = <<>> \/ Included(r) THEN items
       ELSE Append(items, Item("late", Newest, {r}, Cutoff(r),
              IF EvidenceLost(Newest) THEN "unavailable" ELSE "queued"))
  /\ now' = IF items' = items THEN now ELSE Cutoff(r)
  /\ UNCHANGED <<inputs, policy, saved, worker, requests, faults>>

PlanFails(r) ==
  /\ Plannable(r) /\ r \notin Withdrawn /\ Faulting
  /\ LET n == receipts[r].attempts + 1 IN
     receipts' = [receipts EXCEPT
       ![r] = [state |-> IF n >= MaximumAttempts THEN "failed" ELSE "retry",
               attempts |-> n]]
  /\ UNCHANGED <<now, inputs, policy, saved, items, worker, requests>>

-----------------------------------------------------------------------------
(* processMetricRecalculations *)

\* The owned check has locked the item's row.
Locked(i) == \E w \in Workers : worker[w].at = "calculating" /\ worker[w].item = i

\* An item whose last attempt is over and came to no end.
Exhausted(i) ==
  /\ items[i].state \in {"processing", "retry"}
  /\ items[i].attempts >= MaximumAttempts
  /\ ~items[i].live /\ ~Locked(i)

Ended(item, state) == [item EXCEPT !.state = state, !.holder = Nobody, !.live = FALSE]
Exhaust == [i \in DOMAIN items |->
              IF Exhausted(i) THEN Ended(items[i], "failed") ELSE items[i]]

Claimable(i) ==
  /\ items[i].state \in Open /\ items[i].attempts < MaximumAttempts
  /\ ~items[i].live /\ ~Locked(i)
  /\ Automatic(i) => enabled
  /\ items[i].kind = "privacy" => purging = {}

ClaimNext(w, i) ==
  /\ worker[w] = Idle /\ Claimable(i)
  /\ worker' = [worker EXCEPT ![w] = [at |-> "claimed", item |-> i]]
  /\ items' = [Exhaust EXCEPT ![i].state = "processing", ![i].attempts = @ + 1,
                              ![i].holder = w, ![i].live = TRUE]
  /\ UNCHANGED <<now, inputs, policy, receipts, saved, requests, faults>>

NothingToClaim(w) ==
  /\ worker[w] = Idle /\ ~\E i \in DOMAIN items : Claimable(i)
  /\ Exhaust # items /\ items' = Exhaust
  /\ UNCHANGED <<now, inputs, policy, receipts, saved, worker, requests, faults>>

Expire(i) ==
  /\ items[i].live /\ items' = [items EXCEPT ![i].live = FALSE]
  /\ UNCHANGED <<now, inputs, policy, receipts, saved, worker, requests, faults>>

Owned(w, i) == items[i].holder = w /\ items[i].live
Retried(item) == Ended(item, IF item.attempts >= MaximumAttempts THEN "failed"
                                                                 ELSE "retry")
Unavailable(i) ==
  items[i].kind = "late" /\ (items[i].inputs \cap Withdrawn # {}
                             \/ EvidenceLost(items[i].source))

\* How an item ends before anything is calculated for it.
EndedEarly(i) ==
  IF Automatic(i) /\ ~enabled
  THEN [Ended(items[i], "queued") EXCEPT !.attempts = @ - 1]
  ELSE IF purging # {} THEN Retried(items[i])
  ELSE IF Unavailable(i) THEN Ended(items[i], "unavailable")
  ELSE Ended(items[i], "skipped")

\* Mutant: no lock of the run.
RunNeverLocked(n) == FALSE

\* Another calculation holds the lock of the run.
RunLocked(n) ==
  \E w \in Workers : worker[w].at = "calculating" /\ items[worker[w].item].source = n

Calculates(i) ==
  /\ Automatic(i) => enabled
  /\ purging = {} /\ ~Unavailable(i) /\ ~Superseded(items[i].source)

\* The locks, then the snapshot: what is counted is read here.
Begin(w) ==
  LET i == worker[w].item IN
  /\ worker[w].at = "claimed" /\ ~RunLocked(items[i].source)
  /\ Owned(w, i) /\ Calculates(i)
  /\ worker' = [worker EXCEPT ![w] =
       [at |-> "calculating", item |-> i, evidence |-> Evidence(items[i].watermark),
        counted |-> Counted(items[i].watermark)]]
  /\ UNCHANGED <<now, inputs, policy, receipts, saved, items, requests, faults>>

EndEarly(w) ==
  LET i == worker[w].item IN
  /\ worker[w].at = "claimed" /\ ~RunLocked(items[i].source)
  /\ ~(Owned(w, i) /\ Calculates(i))
  /\ worker' = [worker EXCEPT ![w] = Idle]
  /\ items' = IF Owned(w, i) THEN [items EXCEPT ![i] = EndedEarly(i)] ELSE items
  /\ UNCHANGED <<now, inputs, policy, receipts, saved, requests, faults>>

Publish(w) ==
  LET i == worker[w].item IN
  /\ worker[w].at = "calculating" /\ worker' = [worker EXCEPT ![w] = Idle]
  /\ runs' = Append(runs, [of |-> items[i].source, evidence |-> worker[w].evidence,
                           counted |-> worker[w].counted,
                           watermark |-> items[i].watermark])
  /\ items' = [items EXCEPT ![i] = Ended(@, "completed")]
  /\ UNCHANGED <<now, inputs, policy, receipts, stale, schedule, requests, faults>>

\* The transaction fails; the failure is recorded by token, whatever the lease.
Fail(w) ==
  LET i == worker[w].item IN
  /\ worker[w].at # "idle" /\ worker' = [worker EXCEPT ![w] = Idle] /\ Faulting
  /\ items' = IF items[i].holder = w THEN [items EXCEPT ![i] = Retried(@)] ELSE items
  /\ UNCHANGED <<now, inputs, policy, receipts, saved, requests>>

Die(w) ==
  /\ worker[w].at # "idle" /\ worker' = [worker EXCEPT ![w] = Idle] /\ Faulting
  /\ UNCHANGED <<now, inputs, policy, receipts, saved, items, requests>>

-----------------------------------------------------------------------------
(* Administration *)

\* What an administrator asks for: the run's own watermark, the present or, as
\* nothing compares it with the clock, a time to come.
Watermarks == IF runs = <<>> THEN {} ELSE {runs[Newest].watermark, now, now + Ahead}

\* requestMetricRecalculation for a revised cost, at the watermark asked for.
Request(watermark) ==
  /\ requests < MaxRequests /\ requests' = requests + 1
  /\ items' = Append(items, Item("cost", Newest, {}, watermark, "queued"))
  /\ UNCHANGED <<now, inputs, policy, receipts, saved, worker, faults>>

\* saveMetricCorrectionPolicy
SetPolicy ==
  /\ PolicyFree /\ enabled' = ~enabled
  /\ enabled => pauses < MaxPauses
  /\ pauses' = IF enabled THEN pauses + 1 ELSE pauses
  /\ UNCHANGED <<now, inputs, receipts, saved, items, worker, requests, faults>>

-----------------------------------------------------------------------------
Step(w) ==
  \/ \E i \in DOMAIN items : ClaimNext(w, i)
  \/ NothingToClaim(w) \/ Begin(w) \/ EndEarly(w) \/ Publish(w)

Next ==
  \/ \E r \in Records : \/ Receive(r) \/ Commit(r) \/ Recognize(r) \/ Purged(r)
                        \/ Plan(r) \/ PlanFails(r)
  \/ ClaimDate \/ Compute \/ ComputeDies \/ Persist
  \/ \E w \in Workers : Step(w) \/ Fail(w) \/ Die(w)
  \/ \E i \in DOMAIN items : Expire(i)
  \/ \E watermark \in Watermarks : Request(watermark)
  \/ SetPolicy

\* The cycle comes back to its jobs, a calculation that is not interrupted
\* ends, a lease runs out and a recognized deletion is completed.
Fairness ==
  /\ WF_vars(\E w \in Workers : Step(w))
  /\ WF_vars(\E r \in Records : Plan(r)) /\ WF_vars(Persist)
  /\ WF_vars(\E i \in DOMAIN items : Expire(i))
  /\ WF_vars(\E r \in Records : Purged(r))

Spec == Init /\ [][Next]_vars /\ Fairness

-----------------------------------------------------------------------------
(* Properties *)

\* Late, cost and privacy items, claimed twice and by several workers, supersede
\* a run once: the lineage is a chain with one head.
NoForks ==
  \A m, n \in DOMAIN runs : runs[m].of = runs[n].of => m = n

\* Once a pause is saved no automatic calculation that was on its way publishes.
PausePublishesNothing ==
  [][\A i \in DOMAIN items :
       (Automatic(i) /\ items[i].state # "completed" /\ items'[i].state = "completed")
         => enabled]_vars

\* A committed record is counted by the newest run, in whatever order it was
\* received, committed and planned, unless it is deleted, the policy is paused, its
\* receipt or its item says that it did not get there, or the run that its item
\* corrects refers to a deleted record: after that nothing is corrected there.
NotPlanned(r) == receipts[r].state \in {"failed", "unmatched"}
NotCorrected(r) ==
  \E i \in DOMAIN items :
    /\ items[i].kind = "late" /\ r \in items[i].inputs
    /\ \/ items[i].state \in {"failed", "skipped"}
       \/ items[i].state = "unavailable" /\ EvidenceLost(items[i].source)
LateInputReachesHead ==
  \A r \in Records :
    []<>(r \in Committed /\ runs # <<>> =>
         \/ InHead(r) \/ ~enabled \/ NotPlanned(r) \/ NotCorrected(r))

\* A deleted record leaves the newest run, unless the item for it failed or the
\* schedule saved a run it had computed before the deletion.
DeletedLeavesHead ==
  \A r \in Records :
    []<>(r \in Withdrawn =>
         \/ ~InHead(r) \/ r \in stale
         \/ \E i \in DOMAIN items : items[i].kind = "privacy" /\ items[i].state = "failed")
=============================================================================
