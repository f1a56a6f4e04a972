----------------------------- MODULE CostRefresh -----------------------------
(***************************************************************************)
(* One cost schedule: its daily range and the days of confirmed backfills  *)
(* are acquired under one lease in one checkpoint, by workers that may     *)
(* overlap, outlive their lease or die.  A publication and the move of the *)
(* checkpoint are one transaction.                                         *)
(*                                                                         *)
(* A day is its number, today the newest complete one.  What a source      *)
(* answers is a choice between its outcomes.                               *)
(***************************************************************************)
EXTENDS Integers, Sequences, FiniteSets, FiniteSetsExt, Bags

CONSTANTS
  Workers,
  LookbackDays,
  MaximumAttempts,  \* 3 in the code
  LastDay,          \* bound: days that pass
  MaxBackfills,     \* bound: backfills confirmed
  MaxDates          \* bound: days of one backfill

None == "none"
CostAssumption ==
  /\ None \notin Workers
  /\ MaximumAttempts \in Nat \ {0} /\ LastDay \in Nat \ {0}

VARIABLES
  active,      \* status of the schedule
  today,
  checkpoint,  \* cost_schedule_checkpoints: [state, pending, attempts, last]
  lease,       \* its lease columns: [holder, live, day], day of a backfill
  backfills,   \* cost_backfills: [days, refreshed], by order of confirmation
  cooling,     \* claims whose next_attempt_at has not come
  worker,      \* the claim each worker acquires, and where it stands
  published    \* history: the bag of the claims imported

vars == <<active, today, checkpoint, lease, backfills, cooling, worker,
          published>>

Between(since, until) == [since |-> since, until |-> until]
NoRange == Between(1, 0)
In(d, range) == range.since <= d /\ d <= range.until

Free == [holder |-> None, live |-> FALSE, day |-> <<0, 0>>]
\* A claim is <<backfill, day>>; the daily range's is <<0, 0>>.
Daily == <<0, 0>>
Idle == [step |-> "idle"]

DayStates == {"queued", "retry", "processing", "complete", "failed", "skipped",
              "stopped"}
Open == {"queued", "retry", "processing"}
Targets == {c \in (DOMAIN backfills) \X (1..LastDay) :
              c[2] \in DOMAIN backfills[c[1]].days}
Day(c) == backfills[c[1]].days[c[2]]
SetDay(c, day) == [backfills EXCEPT ![c[1]].days[c[2]] = day]
\* The row that planWithClient reads for a date: its newest.
Newest(d) == {c \in Targets : c[2] = d /\ \A b \in Targets :
                                  b[2] = d => b[1] <= c[1]}

TypeOK ==
  /\ active \in BOOLEAN /\ today \in 1..LastDay
  /\ checkpoint.state \in {"idle", "retry", "processing", "failed", "stopped"}
  /\ checkpoint.attempts \in 0..MaximumAttempts
  /\ checkpoint.pending # NoRange => checkpoint.pending.until <= today
  /\ lease.holder \in Workers \cup {None} /\ lease.live \in BOOLEAN
  /\ lease.day \in Targets \cup {Daily}
  /\ \A c \in Targets : /\ Day(c).state \in DayStates
                        /\ Day(c).attempts \in 0..MaximumAttempts
  /\ cooling \subseteq Targets \cup {Daily}
  /\ \A w \in Workers : worker[w].step \in {"idle", "refresh", "acquire"}

Init ==
  /\ active = TRUE /\ today = 1
  /\ checkpoint = [state |-> "idle", pending |-> NoRange, attempts |-> 0,
                   last |-> NoRange]
  /\ lease = Free /\ backfills = <<>> /\ cooling = {}
  /\ worker = [w \in Workers |-> Idle] /\ published = EmptyBag

-----------------------------------------------------------------------------
(* Claims *)

LeaseFree == lease.holder = None \/ ~lease.live

\* lease_expires_at passes; next_attempt_at comes.
Expire ==
  /\ lease.live /\ lease' = [lease EXCEPT !.live = FALSE]
  /\ UNCHANGED <<active, today, checkpoint, backfills, cooling, worker,
                 published>>
Cool(c) ==
  /\ c \in cooling /\ cooling' = cooling \ {c}
  /\ UNCHANGED <<active, today, checkpoint, lease, backfills, worker, published>>
NextDay ==
  /\ today < LastDay /\ today' = today + 1
  /\ UNCHANGED <<active, checkpoint, lease, backfills, cooling, worker,
                 published>>

\* The due days a worker may claim, and the first of them.
Due == {c \in Targets : /\ active /\ LeaseFree
                        /\ Day(c).state \in Open /\ c \notin cooling
                        /\ lease.day \in {Daily, c}
                        /\ checkpoint.state = "processing" => lease.day # Daily}
First(c) == c \in Due /\ \A b \in Due :
              c[1] < b[1] \/ (c[1] = b[1] /\ c[2] <= b[2])

\* A daily refresh since the preview has acquired the day.
Covered(c) == In(c[2], checkpoint.last) /\ backfills[c[1]].refreshed

Claim(w, c, range, attempts) ==
  /\ lease' = [holder |-> w, live |-> TRUE, day |-> c]
  /\ worker' = [worker EXCEPT ![w] = [step |-> "acquire", target |-> c,
                                      range |-> range, attempts |-> attempts]]

ClaimBackfill(w, c) ==
  /\ worker[w] = Idle /\ First(c)
  /\ Day(c).attempts < MaximumAttempts /\ ~Covered(c)
  /\ Claim(w, c, Between(c[2], c[2]), Day(c).attempts + 1)
  /\ backfills' = SetDay(c, [state |-> "processing",
                             attempts |-> Day(c).attempts + 1])
  /\ UNCHANGED <<active, today, checkpoint, cooling, published>>

\* A day that is not to be acquired ends; the worker goes on to the refresh.
EndDay(w, c) ==
  /\ worker[w] = Idle /\ First(c)
  /\ Day(c).attempts >= MaximumAttempts \/ Covered(c)
  /\ backfills' = SetDay(c, [Day(c) EXCEPT !.state =
       IF Day(c).attempts >= MaximumAttempts THEN "failed" ELSE "skipped"])
  /\ lease' = IF lease.day = c THEN Free ELSE lease
  /\ worker' = [worker EXCEPT ![w].step = "refresh"]
  /\ UNCHANGED <<active, today, checkpoint, cooling, published>>

NoBackfill(w) ==
  /\ worker[w] = Idle /\ Due = {}
  /\ worker' = [worker EXCEPT ![w].step = "refresh"]
  /\ UNCHANGED <<active, today, checkpoint, lease, backfills, cooling, published>>

\* Mutant: a range whose last attempt was killed stays in processing.
ExhaustedNever == FALSE

\* The last attempt's process was killed: its range fails.
Exhausted ==
  /\ lease.day = Daily /\ checkpoint.state = "processing"
  /\ checkpoint.attempts = MaximumAttempts
  /\ lease.holder # None /\ ~lease.live

Refreshable ==
  /\ active /\ lease.day = Daily /\ LeaseFree /\ Daily \notin cooling
  /\ checkpoint.state \in {"idle", "retry", "processing"}
  /\ checkpoint.pending # NoRange => checkpoint.attempts < MaximumAttempts

\* costRefreshRange, unless a range is pending: that one is kept.
NextRange ==
  IF checkpoint.pending # NoRange THEN checkpoint.pending
  ELSE Between(Max({1, today - LookbackDays + 1}), today)

ClaimRefresh(w) ==
  LET attempts == IF checkpoint.pending # NoRange THEN checkpoint.attempts + 1
                  ELSE 1 IN
  /\ worker[w].step = "refresh" /\ ~Exhausted /\ Refreshable
  /\ NextRange.until > checkpoint.last.until
  /\ Claim(w, Daily, NextRange, attempts)
  /\ checkpoint' = [checkpoint EXCEPT !.state = "processing",
                      !.pending = NextRange, !.attempts = attempts]
  /\ UNCHANGED <<active, today, backfills, cooling, published>>

NoRefresh(w) ==
  /\ worker[w].step = "refresh"
  /\ \/ Exhausted /\ checkpoint' = [checkpoint EXCEPT !.state = "failed"]
                  /\ lease' = Free
     \/ ~Exhausted /\ ~(Refreshable /\ NextRange.until > checkpoint.last.until)
        /\ UNCHANGED <<checkpoint, lease>>
  /\ worker' = [worker EXCEPT ![w] = Idle]
  /\ UNCHANGED <<active, today, backfills, cooling, published>>

-----------------------------------------------------------------------------
(* The end of an acquisition *)

\* Mutant: any live lease will do.
HoldsAny(w) == lease.live /\ active

\* Only a claim's own live lease lets its worker write.
Holds(w) == lease.holder = w /\ lease.live /\ active
Target(w) == worker[w].target
Returns(w) == worker[w].step = "acquire" /\ worker' = [worker EXCEPT ![w] = Idle]

\* completeClaim, finishBackfill: an empty answer moves the checkpoint too.
Complete(w) ==
  LET c == Target(w) IN
  /\ Returns(w) /\ Holds(w) /\ lease' = Free
  /\ published' = published (+) SetToBag({<<c, worker[w].range>>})
  /\ IF c = Daily
     THEN /\ checkpoint' = [state |-> "idle", pending |-> NoRange,
                            attempts |-> 0, last |-> worker[w].range]
          /\ backfills' = [b \in DOMAIN backfills |->
                             [backfills[b] EXCEPT !.refreshed = TRUE]]
     ELSE backfills' = SetDay(c, [Day(c) EXCEPT !.state = "complete"])
          /\ UNCHANGED checkpoint
  /\ UNCHANGED <<active, today, cooling>>

\* failClaim: a transient failure is tried again, after five minutes.
Fail(w, transient) ==
  LET c == Target(w)
      state == IF transient /\ worker[w].attempts < MaximumAttempts
               THEN "retry" ELSE "failed"
  IN
  /\ Returns(w) /\ Holds(w) /\ lease' = Free
  /\ cooling' = cooling \cup (IF state = "retry" THEN {c} ELSE {})
  /\ IF c = Daily
     THEN checkpoint' = [checkpoint EXCEPT !.state = state]
          /\ UNCHANGED backfills
     ELSE backfills' = SetDay(c, [Day(c) EXCEPT !.state = state])
          /\ UNCHANGED checkpoint
  /\ UNCHANGED <<active, today, published>>

\* The worker dies, its transaction fails, or it comes too late and is fenced.
Abandon(w) ==
  /\ Returns(w)
  /\ UNCHANGED <<active, today, checkpoint, lease, backfills, cooling, published>>

-----------------------------------------------------------------------------
(* Administration, under the checkpoint's row lock *)

\* eligible in planWithClient.
Eligible(d) ==
  IF Newest(d) # {} THEN \A c \in Newest(d) : Day(c).state = "failed"
  ELSE IF In(d, checkpoint.pending) THEN checkpoint.state = "failed"
  ELSE ~In(d, checkpoint.last)

\* The confirmation plans again and refuses a plan that has changed since the
\* preview; a retry of a backfill's failed days keeps the as_of of its preview.
Confirm(dates, retried, refreshed) ==
  /\ active /\ Len(backfills) < MaxBackfills
  /\ Cardinality(dates) <= MaxDates /\ \A d \in dates : Eligible(d)
  /\ IF retried = 0
     THEN refreshed => /\ checkpoint.last # NoRange
                       /\ \A d \in dates : Newest(d) # {}
     ELSE /\ refreshed = backfills[retried].refreshed
          /\ \A d \in dates : /\ <<retried, d>> \in Targets
                              /\ Day(<<retried, d>>).state = "failed"
  /\ backfills' = Append(backfills,
       [days |-> [d \in dates |-> [state |-> "queued", attempts |-> 0]],
        refreshed |-> refreshed])
  /\ UNCHANGED <<active, today, checkpoint, lease, cooling, worker, published>>

Disable ==
  /\ active /\ active' = FALSE
  /\ checkpoint' = [checkpoint EXCEPT !.state = "stopped"] /\ lease' = Free
  /\ backfills' = [b \in DOMAIN backfills |-> [backfills[b] EXCEPT !.days =
       [d \in DOMAIN @ |-> IF @[d].state \in Open
                           THEN [@[d] EXCEPT !.state = "stopped"] ELSE @[d]]]]
  /\ UNCHANGED <<today, cooling, worker, published>>

-----------------------------------------------------------------------------
Step(w) ==
  \/ \E c \in Targets : ClaimBackfill(w, c) \/ EndDay(w, c)
  \/ NoBackfill(w) \/ ClaimRefresh(w) \/ NoRefresh(w)
  \/ Complete(w) \/ \E transient \in BOOLEAN : Fail(w, transient)
  \/ Abandon(w)

Next ==
  \/ \E w \in Workers : Step(w)
  \/ Expire \/ NextDay \/ \E c \in cooling : Cool(c)
  \/ \E dates \in SUBSET (1..today) \ {{}}, retried \in 0..Len(backfills),
        refreshed \in BOOLEAN : Confirm(dates, retried, refreshed)
  \/ Disable

\* The schedule's job is run again and again and time passes; a worker ends
\* its acquisition, by its own timeout at the latest, well or badly.
Fairness ==
  /\ \A w \in Workers : WF_vars(Step(w))
  /\ WF_vars(Expire) /\ WF_vars(\E c \in cooling : Cool(c))

Spec == Init /\ [][Next]_vars /\ Fairness

-----------------------------------------------------------------------------
(* Properties *)

\* However claims overlap, expire and are retried, no date is imported twice
\* by backfills and no daily range ends twice on the same day.
PublishedOnce ==
  \A x, y \in BagToSet(published) :
    (x[1] = Daily <=> y[1] = Daily) /\ x[2].until = y[2].until
    => x = y /\ published[x] = 1

\* Neither kind of claim can lock the other out of the shared lease: whatever
\* worker dies at whatever attempt, the pending range ends and so does every
\* confirmed day (a bounded number of them is ever asked for).
Unfinished ==
  \/ checkpoint.state \in {"processing", "retry"}
  \/ \E c \in Targets : Day(c).state \in Open
ClaimsEnd == []<>~Unfinished
=============================================================================
