---------------------------- MODULE WorkerSchedule ----------------------------
(* One scheduled job of one tenant: the row of control.worker_job_schedules,   *)
(* the advisory lock of the job, and the calls of runScheduledJob that         *)
(* different workers make for it (apps/runtime/src/scheduler.ts).              *)
(*                                                                             *)
(* A run holds one database connection from its claim to its outcome.  The     *)
(* client's end of it (link) and the server's end (backend) fail separately:   *)
(* a statement whose answer is lost may still be committed by the server       *)
(* until the backend ends, and the backend keeps the advisory lock until then. *)
(* Every transaction of the store is one statement here, because nothing of it *)
(* is visible before its COMMIT.  The server keeps no clock: each statement    *)
(* carries the Date its caller read, which may lag behind (Lag).               *)
EXTENDS Integers

CONSTANTS Run,        \* the calls of runScheduledJob
          Nobody,     \* no token, no lock holder
          Interval,   \* SchedulePolicy.intervalMs, in ticks
          Retry,      \* SchedulePolicy.retryMs, in ticks
          Lease,      \* SchedulePolicy.leaseMs, in ticks
          Lag,        \* how far a worker's clock may be behind
          LastLease,  \* bound: no claim or renewal is sent after this time
          Horizon     \* bound: where the clock stops

\* What the constants are.
BoundAssumptions ==
    /\ Nobody \notin Run
    /\ Interval \in Nat \ {0} /\ Retry \in Nat \ {0} /\ Lease \in Nat \ {0}
    /\ Lag \in Nat /\ LastLease \in Nat /\ Horizon \in Nat
    /\ LastLease + Lease =< Horizon

VARIABLES
    clock,      \* real time
    row,        \* control.worker_job_schedules
    advisory,   \* the run whose backend holds the advisory lock of the job
    link,       \* the client's end of the run's connection
    backend,    \* the server's end
    statement,  \* the transaction the server has of the run, and its fate
    waits,      \* the transaction whose answer the run is waiting for
    phase,      \* where the run is in runScheduledJob
    okay,       \* the task resolved
    leaseLost,  \* a renewal did not succeed
    result,     \* what runScheduledJob returned, or how it ended
    outcome     \* history: the outcomes the row has recorded for the claim

vars == <<clock, row, advisory, link, backend, statement, waits, phase,
          okay, leaseLost, result, outcome>>

Ops == {"claim", "renew", "complete", "fail"}
Fates == {"none", "sent", "matched", "unmatched", "aborted"}
NoStatement == [op |-> "claim", at |-> 0, fate |-> "none"]
Phases == {"new", "connecting", "claiming", "running", "settling",
           "completing", "failing", "over"}

TypeOK ==
    /\ clock \in 0..Horizon
    /\ row \in [token : Run \cup {Nobody}, expires : Nat, next : Nat]
    /\ advisory \in Run \cup {Nobody}
    /\ link \in [Run -> {"none", "up", "down"}]
    /\ backend \in [Run -> {"none", "live", "ended"}]
    /\ statement \in [Run -> [op : Ops, at : Nat, fate : Fates]]
    /\ waits \in [Run -> {"none"} \cup Ops]
    /\ phase \in [Run -> Phases]
    /\ okay \in [Run -> BOOLEAN]
    /\ leaseLost \in [Run -> BOOLEAN]
    /\ result \in [Run -> {"none", "not_due", "succeeded", "failed",
                           "unavailable", "crashed"}]
    /\ outcome \in [Run -> SUBSET {"succeeded", "failed"}]

Init ==
    /\ clock = 0
    /\ row = [token |-> Nobody, expires |-> 0, next |-> 0]
    /\ advisory = Nobody
    /\ link = [r \in Run |-> "none"]
    /\ backend = [r \in Run |-> "none"]
    /\ statement = [r \in Run |-> NoStatement]
    /\ waits = [r \in Run |-> "none"]
    /\ phase = [r \in Run |-> "new"]
    /\ okay = [r \in Run |-> FALSE]
    /\ leaseLost = [r \in Run |-> FALSE]
    /\ result = [r \in Run |-> "none"]
    /\ outcome = [r \in Run |-> {}]

-----------------------------------------------------------------------------
(* The clock and the connection.                                               *)

\* The Dates a worker may read now.
Readings == {t \in (clock - Lag)..clock : t >= 0}

Tick ==
    /\ clock < Horizon
    /\ clock' = clock + 1
    /\ UNCHANGED <<row, advisory, link, backend, statement, waits, phase,
                   okay, leaseLost, result, outcome>>

\* The client loses the connection: an error on the socket, or the cycle's
\* fence destroying what the cycle borrowed.
LinkBreaks(r) ==
    /\ link[r] = "up"
    /\ link' = [link EXCEPT ![r] = "down"]
    /\ UNCHANGED <<clock, row, advisory, backend, statement, waits, phase,
                   okay, leaseLost, result, outcome>>

\* The server ends the backend: its transaction is gone and its session locks
\* are released.
BackendEnds(r) ==
    /\ backend[r] = "live"
    /\ backend' = [backend EXCEPT ![r] = "ended"]
    /\ link' = [link EXCEPT ![r] = "down"]
    /\ advisory' = IF advisory = r THEN Nobody ELSE advisory
    /\ statement' = [statement EXCEPT ![r].fate =
                        IF @ = "sent" THEN "aborted" ELSE @]
    /\ UNCHANGED <<clock, row, waits, phase, okay, leaseLost,
                   result, outcome>>

\* A transaction reaches the server only over a connection that is up; over
\* one that is down its first query rejects.
Sent(r, op, at) ==
    /\ waits' = [waits EXCEPT ![r] = op]
    /\ statement' = IF link[r] = "up"
                    THEN [statement EXCEPT ![r] =
                             [op |-> op, at |-> at, fate |-> "sent"]]
                    ELSE statement

Heard(r, fate) == link[r] = "up" /\ statement[r].fate = fate

\* The transaction threw: it was aborted, or its answer will never arrive.
Threw(r) == Heard(r, "aborted") \/ link[r] = "down"

\* The promise of the transaction has settled, either way.
Settled(r) == link[r] = "down" \/ statement[r].fate \notin {"none", "sent"}

\* The run stops waiting.  What the server still has of it is not taken back.
Answered(r) ==
    /\ waits' = [waits EXCEPT ![r] = "none"]
    /\ statement' = IF statement[r].fate = "sent"
                    THEN statement
                    ELSE [statement EXCEPT ![r] = NoStatement]

\* Mutant: the connection goes back to the pool with its session lock.
UnlockForgotten(r) ==
    /\ link' = [link EXCEPT ![r] = "none"]
    /\ UNCHANGED <<advisory, backend>>

\* pg_advisory_unlock and client.release: the connection goes back to the pool,
\* unless the unlock is lost with it.
Unlock(r) ==
    \/ /\ link[r] = "up"
       /\ advisory' = Nobody
       /\ link' = [link EXCEPT ![r] = "none"]
       /\ backend' = [backend EXCEPT ![r] = "none"]
    \/ /\ link[r] \in {"up", "down"}
       /\ link' = [link EXCEPT ![r] = "down"]
       /\ UNCHANGED <<advisory, backend>>

-----------------------------------------------------------------------------
(* The transactions, as the server executes them.                              *)

\* The WHERE clause of each UPDATE.  A lease of NULL is an expires of 0.
ClaimDue(at) == row.next =< at                       \* mutant: lease not tested
ClaimMatches(at) == row.next =< at /\ row.expires =< at
HoldsToken(r) == row.token = r

Matches(r) ==
    LET s == statement[r] IN
    IF s.op = "claim" THEN ClaimMatches(s.at) ELSE HoldsToken(r)

\* The SET clause of each UPDATE.
Updated(r) ==
    LET s == statement[r] IN
    CASE s.op = "claim" ->
             [row EXCEPT !.token = r, !.expires = s.at + Lease]
      [] s.op = "renew" ->
             [row EXCEPT !.expires = s.at + Lease]
      [] s.op = "complete" ->
             [token |-> Nobody, expires |-> 0, next |-> s.at + Interval]
      [] s.op = "fail" ->
             [token |-> Nobody, expires |-> 0, next |-> s.at + Retry]

Recorded(r) ==
    CASE statement[r].op = "complete" -> {"succeeded"}
      [] statement[r].op = "fail" -> {"failed"}
      [] OTHER -> {}

ServerCommits(r) ==
    /\ backend[r] = "live"
    /\ statement[r].fate = "sent"
    /\ \/ /\ Matches(r)
          /\ row' = Updated(r)
          /\ statement' = [statement EXCEPT ![r].fate = "matched"]
          /\ outcome' = [outcome EXCEPT ![r] = @ \cup Recorded(r)]
       \/ /\ ~Matches(r)
          /\ statement' = [statement EXCEPT ![r].fate = "unmatched"]
          /\ UNCHANGED <<row, outcome>>
    /\ UNCHANGED <<clock, advisory, link, backend, waits, phase, okay,
                   leaseLost, result>>

ServerAborts(r) ==
    /\ backend[r] = "live"
    /\ statement[r].fate = "sent"
    /\ statement' = [statement EXCEPT ![r].fate = "aborted"]
    /\ UNCHANGED <<clock, row, advisory, link, backend, waits, phase,
                   okay, leaseLost, result, outcome>>

-----------------------------------------------------------------------------
(* claim                                                                       *)

Start(r) ==
    /\ phase[r] = "new"
    /\ clock =< LastLease
    /\ \E t \in Readings : statement' = [statement EXCEPT ![r].at = t]
    /\ phase' = [phase EXCEPT ![r] = "connecting"]
    /\ UNCHANGED <<clock, row, advisory, link, backend, waits, okay,
                   leaseLost, result, outcome>>

LockFree(r) == advisory = Nobody

\* pool.connect and pg_try_advisory_lock, then the claim is sent with the Date
\* read at the start.
TryLock(r) ==
    /\ phase[r] = "connecting"
    /\ LockFree(r)
    /\ advisory' = r
    /\ link' = [link EXCEPT ![r] = "up"]
    /\ backend' = [backend EXCEPT ![r] = "live"]
    /\ statement' = [statement EXCEPT ![r].fate = "sent"]
    /\ waits' = [waits EXCEPT ![r] = "claim"]
    /\ phase' = [phase EXCEPT ![r] = "claiming"]
    /\ UNCHANGED <<clock, row, okay, leaseLost, result, outcome>>

\* The call ends.
Return(r, res) ==
    /\ phase' = [phase EXCEPT ![r] = "over"]
    /\ result' = [result EXCEPT ![r] = res]

LockTaken(r) ==
    /\ phase[r] = "connecting"
    /\ ~LockFree(r)
    /\ Return(r, "not_due")
    /\ UNCHANGED <<clock, row, advisory, link, backend, statement, waits,
                   okay, leaseLost, outcome>>

ConnectFails(r) ==
    /\ phase[r] = "connecting"
    /\ Return(r, "unavailable")
    /\ UNCHANGED <<clock, row, advisory, link, backend, statement, waits,
                   okay, leaseLost, outcome>>

Claimed(r) ==
    /\ phase[r] = "claiming"
    /\ Heard(r, "matched")
    /\ Answered(r)
    /\ phase' = [phase EXCEPT ![r] = "running"]
    /\ UNCHANGED <<clock, row, advisory, link, backend, okay,
                   leaseLost, result, outcome>>

\* Not due or leased: unlock and return null.  A lost unlock throws.
NotDue(r) ==
    /\ phase[r] = "claiming"
    /\ Heard(r, "unmatched")
    /\ Answered(r)
    /\ Unlock(r)
    /\ Return(r, IF link'[r] = "none" THEN "not_due" ELSE "unavailable")
    /\ UNCHANGED <<clock, row, okay, leaseLost, outcome>>

ClaimThrows(r) ==
    /\ phase[r] = "claiming"
    /\ Threw(r)
    /\ Answered(r)
    /\ Unlock(r)
    /\ Return(r, "unavailable")
    /\ UNCHANGED <<clock, row, okay, leaseLost, outcome>>

-----------------------------------------------------------------------------
(* The task and its heartbeat.                                                 *)

Heartbeat(r) ==
    /\ phase[r] = "running"
    /\ waits[r] = "none"
    /\ clock =< LastLease
    /\ \E t \in Readings : Sent(r, "renew", t)
    /\ UNCHANGED <<clock, row, advisory, link, backend, phase, okay,
                   leaseLost, result, outcome>>

Renewed(r) ==
    /\ waits[r] = "renew"
    /\ Settled(r)
    /\ leaseLost' = [leaseLost EXCEPT ![r] = @ \/ ~Heard(r, "matched")]
    /\ Answered(r)
    /\ UNCHANGED <<clock, row, advisory, link, backend, phase, okay,
                   result, outcome>>

\* The task settles; clearInterval, then a renewal in flight is awaited.
TaskSettles(r) ==
    /\ phase[r] = "running"
    /\ okay' \in {[okay EXCEPT ![r] = b] : b \in BOOLEAN}
    /\ phase' = [phase EXCEPT ![r] = "settling"]
    /\ UNCHANGED <<clock, row, advisory, link, backend, statement, waits,
                   leaseLost, result, outcome>>

-----------------------------------------------------------------------------
(* complete and fail                                                           *)

Succeeds(r) == okay[r] /\ ~leaseLost[r]

SendOutcome(r) ==
    /\ phase[r] = "settling"
    /\ waits[r] = "none"
    /\ LET op == IF Succeeds(r) THEN "complete" ELSE "fail" IN
       /\ \E t \in Readings : Sent(r, op, t)
       /\ phase' = [phase EXCEPT ![r] = IF op = "fail" THEN "failing"
                                                       ELSE "completing"]
    /\ UNCHANGED <<clock, row, advisory, link, backend, okay,
                   leaseLost, result, outcome>>

\* Mutant: a COMMIT whose answer is lost counts as done.
CompleteAssumed(r) ==
    /\ phase[r] = "completing"
    /\ Settled(r)
    /\ Answered(r)
    /\ Unlock(r)
    /\ Return(r, "succeeded")
    /\ UNCHANGED <<clock, row, okay, leaseLost, outcome>>

\* complete returns TRUE and its releaseLease unlocks.  If it throws, returns
\* FALSE, or loses the unlock, the catch calls fail, which finds the connection
\* already given back and changes nothing.
CompleteAnswered(r) ==
    /\ phase[r] = "completing"
    /\ Settled(r)
    /\ Answered(r)
    /\ Unlock(r)
    /\ LET confirmed == Heard(r, "matched") /\ link'[r] = "none" IN
       Return(r, IF confirmed THEN "succeeded" ELSE "failed")
    /\ UNCHANGED <<clock, row, okay, leaseLost, outcome>>

FailAnswered(r) ==
    /\ phase[r] = "failing"
    /\ Settled(r)
    /\ Answered(r)
    /\ Unlock(r)
    /\ Return(r, "failed")
    /\ UNCHANGED <<clock, row, okay, leaseLost, outcome>>

\* The process dies anywhere; its sockets go with it.
Crash(r) ==
    /\ phase[r] \notin {"new", "over"}
    /\ link' = [link EXCEPT ![r] = IF @ = "up" THEN "down" ELSE @]
    /\ waits' = [waits EXCEPT ![r] = "none"]
    /\ Return(r, "crashed")
    /\ UNCHANGED <<clock, row, advisory, backend, statement, okay,
                   leaseLost, outcome>>

-----------------------------------------------------------------------------
RunStep(r) ==
    \/ Start(r) \/ TryLock(r) \/ LockTaken(r) \/ ConnectFails(r)
    \/ Claimed(r) \/ NotDue(r) \/ ClaimThrows(r)
    \/ Heartbeat(r) \/ Renewed(r) \/ TaskSettles(r)
    \/ SendOutcome(r) \/ CompleteAnswered(r) \/ FailAnswered(r)
    \/ Crash(r)

ServerStep(r) == ServerCommits(r) \/ ServerAborts(r) \/ BackendEnds(r)

Next == Tick \/ \E r \in Run : RunStep(r) \/ ServerStep(r) \/ LinkBreaks(r)

Spec == Init /\ [][Next]_vars

\* What the server and the clients do without being asked: a dead client's
\* backend is noticed, a sent transaction ends, and an answer is handled.
RunFairness(r) ==
    /\ WF_vars(link[r] = "down" /\ BackendEnds(r))
    /\ WF_vars(ServerCommits(r) \/ ServerAborts(r))
    /\ WF_vars(Renewed(r))
    /\ WF_vars(SendOutcome(r))
    /\ WF_vars(CompleteAnswered(r) \/ FailAnswered(r))

-----------------------------------------------------------------------------
(* Properties                                                                  *)

\* "succeeded" is reported (runScheduledJob, line 269) only for an outcome the
\* row has recorded for this very claim, whatever was lost in between.
ReportedSuccessIsRecorded ==
    \A r \in Run : result[r] = "succeeded" => outcome[r] = {"succeeded"}

\* A claim without an outcome is replaced only when its lease has run out and
\* its backend is gone: the session lock, not the lease alone, protects a slow
\* task with a late heartbeat from a second worker.
TakeoverWaits ==
    [][\A r \in Run :
          row.token = r /\ row'.token \notin {r, Nobody} =>
              row.expires =< clock /\ backend[r] # "live"]_vars

\* A run that is over, by whatever error or crash, does not keep the job: its
\* lock is released, and its claim is gone or its lease runs out.
OverRunFreesJob ==
    \A r \in Run :
        []<>(phase[r] = "over" => /\ advisory # r
                                  /\ row.token = r => row.expires =< clock)
=============================================================================
