--------------------------- MODULE MCTenantCycle ---------------------------
(* The claims of WorkerClaims: the first state picks the one that runs, the   *)
(* other rests.                                                               *)
EXTENDS WorkerClaims

VARIABLE part

ASSUME ScheduleAssumption == Job!BoundAssumptions

scheduleVars == <<clock, job, jobLock, link, backend, statement, waits, place,
  okay, leaseLost, result, outcome>>

MCInit == part \in {"cycle", "schedule"} /\ Init /\ Job!Init

MCNext ==
  /\ part' = part
  /\ \/ part = "cycle" /\ Next /\ UNCHANGED scheduleVars
     \/ part = "schedule" /\ Job!Next /\ UNCHANGED vars

\* Before the first cycle, and before the first call but for the clock, the
\* fairness asks nothing.
ScheduleFairness ==
  /\ WF_scheduleVars(part = "schedule" /\ Job!Tick)
  /\ \A r \in Run : Job!RunFairness(r)

MCSpec ==
  /\ MCInit /\ [][MCNext]_<<part, vars, scheduleVars>>
  /\ Fairness /\ ScheduleFairness
=============================================================================
