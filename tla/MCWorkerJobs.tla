---------------------------- MODULE MCWorkerJobs ----------------------------
(* The jobs of WorkerJobs: the first state picks the one that runs while the   *)
(* others rest.                                                                *)
EXTENDS WorkerJobs

VARIABLES part

SubjectOfEvents == [e |-> "a"]
SubjectOfNumbers == <<"a", "other">>

ASSUME HookConstants == WebhookAssumption
ASSUME BulkConstants == Bulk!BulkAssumption
ASSUME CostConstants == Cost!CostAssumption
ASSUME GoogleConstants == Google!OutboxAssumption

bulkVars == <<bulkProjected, bulkWithdrawn, bulkActive, bulkTx, bulkFaults,
  bulkCheckpoint, late, deletions, revision, batches, flying, stored>>
costVars == <<costActive, today, checkpoint, lease, backfills, cooling, worker,
  published>>
googleVars == <<converted, googleEnabled, googleRevision, resting, outbox, results,
  googleReadable, doomed, googleWorker, googleUnheard, leaked, googleFaults>>

MCInit ==
  /\ part \in {"hook", "bulk", "cost", "google"}
  /\ Init /\ Bulk!Init /\ Cost!Init /\ Google!Init
  /\ part # "hook" => notify

MCNext ==
  /\ part' = part
  /\ \/ part = "hook" /\ Next /\ UNCHANGED <<bulkVars, costVars, googleVars>>
     \/ part = "bulk" /\ Bulk!Next /\ UNCHANGED <<vars, costVars, googleVars>>
     \/ part = "cost" /\ Cost!Next /\ UNCHANGED <<vars, bulkVars, googleVars>>
     \/ part = "google" /\ Google!Next /\ UNCHANGED <<vars, bulkVars, costVars>>

\* At rest in its first state a webhook, an export or an outbox without a row has
\* nothing to do, so its fairness asks nothing; the cost schedule's job polls.
CostFairness ==
  /\ \A w \in Workers : WF_costVars(part = "cost" /\ Cost!Step(w))
  /\ WF_costVars(Cost!Expire) /\ WF_costVars(\E c \in cooling : Cost!Cool(c))

MCSpec ==
  /\ MCInit /\ [][MCNext]_<<part, vars, bulkVars, costVars, googleVars>>
  /\ Fairness /\ Bulk!Fairness /\ CostFairness /\ Google!Fairness
=============================================================================
