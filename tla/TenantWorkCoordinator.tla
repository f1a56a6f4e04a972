------------------------ MODULE TenantWorkCoordinator ------------------------
(* The queue of tenant cycles in one worker process                            *)
(* (apps/worker/src/tenant-work-coordinator.ts) and the loop that fills it and *)
(* stops it (apps/worker/src/main.ts): polls that submit each tenant, at most  *)
(* Concurrency cycles at a time, and a shutdown that waits for them until its  *)
(* deadline.  A step is one turn of the event loop.                            *)
EXTENDS Integers, Sequences, FiniteSets

CONSTANTS Tenant,       \* numbers, in the order of the sorted tenant ids
          Configured,   \* the tenants of the configuration: every poll has them
          Concurrency   \* 1..16

\* What the constants are.
CoordinatorAssumption ==
    /\ Tenant \subseteq Nat /\ IsFiniteSet(Tenant) /\ Configured \subseteq Tenant
    /\ Concurrency \in Nat \ {0}

VARIABLES
    pendingTenants, queue, active, closed,   \* the coordinator
    running,      \* tenants whose task has begun and not settled
    idleWaiter,   \* the promise of waitForIdle: none, waiting or resolved
    pollInFlight, \* none, listing, or beating: the heartbeat of First(left)
    left,         \* the tenants the poll has still to beat for
    listening,    \* the first poll is over: timer and signal handlers are set
    stopping,
    exit          \* no, clean or forced

coordinator == <<pendingTenants, queue, active, closed, running, idleWaiter>>
vars == <<coordinator, pollInFlight, left, listening, stopping, exit>>

Range(s) == {s[i] : i \in DOMAIN s}
First(S) == CHOOSE t \in S : \A u \in S : t <= u

TypeOK ==
    /\ pendingTenants \subseteq Tenant
    /\ queue \in Seq(Tenant) /\ Len(queue) <= Cardinality(Tenant)
    /\ active \in 0..Concurrency
    /\ running \subseteq Tenant
    /\ idleWaiter \in {"none", "waiting", "resolved"}
    /\ pollInFlight \in {"none", "listing", "beating"}
    /\ left \subseteq Tenant /\ (left # {} <=> pollInFlight = "beating")
    /\ closed \in BOOLEAN /\ listening \in BOOLEAN /\ stopping \in BOOLEAN
    /\ exit \in {"no", "clean", "forced"}

Init ==
    /\ pendingTenants = {} /\ queue = <<>> /\ active = 0 /\ running = {}
    /\ closed = FALSE /\ idleWaiter = "none"
    /\ pollInFlight = "listing" /\ left = {}
    /\ listening = FALSE /\ stopping = FALSE /\ exit = "no"

-----------------------------------------------------------------------------
(* The coordinator: submit, pump and run.                                      *)

\* Mutant: the waiters are resolved when nothing is queued.
ResolveAtEmptyQueue(n, q) ==
    IF q = <<>> /\ idleWaiter = "waiting" THEN "resolved" ELSE idleWaiter

ResolveIdleWaiters(n, q) ==
    IF n = 0 /\ q = <<>> /\ idleWaiter = "waiting" THEN "resolved" ELSE idleWaiter

\* Mutant: the newest work first.
PumpNewest(q, n, busy) ==
    LET free == Concurrency - n
        k == IF Len(q) < free THEN Len(q) ELSE free
        started == SubSeq(q, Len(q) - k + 1, Len(q))
        rest == SubSeq(q, 1, Len(q) - k) IN
    /\ queue' = rest
    /\ active' = n + k
    /\ running' = busy \cup Range(started)
    /\ idleWaiter' = ResolveIdleWaiters(n + k, rest)

\* From queue q with n tasks of the tenants busy active, start what may start.
Pump(q, n, busy) ==
    LET free == Concurrency - n
        k == IF Len(q) < free THEN Len(q) ELSE free
        rest == SubSeq(q, k + 1, Len(q)) IN
    /\ queue' = rest
    /\ active' = n + k
    /\ running' = busy \cup Range(SubSeq(q, 1, k))
    /\ idleWaiter' = ResolveIdleWaiters(n + k, rest)

Submit(t) ==
    IF closed \/ t \in pendingTenants THEN UNCHANGED coordinator
    ELSE /\ pendingTenants' = pendingTenants \cup {t}
         /\ Pump(Append(queue, t), active, running)
         /\ UNCHANGED closed

\* A cycle settles, in success or failure.
TaskSettles(t) ==
    /\ exit = "no"
    /\ t \in running
    /\ pendingTenants' = pendingTenants \ {t}
    /\ Pump(queue, active - 1, running \ {t})
    /\ UNCHANGED <<closed, pollInFlight, left, listening, stopping, exit>>

-----------------------------------------------------------------------------
(* The poll: discoverAndSubmitTenantWork.                                      *)

StartPoll ==
    /\ exit = "no" /\ listening /\ ~stopping
    /\ pollInFlight = "none"
    /\ pollInFlight' = "listing"
    /\ UNCHANGED <<coordinator, left, listening, stopping, exit>>

EndPoll ==
    /\ pollInFlight' = "none" /\ left' = {}
    /\ listening' = TRUE

\* Go on with the tenants of S: submit the first of them and beat for it.
PollOn(S) ==
    IF S = {} THEN EndPoll /\ UNCHANGED coordinator
    ELSE /\ Submit(First(S))
         /\ pollInFlight' = "beating" /\ left' = S
         /\ UNCHANGED listening

TenantsListed ==
    /\ exit = "no"
    /\ pollInFlight = "listing"
    /\ \E S \in SUBSET Tenant : PollOn(Configured \cup S)
    /\ UNCHANGED <<stopping, exit>>

HeartbeatStored(t) ==
    /\ exit = "no"
    /\ pollInFlight = "beating" /\ t = First(left)
    /\ PollOn(left \ {t})
    /\ UNCHANGED <<stopping, exit>>

\* worker_tick_failed: the rest of the tenants waits for the next poll.
PollFails ==
    /\ exit = "no"
    /\ pollInFlight # "none"
    /\ EndPoll
    /\ UNCHANGED <<coordinator, stopping, exit>>

-----------------------------------------------------------------------------
(* The shutdown: stop and waitForWorkerDrain.                                  *)

Idle == active = 0 /\ queue = <<>>

Stop ==
    /\ exit = "no" /\ listening /\ ~stopping
    /\ stopping' = TRUE
    /\ closed' = TRUE
    /\ idleWaiter' = IF Idle THEN "resolved" ELSE "waiting"
    /\ UNCHANGED <<pendingTenants, queue, active, running, pollInFlight, left,
                   listening, exit>>

DrainDone == idleWaiter = "resolved" /\ pollInFlight = "none"

Drained ==
    /\ exit = "no" /\ stopping
    /\ DrainDone
    /\ exit' = "clean"
    /\ UNCHANGED <<coordinator, pollInFlight, left, listening, stopping>>

\* The promises that are settled are heard before the timer.
Deadline ==
    /\ exit = "no" /\ stopping
    /\ ~DrainDone
    /\ exit' = "forced"
    /\ UNCHANGED <<coordinator, pollInFlight, left, listening, stopping>>

-----------------------------------------------------------------------------
Next ==
    \/ \E t \in Tenant : TaskSettles(t) \/ HeartbeatStored(t)
    \/ StartPoll \/ TenantsListed \/ PollFails
    \/ Stop \/ Drained \/ Deadline

Spec == Init /\ [][Next]_vars

\* The timers fire and the promises that are settled are heard.
TimerFairness ==
    WF_vars(StartPoll) /\ WF_vars(Drained) /\ WF_vars(Deadline)

\* Cycles settle (TenantCycle), and now and then a poll gets to its last tenant.
PollGetsThrough ==
    pollInFlight = "beating" /\ Cardinality(left) = 1 /\ pollInFlight' = "none"
ServiceFairness ==
    /\ \A t \in Tenant : WF_vars(TaskSettles(t))
    /\ []<><<PollGetsThrough>>_vars

-----------------------------------------------------------------------------
(* However a poll, the ends of cycles and the signal are ordered, the shutdown *)
(* hears of idleness exactly when it is there: no lost wake-up leaves it to    *)
(* the deadline, and the process exits cleanly only with nothing queued or     *)
(* running and no poll in flight (waitForIdle, waitForWorkerDrain, stop).      *)
DrainIsExact ==
    stopping => /\ idleWaiter = "resolved" <=> Idle
                /\ exit = "clean" => Idle /\ pollInFlight = "none"

(* Where cycles settle and a poll gets through now and then, a configured      *)
(* tenant has its turn again and again until the process is told to stop,      *)
(* whatever the other tenants submit (#pump, discoverAndSubmitTenantWork).     *)
TurnComes ==
    ServiceFairness => \A t \in Configured : []<>(t \in running \/ stopping)
=============================================================================
