---------------------------- MODULE TenantCycle ----------------------------
(***************************************************************************)
(* One tenant's worker cycles: apps/runtime/src/tenant-cycle.ts.           *)
(*                                                                         *)
(* A cycle is one call of runTenantCycle, by any worker process.  It takes *)
(* a session advisory lock on an owner connection, advances the tenant's   *)
(* row in control.worker_tenant_cycles to a new generation, runs the jobs  *)
(* of the tenant over borrowed connections, records how it ended and lets  *)
(* the lock go.  CycleFence makes every borrowed transaction re-read the   *)
(* row FOR SHARE before its COMMIT.                                        *)
(*                                                                         *)
(* The two ends of a connection are separate: the server frees a dead      *)
(* session's lock before the client hears of it, a destroyed client leaves *)
(* a backend that still holds its row lock, and a COMMIT already sent may  *)
(* land after its client is gone.                                          *)
(***************************************************************************)
EXTENDS Naturals, Sequences, FiniteSets

CONSTANTS Cycle,           \* calls of runTenantCycle for this tenant
          Conn,            \* connections of the borrowed pools
          None,            \* no cycle
          MaxPublications  \* bound: borrowed transactions begun

ASSUME CycleAssumption == None \notin Cycle
ASSUME BoundAssumption == MaxPublications \in Nat

VARIABLES
  \* the server
  row,         \* committed row: generation, owner, status, interrupted
  advisory,    \* the cycle whose owner session holds the advisory lock
  session,     \* [Cycle -> SessionState] the owner connection's backend
  \* the client of each cycle
  phase,       \* where runTenantCycle is
  active,      \* CycleFence.active
  generation,  \* CycleFence.generation
  completed,   \* the task resolved with the fence still active
  \* the borrowed connections
  txn,         \* [Conn -> TxnState]
  borrower,    \* [Conn -> Cycle \cup {None}]
  readOnly,    \* [Conn -> BOOLEAN] BEGIN ... READ ONLY
  closed,      \* [Conn -> BOOLEAN] client end destroyed, backend still there
  \* what is durable
  ledger,      \* generations of the committed writing transactions, in order
  history      \* status last recorded for each generation

serverVars == <<row, advisory, session>>
cycleVars  == <<phase, active, generation, completed>>
connVars   == <<txn, borrower, readOnly, closed>>
durable    == <<ledger, history>>
vars       == <<serverVars, cycleVars, connVars, durable>>

Status   == {"running", "completed", "failed"}
Phase    == {"idle", "busy", "locked", "advancing", "advanced", "running",
             "finishing", "recording", "releasing", "done"}
\* "advancing" and "recording": the session holds the row by an UPDATE whose
\* COMMIT may still arrive, even from a client that is gone.
SessionState == {"down", "up", "advancing", "recording"}
TxnState == {"idle", "open", "checking", "checked", "committing"}

NoRow == [generation |-> 0, owner |-> None, status |-> "failed", interrupted |-> 0]

TypeOK ==
  /\ row \in [generation: Nat, owner: Cycle \cup {None}, status: Status,
              interrupted: Nat]
  /\ advisory \in Cycle \cup {None}
  /\ session \in [Cycle -> SessionState]
  /\ phase \in [Cycle -> Phase]
  /\ active \in [Cycle -> BOOLEAN]
  /\ generation \in [Cycle -> Nat]
  /\ completed \in [Cycle -> BOOLEAN]
  /\ txn \in [Conn -> TxnState]
  /\ borrower \in [Conn -> Cycle \cup {None}]
  /\ readOnly \in [Conn -> BOOLEAN]
  /\ closed \in [Conn -> BOOLEAN]
  /\ ledger \in Seq(Nat)
  /\ history \in Seq(Status)

Init ==
  /\ row = NoRow
  /\ advisory = None
  /\ session = [c \in Cycle |-> "down"]
  /\ phase = [c \in Cycle |-> "idle"]
  /\ active = [c \in Cycle |-> FALSE]
  /\ generation = [c \in Cycle |-> 0]
  /\ completed = [c \in Cycle |-> FALSE]
  /\ txn = [k \in Conn |-> "idle"]
  /\ borrower = [k \in Conn |-> None]
  /\ readOnly = [k \in Conn |-> FALSE]
  /\ closed = [k \in Conn |-> FALSE]
  /\ ledger = << >>
  /\ history = << >>

-----------------------------------------------------------------------------
(* Row locks and the fence.                                                *)

\* The row the check of c's fence selects: its generation and its token.
RowIs(c) == row.generation = generation[c] /\ row.owner = c

\* (bug) The shared row lock lasts only until COMMIT is sent.
SharesUntilSent(k) == txn[k] = "checked" /\ ~readOnly[k]

\* A writing transaction that passed its check holds the row FOR SHARE until
\* its backend ends it, whether or not its client is still there.
Shares(k) == txn[k] \in {"checked", "committing"} /\ ~readOnly[k]

\* The session has updated the row and not yet committed or rolled back.
Updates(c) == session[c] \in {"advancing", "recording"}
RowUpdated == \E c \in Cycle : Updates(c)

\* (bug) The check without FOR SHARE.
RowFreeUnshared == ~RowUpdated

\* An UPDATE of the row waits for every other row lock.
RowFree == ~RowUpdated /\ \A k \in Conn : ~Shares(k)

\* (bug) The fence is switched off but borrowed clients are left to their jobs.
CloseFenceOnly(c) ==
  /\ active' = [active EXCEPT ![c] = FALSE]
  /\ UNCHANGED closed

\* CycleFence.close: no further use of the fence, every borrowed client of the
\* cycle destroyed.  The backends learn of it later.
CloseFence(c) ==
  /\ active' = [active EXCEPT ![c] = FALSE]
  /\ closed' = [k \in Conn |-> closed[k] \/ (borrower[k] = c /\ txn[k] # "idle")]

-----------------------------------------------------------------------------
(* Taking the tenant.                                                      *)

\* (bug) A lease in place of the session lock: a newcomer takes it over.
TryLockStealing(c) ==
  /\ phase[c] = "idle"
  /\ advisory' = c
  /\ session' = [session EXCEPT ![c] = "up"]
  /\ phase' = [phase EXCEPT ![c] = "locked"]
  /\ UNCHANGED <<row, active, generation, completed, connVars, durable>>

\* pg_try_advisory_lock on a fresh owner connection.
TryLock(c) ==
  /\ phase[c] = "idle"
  /\ advisory = None
  /\ advisory' = c
  /\ session' = [session EXCEPT ![c] = "up"]
  /\ phase' = [phase EXCEPT ![c] = "locked"]
  /\ UNCHANGED <<row, active, generation, completed, connVars, durable>>

\* The lock is taken: the call returns "busy" without waiting.
Busy(c) ==
  /\ phase[c] = "idle"
  /\ advisory # None
  /\ phase' = [phase EXCEPT ![c] = "busy"]
  /\ UNCHANGED <<serverVars, active, generation, completed, connVars, durable>>

\* INSERT ... ON CONFLICT DO UPDATE ... RETURNING inside BEGIN: the new
\* generation is computed, the row locked, nothing visible yet.
AdvanceRow(c) ==
  /\ phase[c] = "locked"
  /\ session[c] = "up"
  /\ RowFree
  /\ session' = [session EXCEPT ![c] = "advancing"]
  /\ generation' = [generation EXCEPT ![c] = row.generation + 1]
  /\ phase' = [phase EXCEPT ![c] = "advancing"]
  /\ UNCHANGED <<row, advisory, active, completed, connVars, durable>>

\* (bug) Every previous owner that did not complete is counted.
NotCompleted == IF row.status # "completed" THEN 1 ELSE 0

\* A previous owner that never recorded an outcome was interrupted.
Interruption == IF row.status = "running" THEN 1 ELSE 0

\* The server commits the advance, even for a client that has gone meanwhile.
AdvanceCommitted(c) ==
  /\ session[c] = "advancing"
  /\ row' = [generation  |-> generation[c],
             owner       |-> c,
             status      |-> "running",
             interrupted |-> row.interrupted + Interruption]
  /\ history' = Append(history, "running")
  /\ session' = [session EXCEPT ![c] = "up"]
  /\ phase' = [phase EXCEPT ![c] = IF @ = "advancing" THEN "advanced" ELSE @]
  /\ UNCHANGED <<advisory, active, generation, completed, connVars, ledger>>

\* The client reads the answer to COMMIT, builds the fence and starts the task.
\* (A loss it has heard of by then is OnLoss.)
StartTask(c) ==
  /\ phase[c] = "advanced"
  /\ phase' = [phase EXCEPT ![c] = "running"]
  /\ active' = [active EXCEPT ![c] = TRUE]
  /\ UNCHANGED <<serverVars, generation, completed, connVars, durable>>

\* A statement fails before there is a fence, the session surviving: the
\* finally block rolls back and only unlocks.
AdvanceFails(c) ==
  /\ phase[c] \in {"locked", "advancing"}
  /\ session[c] # "down"
  /\ session' = [session EXCEPT ![c] = "up"]
  /\ phase' = [phase EXCEPT ![c] = "releasing"]
  /\ UNCHANGED <<row, advisory, active, generation, completed, connVars, durable>>

-----------------------------------------------------------------------------
(* Borrowed transactions.  A standalone statement is wrapped in the same   *)
(* BEGIN, check and COMMIT, so it is a transaction like any other.         *)

BeginTxn(c, k, ro) ==
  /\ active[c]
  /\ txn[k] = "idle"
  /\ Len(ledger) + Cardinality({j \in Conn : txn[j] # "idle"}) < MaxPublications
  /\ txn' = [txn EXCEPT ![k] = "open"]
  /\ borrower' = [borrower EXCEPT ![k] = c]
  /\ readOnly' = [readOnly EXCEPT ![k] = ro]
  /\ UNCHANGED <<serverVars, cycleVars, closed, durable>>

\* COMMIT through the facade first sends the check.
SendCheck(k) ==
  /\ txn[k] = "open"
  /\ ~closed[k]
  /\ active[borrower[k]]
  /\ txn' = [txn EXCEPT ![k] = "checking"]
  /\ UNCHANGED <<serverVars, cycleVars, borrower, readOnly, closed, durable>>

\* The server finds the row.  FOR SHARE waits for an uncommitted UPDATE; a read
\* only transaction reads the committed row and locks nothing.
CheckPasses(k) ==
  /\ txn[k] = "checking"
  /\ readOnly[k] \/ ~RowUpdated
  /\ RowIs(borrower[k])
  /\ txn' = [txn EXCEPT ![k] = "checked"]
  /\ UNCHANGED <<serverVars, cycleVars, borrower, readOnly, closed, durable>>

\* The row has moved on: the fence closes, taking every client of the cycle.
CheckFails(k) ==
  /\ txn[k] = "checking"
  /\ readOnly[k] \/ ~RowUpdated
  /\ ~RowIs(borrower[k])
  /\ CloseFence(borrower[k])
  /\ UNCHANGED <<serverVars, phase, generation, completed, txn, borrower,
                 readOnly, durable>>

\* The client has its row, the fence is still active: COMMIT goes out.
SendCommit(k) ==
  /\ txn[k] = "checked"
  /\ ~closed[k]
  /\ active[borrower[k]]
  /\ txn' = [txn EXCEPT ![k] = "committing"]
  /\ UNCHANGED <<serverVars, cycleVars, borrower, readOnly, closed, durable>>

\* The backend commits, whether or not anyone is left to read the answer.
CommitLands(k) ==
  /\ txn[k] = "committing"
  /\ ledger' = IF readOnly[k] THEN ledger
               ELSE Append(ledger, generation[borrower[k]])
  /\ txn' = [txn EXCEPT ![k] = "idle"]
  /\ borrower' = [borrower EXCEPT ![k] = None]
  /\ readOnly' = [readOnly EXCEPT ![k] = FALSE]
  /\ closed' = [closed EXCEPT ![k] = FALSE]
  /\ UNCHANGED <<serverVars, cycleVars, history>>

\* The transaction ends without effect: the task rolls back, a statement fails,
\* the connection breaks, or the backend notices that its client is gone.
AbortTxn(k) ==
  /\ txn[k] # "idle"
  /\ txn' = [txn EXCEPT ![k] = "idle"]
  /\ borrower' = [borrower EXCEPT ![k] = None]
  /\ readOnly' = [readOnly EXCEPT ![k] = FALSE]
  /\ closed' = [closed EXCEPT ![k] = FALSE]
  /\ UNCHANGED <<serverVars, cycleVars, durable>>

-----------------------------------------------------------------------------
(* Ending the cycle.                                                       *)

\* The task resolves or rejects; the finally block closes the fence, whatever
\* the task left open, and rolls the owner connection back.
EndTask(c, resolved) ==
  /\ phase[c] = "running"
  /\ completed' = [completed EXCEPT ![c] = resolved /\ active[c]]
  /\ CloseFence(c)
  /\ phase' = [phase EXCEPT ![c] = "finishing"]
  /\ UNCHANGED <<serverVars, generation, txn, borrower, readOnly, durable>>

\* UPDATE ... WHERE generation and token: it locks the row only if it finds it.
RecordOutcome(c) ==
  /\ phase[c] = "finishing"
  /\ session[c] = "up"
  /\ RowFree
  /\ session' = [session EXCEPT ![c] = IF RowIs(c) THEN "recording" ELSE "up"]
  /\ phase' = [phase EXCEPT ![c] = IF RowIs(c) THEN "recording" ELSE "releasing"]
  /\ UNCHANGED <<row, advisory, active, generation, completed, connVars, durable>>

Outcome(c) == IF completed[c] THEN "completed" ELSE "failed"

\* The outcome becomes visible, even if the client did not live to hear it.
OutcomeCommitted(c) ==
  /\ session[c] = "recording"
  /\ row' = [row EXCEPT !.status = Outcome(c)]
  /\ history' = [history EXCEPT ![generation[c]] = Outcome(c)]
  /\ session' = [session EXCEPT ![c] = "up"]
  /\ phase' = [phase EXCEPT ![c] = IF @ = "recording" THEN "releasing" ELSE @]
  /\ UNCHANGED <<advisory, active, generation, completed, connVars, ledger>>

\* (bug) The connection goes back to its pool without the unlock.
UnlockForgotten(c) ==
  /\ phase[c] = "releasing"
  /\ session[c] = "up"
  /\ session' = [session EXCEPT ![c] = "down"]
  /\ phase' = [phase EXCEPT ![c] = "done"]
  /\ UNCHANGED <<row, advisory, active, generation, completed, connVars, durable>>

\* pg_advisory_unlock, then the connection returns to its pool.
Unlock(c) ==
  /\ phase[c] = "releasing"
  /\ session[c] = "up"
  /\ advisory' = IF advisory = c THEN None ELSE advisory
  /\ session' = [session EXCEPT ![c] = "down"]
  /\ phase' = [phase EXCEPT ![c] = "done"]
  /\ UNCHANGED <<row, active, generation, completed, connVars, durable>>

\* Any statement of the finally block fails: the error is swallowed and the
\* owner connection destroyed, with whatever it holds.
FinishFails(c) ==
  /\ phase[c] \in {"finishing", "recording", "releasing"}
  /\ phase' = [phase EXCEPT ![c] = "done"]
  /\ UNCHANGED <<serverVars, active, generation, completed, connVars, durable>>

-----------------------------------------------------------------------------
(* Loss.                                                                   *)

\* The owner backend dies, or the server notices that its client is gone: an
\* uncommitted UPDATE is undone and both locks are free at once.
SessionDies(c) ==
  /\ session[c] # "down"
  /\ session' = [session EXCEPT ![c] = "down"]
  /\ advisory' = IF advisory = c THEN None ELSE advisory
  /\ UNCHANGED <<row, cycleVars, connVars, durable>>

\* The client hears of the dead session: "error"/"end" on the owner connection,
\* or the next statement on it rejects.  A running task goes on until it ends,
\* but its fence is closed; nothing more is done on the owner connection.
OnLoss(c) ==
  /\ session[c] = "down"
  /\ phase[c] \in {"locked", "advancing", "advanced", "running", "finishing",
                   "recording", "releasing"}
  /\ CloseFence(c)
  /\ phase' = [phase EXCEPT ![c] = "done"]
  /\ UNCHANGED <<serverVars, generation, completed, txn, borrower, readOnly,
                 durable>>

\* The worker process dies, its sockets with it.
Crash(c) ==
  /\ phase[c] \notin {"idle", "busy", "done"}
  /\ CloseFence(c)
  /\ phase' = [phase EXCEPT ![c] = "done"]
  /\ UNCHANGED <<serverVars, generation, completed, txn, borrower, readOnly,
                 durable>>

-----------------------------------------------------------------------------

Take(c)  == TryLock(c) \/ Busy(c) \/ AdvanceRow(c) \/ AdvanceCommitted(c)
            \/ StartTask(c) \/ AdvanceFails(c)
Fence(k) == SendCheck(k) \/ CheckPasses(k) \/ CheckFails(k) \/ SendCommit(k)
            \/ CommitLands(k) \/ AbortTxn(k)
Finish(c) == \/ \E resolved \in BOOLEAN : EndTask(c, resolved)
             \/ RecordOutcome(c) \/ OutcomeCommitted(c) \/ Unlock(c)
             \/ FinishFails(c)
Lose(c)  == SessionDies(c) \/ OnLoss(c) \/ Crash(c)

Next ==
  \/ \E c \in Cycle : Take(c) \/ Finish(c) \/ Lose(c)
  \/ \E c \in Cycle, k \in Conn, ro \in BOOLEAN : BeginTxn(c, k, ro)
  \/ \E k \in Conn : Fence(k)

Spec == Init /\ [][Next]_vars

\* What the code and PostgreSQL do without being asked: statements that can run
\* do run, a COMMIT in flight lands or fails, a server ends the transaction of a
\* client that is gone, and each end of a dead connection eventually hears of it.
\* Nothing obliges a task to end, a worker to start a cycle, or anything to fail.
Fairness ==
  /\ \A c \in Cycle :
       /\ WF_vars(AdvanceRow(c))
       /\ WF_vars(AdvanceCommitted(c))
       /\ WF_vars(StartTask(c))
       /\ WF_vars(RecordOutcome(c))
       /\ WF_vars(OutcomeCommitted(c))
       /\ WF_vars(Unlock(c))
       /\ WF_vars(OnLoss(c))
       /\ WF_vars(phase[c] = "done" /\ SessionDies(c))
  /\ \A k \in Conn :
       /\ WF_vars(CheckPasses(k) \/ CheckFails(k))
       /\ WF_vars(SendCommit(k))
       /\ WF_vars(CommitLands(k))
       /\ WF_vars(closed[k] /\ AbortTxn(k))

-----------------------------------------------------------------------------
(* What must hold.                                                         *)

\* The inductive invariant behind the properties below, part by part.

\* A backend exists exactly as long as it holds the tenant's lock; so one does.
LockIsSession == \A c \in Cycle : session[c] # "down" <=> advisory = c

\* What a client believes about its session and what the session is doing.
PhaseMatchesSession ==
  \A c \in Cycle :
    /\ phase[c] \in {"idle", "busy"} => session[c] = "down"
    /\ phase[c] = "locked" => session[c] \in {"up", "down"}
    /\ session[c] = "advancing" => phase[c] \in {"advancing", "done"}
    /\ session[c] = "recording" => phase[c] \in {"recording", "done"}
    /\ active[c] => phase[c] = "running"

\* An uncommitted UPDATE excludes shared locks, and is of the row as committed.
UpdateExcludes ==
  \A c \in Cycle :
    /\ Updates(c) => \A k \in Conn : ~Shares(k)
    /\ session[c] = "advancing" => generation[c] = row.generation + 1
    /\ session[c] = "recording" => RowIs(c)

\* A generation still owned by a cycle that has not recorded is running.
OwnedIsRunning ==
  \A c \in Cycle :
    (phase[c] \in {"advanced", "running", "finishing"} \/ session[c] = "recording")
      => (RowIs(c) => row.status = "running")

\* Between its advance and its outcome, a surviving session owns the row.
SessionOwnsRow ==
  \A c \in Cycle :
    phase[c] \in {"advanced", "running"} /\ session[c] # "down" =>
      RowIs(c) /\ (phase[c] = "running" => active[c])

\* Only an active fence has clients that are not destroyed.
OpenIsActive ==
  \A k \in Conn : txn[k] # "idle" =>
    borrower[k] \in Cycle /\ (~closed[k] => active[borrower[k]])

\* From its passed check until its backend ends it, a writing transaction pins
\* the row: no owner advances the generation meanwhile, even if its client was
\* destroyed; and while its COMMIT is on the way, or its client is still there to
\* send it, no outcome is recorded either.
CommitPinsEpoch ==
  \A k \in Conn : Shares(k) =>
    /\ RowIs(borrower[k])
    /\ txn[k] = "committing" \/ ~closed[k] => row.status = "running"

\* A cycle whose owner session survives is never fenced out: it holds the
\* tenant's lock, the row is its own and its borrowed clients stay usable.
LiveCycleNotFenced ==
  \A c \in Cycle :
    phase[c] = "running" /\ session[c] # "down" =>
      advisory = c /\ RowIs(c) /\ active[c]

\* Before the first cycle no owner can have been interrupted.
FreshRow == row.generation = 0 => row.status # "running"

\* The generations superseded without an outcome.
Unrecorded == {g \in 1 .. Len(history) : g < Len(history) /\ history[g] = "running"}

\* interrupted_cycles counts exactly the superseded generations that recorded
\* no outcome, whatever mixture of crashes, lost sessions, failed statements
\* and COMMITs that landed unseen produced them.
InterruptedAccounting ==
  /\ Len(history) = row.generation
  /\ row.generation > 0 => row.status = history[row.generation]
  /\ row.interrupted = Cardinality(Unrecorded)

Core ==
  /\ LockIsSession /\ PhaseMatchesSession /\ UpdateExcludes /\ OwnedIsRunning
  /\ SessionOwnsRow /\ OpenIsActive /\ CommitPinsEpoch

Inv == TypeOK /\ Core /\ FreshRow /\ InterruptedAccounting

\* Once a generation has an outcome, no late or repeated UPDATE changes it.
OutcomeIsFinal ==
  [][\A g \in 1 .. Len(history) :
       history[g] # "running" => history'[g] = history[g]]_vars

\* To everyone outside, the tenant's cycles are a log fenced by epoch: every
\* publication belongs to the newest generation, before its outcome is recorded.
Promise == INSTANCE FencedLog WITH
             epoch <- row.generation, open <- row.status = "running", log <- ledger
ImplementsFencedLog == Promise!Spec

\* A cycle that has the lock and wants the row gets it, fails or is lost: no
\* transaction of an older generation keeps a new owner out for ever.
TakeoverProgresses ==
  \A c \in Cycle :
    []<>(phase[c] \notin {"locked", "advancing", "advanced"})

\* A cycle that is over, in whatever way, eventually holds nothing: neither the
\* tenant's lock nor a transaction on a borrowed connection.
OverReleasesAll ==
  \A c \in Cycle :
    []<>(phase[c] = "done" => advisory # c /\ \A k \in Conn : borrower[k] # c)
=============================================================================
