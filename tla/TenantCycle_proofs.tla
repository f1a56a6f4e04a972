------------------------- MODULE TenantCycle_proofs -------------------------
(***************************************************************************)
(* TenantCycle for any number of cycles, connections and publications: Inv *)
(* is inductive, its consequences hold, and the cycles implement FencedLog.*)
(* At the end, a job in its schedule (WorkerSchedule), for any number of   *)
(* runs and any intervals, leases and lag of their clocks.                 *)
(***************************************************************************)
EXTENDS WorkerClaims, TLAPS, FiniteSetTheorems, SequenceTheorems

\* Replacing an element of a sequence, at an index it may not have.
LEMMA ExceptAnywhere ==
  ASSUME NEW S, NEW s \in Seq(S), NEW i, NEW e \in S
  PROVE  /\ [s EXCEPT ![i] = e] \in Seq(S)
         /\ Len([s EXCEPT ![i] = e]) = Len(s)
         /\ \A j \in 1 .. Len(s) :
              [s EXCEPT ![i] = e][j] = IF j = i THEN e ELSE s[j]
<1>1. CASE i \in 1 .. Len(s)
  BY <1>1, ExceptSeq
<1>2. CASE i \notin 1 .. Len(s)
  <2>1. [s EXCEPT ![i] = e] = s
    BY <1>2, LenProperties
  <2> QED
    BY <1>2, <2>1
<1> QED
  BY <1>1, <1>2

-----------------------------------------------------------------------------
(* Types.                                                                  *)

\* Every value a step writes has its type.  A transaction that is not idle has
\* a borrower, so the generation a COMMIT publishes is a number.
LEMMA TypeCorrect ==
  ASSUME TypeOK, OpenIsActive, [Next]_vars
  PROVE  TypeOK'
<1> USE DEF TypeOK, serverVars, cycleVars, connVars, durable
<1>1. ASSUME NEW c \in Cycle, TryLock(c) PROVE TypeOK'
  BY <1>1 DEF TryLock, SessionState, Phase
<1>2. ASSUME NEW c \in Cycle, Busy(c) PROVE TypeOK'
  BY <1>2 DEF Busy, Phase
<1>3. ASSUME NEW c \in Cycle, AdvanceRow(c) PROVE TypeOK'
  BY <1>3 DEF AdvanceRow, SessionState, Phase
<1>4. ASSUME NEW c \in Cycle, AdvanceCommitted(c) PROVE TypeOK'
  <2>1. row' \in [generation: Nat, owner: Cycle \cup {None}, status: Status,
                  interrupted: Nat]
    BY <1>4 DEF AdvanceCommitted, Status, Interruption
  <2>2. history' \in Seq(Status)
    BY <1>4 DEF AdvanceCommitted, Status
  <2> QED
    BY <1>4, <2>1, <2>2 DEF AdvanceCommitted, SessionState, Phase
<1>5. ASSUME NEW c \in Cycle, StartTask(c) PROVE TypeOK'
  BY <1>5 DEF StartTask, Phase
<1>6. ASSUME NEW c \in Cycle, AdvanceFails(c) PROVE TypeOK'
  BY <1>6 DEF AdvanceFails, SessionState, Phase
<1>7. ASSUME NEW c \in Cycle, NEW k \in Conn, NEW ro \in BOOLEAN, BeginTxn(c, k, ro)
      PROVE TypeOK'
  BY <1>7 DEF BeginTxn, TxnState
<1>8. ASSUME NEW k \in Conn, SendCheck(k) \/ CheckPasses(k) \/ SendCommit(k)
      PROVE TypeOK'
  BY <1>8 DEF SendCheck, CheckPasses, SendCommit, TxnState
<1>9. ASSUME NEW k \in Conn, CheckFails(k) PROVE TypeOK'
  BY <1>9 DEF CheckFails, CloseFence
<1>10. ASSUME NEW k \in Conn, CommitLands(k) PROVE TypeOK'
  <2>1. generation[borrower[k]] \in Nat
    BY <1>10 DEF CommitLands, OpenIsActive
  <2>2. ledger' \in Seq(Nat)
    BY <1>10, <2>1 DEF CommitLands
  <2> QED
    BY <1>10, <2>2 DEF CommitLands, TxnState
<1>11. ASSUME NEW k \in Conn, AbortTxn(k) PROVE TypeOK'
  BY <1>11 DEF AbortTxn, TxnState
<1>12. ASSUME NEW c \in Cycle, NEW resolved \in BOOLEAN, EndTask(c, resolved)
       PROVE TypeOK'
  BY <1>12 DEF EndTask, CloseFence, Phase
<1>13. ASSUME NEW c \in Cycle, RecordOutcome(c) PROVE TypeOK'
  BY <1>13 DEF RecordOutcome, SessionState, Phase
<1>14. ASSUME NEW c \in Cycle, OutcomeCommitted(c) PROVE TypeOK'
  <2>1. Outcome(c) \in Status
    BY DEF Outcome, Status
  <2>2. history' \in Seq(Status)
    BY <1>14, <2>1, ExceptAnywhere DEF OutcomeCommitted
  <2> QED
    BY <1>14, <2>1, <2>2 DEF OutcomeCommitted, SessionState, Phase, Status
<1>15. ASSUME NEW c \in Cycle, Unlock(c) PROVE TypeOK'
  BY <1>15 DEF Unlock, SessionState, Phase
<1>16. ASSUME NEW c \in Cycle, FinishFails(c) PROVE TypeOK'
  BY <1>16 DEF FinishFails, Phase
<1>17. ASSUME NEW c \in Cycle, SessionDies(c) PROVE TypeOK'
  BY <1>17 DEF SessionDies, SessionState
<1>18. ASSUME NEW c \in Cycle, OnLoss(c) \/ Crash(c) PROVE TypeOK'
  BY <1>18 DEF OnLoss, Crash, CloseFence, Phase
<1>19. CASE UNCHANGED vars
  BY <1>19 DEF vars
<1> QED
  BY <1>1, <1>2, <1>3, <1>4, <1>5, <1>6, <1>7, <1>8, <1>9, <1>10, <1>11, <1>12,
     <1>13, <1>14, <1>15, <1>16, <1>17, <1>18, <1>19 DEF Next, Take, Fence, Finish, Lose
-----------------------------------------------------------------------------
(* The core of the invariant: who holds the lock, the row and its row locks. *)

\* No step lets two backends hold the tenant, lets an owner advance past a
\* publication that passed its check, or closes the fence of a live cycle.
LEMMA CoreStep ==
  ASSUME TypeOK, Core, [Next]_vars
  PROVE  Core'
<1> USE DEF TypeOK, serverVars, cycleVars, connVars, durable
<1> USE DEF Core, LockIsSession, PhaseMatchesSession, UpdateExcludes,
            OwnedIsRunning, SessionOwnsRow, OpenIsActive, CommitPinsEpoch,
            Updates, RowIs, Shares
<1>1. ASSUME NEW c \in Cycle, TryLock(c) PROVE Core'
  BY <1>1, CycleAssumption DEF TryLock
<1>2. ASSUME NEW c \in Cycle, Busy(c) PROVE Core'
  BY <1>2 DEF Busy
<1>3. ASSUME NEW c \in Cycle, AdvanceRow(c) PROVE Core'
  BY <1>3 DEF AdvanceRow, RowFree, RowUpdated
<1>4. ASSUME NEW c \in Cycle, AdvanceCommitted(c) PROVE Core'
  BY <1>4 DEF AdvanceCommitted
<1>5. ASSUME NEW c \in Cycle, StartTask(c) PROVE Core'
  BY <1>5 DEF StartTask
<1>6. ASSUME NEW c \in Cycle, AdvanceFails(c) PROVE Core'
  BY <1>6 DEF AdvanceFails
<1>7. ASSUME NEW c \in Cycle, NEW k \in Conn, NEW ro \in BOOLEAN, BeginTxn(c, k, ro)
      PROVE Core'
  BY <1>7 DEF BeginTxn
<1>8. ASSUME NEW k \in Conn, SendCheck(k) PROVE Core'
  BY <1>8 DEF SendCheck
<1>9. ASSUME NEW k \in Conn, CheckPasses(k) PROVE Core'
  BY <1>9 DEF CheckPasses, RowUpdated
<1>10. ASSUME NEW k \in Conn, CheckFails(k) PROVE Core'
  BY <1>10 DEF CheckFails, CloseFence
<1>11. ASSUME NEW k \in Conn, SendCommit(k) PROVE Core'
  BY <1>11 DEF SendCommit
<1>12. ASSUME NEW k \in Conn, CommitLands(k) PROVE Core'
  BY <1>12 DEF CommitLands
<1>13. ASSUME NEW k \in Conn, AbortTxn(k) PROVE Core'
  BY <1>13 DEF AbortTxn
<1>14. ASSUME NEW c \in Cycle, NEW resolved \in BOOLEAN, EndTask(c, resolved)
       PROVE Core'
  BY <1>14 DEF EndTask, CloseFence
<1>15. ASSUME NEW c \in Cycle, RecordOutcome(c) PROVE Core'
  BY <1>15 DEF RecordOutcome, RowFree, RowUpdated
<1>16. ASSUME NEW c \in Cycle, OutcomeCommitted(c) PROVE Core'
  BY <1>16 DEF OutcomeCommitted
<1>17. ASSUME NEW c \in Cycle, Unlock(c) PROVE Core'
  BY <1>17, CycleAssumption DEF Unlock
<1>18. ASSUME NEW c \in Cycle, FinishFails(c) PROVE Core'
  BY <1>18 DEF FinishFails
<1>19. ASSUME NEW c \in Cycle, SessionDies(c) PROVE Core'
  BY <1>19, CycleAssumption DEF SessionDies
<1>20. ASSUME NEW c \in Cycle, OnLoss(c) PROVE Core'
  BY <1>20 DEF OnLoss, CloseFence
<1>21. ASSUME NEW c \in Cycle, Crash(c) PROVE Core'
  BY <1>21 DEF Crash, CloseFence
<1>22. CASE UNCHANGED vars
  BY <1>22 DEF vars
<1> HIDE DEF TypeOK, Core
<1> QED
  BY <1>1, <1>2, <1>3, <1>4, <1>5, <1>6, <1>7, <1>8, <1>9, <1>10, <1>11, <1>12,
     <1>13, <1>14, <1>15, <1>16, <1>17, <1>18, <1>19, <1>20, <1>21, <1>22
  DEF Next, Take, Fence, Finish, Lose
-----------------------------------------------------------------------------
(* What becomes durable.                                                   *)

\* Only three steps touch the row, the outcomes or the ledger.
LEMMA DurableSteps ==
  ASSUME [Next]_vars
  PROVE  \/ UNCHANGED <<row, history, ledger>>
         \/ \E c \in Cycle : AdvanceCommitted(c) \/ OutcomeCommitted(c)
         \/ \E k \in Conn : CommitLands(k)
<1> USE DEF serverVars, cycleVars, connVars, durable
<1>1. ASSUME NEW c \in Cycle, Take(c) \/ Finish(c) \/ Lose(c)
      PROVE  \/ UNCHANGED <<row, history, ledger>>
             \/ AdvanceCommitted(c) \/ OutcomeCommitted(c)
  BY <1>1 DEF Take, TryLock, Busy, AdvanceRow, StartTask, AdvanceFails, Finish,
              EndTask, RecordOutcome, Unlock, FinishFails, Lose, SessionDies, OnLoss, Crash
<1>2. ASSUME NEW c \in Cycle, NEW k \in Conn, NEW ro \in BOOLEAN, BeginTxn(c, k, ro)
      PROVE  UNCHANGED <<row, history, ledger>>
  BY <1>2 DEF BeginTxn
<1>3. ASSUME NEW k \in Conn, Fence(k)
      PROVE  UNCHANGED <<row, history, ledger>> \/ CommitLands(k)
  BY <1>3 DEF Fence, SendCheck, CheckPasses, CheckFails, SendCommit, AbortTxn
<1>4. CASE UNCHANGED vars
  BY <1>4 DEF vars
<1> QED
  BY <1>1, <1>2, <1>3, <1>4 DEF Next

\* An owner advances to the generation after the newest one recorded.
LEMMA AdvanceAppends ==
  ASSUME Inv, NEW c \in Cycle, AdvanceCommitted(c)
  PROVE  /\ row'.generation = Len(history) + 1
         /\ row'.status = "running"
         /\ row'.interrupted = row.interrupted + Interruption
         /\ history' = Append(history, "running")
         /\ Len(history') = Len(history) + 1
         /\ \A g \in 1 .. Len(history) : history'[g] = history[g]
         /\ history'[Len(history) + 1] = "running"
<1>1. generation[c] = Len(history) + 1
  BY DEF Inv, TypeOK, Core, UpdateExcludes, InterruptedAccounting, AdvanceCommitted
<1>2. history \in Seq(Status) /\ "running" \in Status
  BY DEF Inv, TypeOK, Status
<1> QED
  BY <1>1, <1>2, AppendProperties DEF AdvanceCommitted

\* An outcome is recorded for the newest generation, which had none.
LEMMA OutcomeReplaces ==
  ASSUME Inv, NEW c \in Cycle, OutcomeCommitted(c)
  PROVE  /\ row' = [row EXCEPT !.status = Outcome(c)]
         /\ row.status = "running" /\ Outcome(c) \in {"completed", "failed"}
         /\ Len(history') = Len(history)
         /\ \A g \in 1 .. Len(history) :
              history'[g] = IF g = row.generation THEN Outcome(c) ELSE history[g]
<1>1. generation[c] = row.generation /\ row.status = "running"
  BY DEF Inv, Core, UpdateExcludes, OwnedIsRunning, OutcomeCommitted, RowIs
<1>2. history \in Seq(Status) /\ Outcome(c) \in Status
  BY DEF Inv, TypeOK, Status, Outcome
<1>3. history' = [history EXCEPT ![row.generation] = Outcome(c)]
  BY <1>1 DEF OutcomeCommitted
<1> QED
  BY <1>1, <1>2, <1>3, ExceptAnywhere DEF OutcomeCommitted, Outcome

\* Superseding an owner that recorded no outcome adds its generation to the
\* ones counted, and the count to the row, in the same step.
LEMMA AccountingStep ==
  ASSUME Inv, [Next]_vars
  PROVE  FreshRow' /\ InterruptedAccounting'
<1> USE DEF FreshRow, InterruptedAccounting
<1>1. ASSUME UNCHANGED <<row, history, ledger>> PROVE FreshRow' /\ InterruptedAccounting'
  BY <1>1 DEF Inv, Unrecorded
<1>2. ASSUME NEW k \in Conn, CommitLands(k) PROVE FreshRow' /\ InterruptedAccounting'
  BY <1>2 DEF Inv, Unrecorded, CommitLands, serverVars
<1>3. ASSUME NEW c \in Cycle, AdvanceCommitted(c)
      PROVE  FreshRow' /\ InterruptedAccounting'
  <2> DEFINE n == Len(history)
  <2>1. /\ n \in Nat /\ row.generation = n
        /\ row.interrupted = Cardinality(Unrecorded)
        /\ n > 0 => row.status = history[n]
        /\ n = 0 => row.status # "running"
    BY DEF Inv, TypeOK
  <2>2. /\ row'.generation = n + 1 /\ row'.status = "running"
        /\ row'.interrupted = row.interrupted + Interruption
        /\ Len(history') = n + 1
        /\ \A g \in 1 .. n : history'[g] = history[g]
        /\ history'[n + 1] = "running"
    BY <1>3, AdvanceAppends
  <2>3. Unrecorded' = {g \in 1 .. n : history[g] = "running"}
    BY <2>1, <2>2 DEF Unrecorded
  <2>4. Unrecorded' = IF row.status = "running" THEN Unrecorded \cup {n} ELSE Unrecorded
    BY <2>1, <2>3 DEF Unrecorded
  <2>5. IsFiniteSet(Unrecorded) /\ n \notin Unrecorded
    <3>1. IsFiniteSet(1 .. n)
      BY <2>1, FS_Interval
    <3>2. Unrecorded \in SUBSET (1 .. n) /\ n \notin Unrecorded
      BY <2>1 DEF Unrecorded
    <3> QED
      BY <3>1, <3>2, FS_Subset
  <2>6. Cardinality(Unrecorded') = Cardinality(Unrecorded) + Interruption
    <3>1. Cardinality(Unrecorded) \in Nat
      BY <2>5, FS_CardinalityType
    <3>2. Cardinality(Unrecorded \cup {n}) = Cardinality(Unrecorded) + 1
      BY <2>5, FS_AddElement
    <3> HIDE DEF n
    <3> QED
      BY <2>4, <3>1, <3>2 DEF Interruption
  <2> QED
    BY <2>1, <2>2, <2>6
<1>4. ASSUME NEW c \in Cycle, OutcomeCommitted(c)
      PROVE  FreshRow' /\ InterruptedAccounting'
  <2>1. /\ Len(history) \in Nat /\ row.generation = Len(history)
        /\ row'.generation = row.generation
        /\ row'.interrupted = row.interrupted /\ row'.status = Outcome(c)
    BY <1>4, OutcomeReplaces DEF Inv, TypeOK
  <2>2. Unrecorded' = Unrecorded
    BY <1>4, <2>1, OutcomeReplaces DEF Unrecorded
  <2>3. row'.generation > 0 => history'[row'.generation] = Outcome(c)
    BY <1>4, <2>1, OutcomeReplaces
  <2> QED
    BY <1>4, <2>1, <2>2, <2>3, OutcomeReplaces DEF Inv
<1> QED
  BY <1>1, <1>2, <1>3, <1>4, DurableSteps

-----------------------------------------------------------------------------
(* The theorems.                                                           *)

\* Init has the invariant: nobody holds anything and nothing is recorded.
LEMMA InitInv == Init => Inv
<1> SUFFICES ASSUME Init PROVE Inv
  OBVIOUS
<1> USE DEF Init, NoRow
<1>1. TypeOK
  BY DEF TypeOK, Status, SessionState, Phase, TxnState
<1>2. Core
  BY CycleAssumption DEF Core, LockIsSession, PhaseMatchesSession, UpdateExcludes,
     OwnedIsRunning, SessionOwnsRow, OpenIsActive, CommitPinsEpoch, Updates, RowIs, Shares
<1>3. Unrecorded = {}
  BY DEF Unrecorded
<1> QED
  BY <1>1, <1>2, <1>3, FS_EmptySet DEF Inv, FreshRow, InterruptedAccounting

\* Inv is an invariant: the tenant has one owner at a time, the row, the lock
\* and the client's belief agree as far as the code relies on it, and the
\* accounting on the row is exact, whatever is lost, crashes or arrives late.
THEOREM CycleInvariant == Spec => []Inv
<1>1. Inv /\ [Next]_vars => Inv'
  BY TypeCorrect, CoreStep, AccountingStep DEF Inv, Core
<1> QED
  BY InitInv, <1>1, PTL DEF Spec

\* Every variable keeps its type.
THEOREM TypeInvariant == Spec => []TypeOK
<1>1. Inv => TypeOK
  BY DEF Inv
<1> QED
  BY CycleInvariant, <1>1, PTL

\* A writing transaction that passed its check pins the row until its backend
\* ends it: no new generation, and no outcome before its COMMIT has landed.
THEOREM PublicationsPinEpoch == Spec => []CommitPinsEpoch
<1>1. Inv => CommitPinsEpoch
  BY DEF Inv, Core
<1> QED
  BY CycleInvariant, <1>1, PTL

\* A running cycle whose session lives owns the lock and the row and its fence
\* is open: nothing but the loss of its session fences it out.
THEOREM LiveCyclesAreNotFenced == Spec => []LiveCycleNotFenced
<1>1. Inv => LiveCycleNotFenced
  BY DEF Inv, Core, LockIsSession, SessionOwnsRow, LiveCycleNotFenced
<1> QED
  BY CycleInvariant, <1>1, PTL

\* interrupted_cycles is exact.
THEOREM InterruptionsAreExact == Spec => []InterruptedAccounting
<1>1. Inv => InterruptedAccounting
  BY DEF Inv
<1> QED
  BY CycleInvariant, <1>1, PTL

\* An outcome once recorded stays, under later generations and late COMMITs.
THEOREM OutcomesAreFinal == Spec => OutcomeIsFinal
<1> DEFINE Final == \A g \in 1 .. Len(history) :
                      history[g] # "running" => history'[g] = history[g]
<1>1. ASSUME Inv, [Next]_vars PROVE [Final]_vars
  <2>1. CASE UNCHANGED <<row, history, ledger>>
    BY <2>1
  <2>2. ASSUME NEW k \in Conn, CommitLands(k) PROVE Final
    BY <2>2 DEF CommitLands
  <2>3. ASSUME NEW c \in Cycle, AdvanceCommitted(c) PROVE Final
    BY <1>1, <2>3, AdvanceAppends
  <2>4. ASSUME NEW c \in Cycle, OutcomeCommitted(c) PROVE Final
    BY <1>1, <2>4, OutcomeReplaces DEF Inv, InterruptedAccounting
  <2> QED
    BY <1>1, <2>1, <2>2, <2>3, <2>4, DurableSteps
<1> QED
  BY CycleInvariant, <1>1, PTL DEF Spec, OutcomeIsFinal

\* The tenant's cycles implement the fenced log: an advance is a new epoch, a
\* recorded outcome seals it, a COMMIT that lands is a publication of the epoch
\* that is current and open, and every other step is invisible.
THEOREM CyclesImplementFencedLog == Spec => ImplementsFencedLog
<1>1. Init => Promise!Init
  BY DEF Init, NoRow, Promise!Init
<1>2. ASSUME Inv, [Next]_vars PROVE [Promise!Next]_(Promise!logVars)
  <2> USE DEF Promise!Next, Promise!logVars
  <2>1. CASE UNCHANGED <<row, history, ledger>>
    BY <2>1
  <2>2. ASSUME NEW k \in Conn, CommitLands(k) PROVE [Promise!Next]_(Promise!logVars)
    <3>1. CASE readOnly[k]
      BY <2>2, <3>1 DEF CommitLands, serverVars
    <3>2. CASE ~readOnly[k]
      <4>1. generation[borrower[k]] = row.generation /\ row.status = "running"
        BY <1>2, <2>2, <3>2 DEF CommitLands, Inv, Core, CommitPinsEpoch, Shares, RowIs
      <4> QED
        BY <2>2, <3>2, <4>1 DEF CommitLands, serverVars, Promise!Publish
    <3> QED
      BY <3>1, <3>2
  <2>3. ASSUME NEW c \in Cycle, AdvanceCommitted(c) PROVE Promise!Advance
    BY <1>2, <2>3, AdvanceAppends DEF AdvanceCommitted, Inv, InterruptedAccounting,
       Promise!Advance
  <2>4. ASSUME NEW c \in Cycle, OutcomeCommitted(c) PROVE Promise!Seal
    BY <1>2, <2>4, OutcomeReplaces DEF OutcomeCommitted, Inv, TypeOK, Promise!Seal
  <2> QED
    BY <1>2, <2>1, <2>2, <2>3, <2>4, DurableSteps
<1> QED
  BY CycleInvariant, <1>1, <1>2, PTL DEF Spec, ImplementsFencedLog, Promise!Spec

-----------------------------------------------------------------------------
(* One job in its schedule.  Inside a cycle the worker runs the jobs of the *)
(* tenant, each under a claim of its own.                                   *)

\* The connection of a run that has the server's attention holds the lock of the job.
LockIsTheLivesOnes ==
  /\ \A r \in Run : backend[r] = "live" => jobLock = r
  /\ \A r \in Run : link[r] = "up" => backend[r] = "live"
  /\ \A r \in Run : backend[r] = "live" => link[r] # "none"
  /\ \A r \in Run : link[r] # "none" => place[r] \notin {"new", "connecting"}

\* What the row recorded of a run is its last transaction: nothing before it is
\* sent, and no more once it is heard.
OutcomeFits(r) ==
  /\ place[r] \in {"new", "connecting", "claiming", "running", "settling"} =>
       outcome[r] = {} /\ statement[r].op \in {"claim", "renew"}
  /\ statement[r].fate = "sent" => outcome[r] = {}
  /\ statement[r].fate = "matched" /\ statement[r].op = "complete" =>
       outcome[r] = {"succeeded"}
  /\ place[r] = "completing" /\ link[r] = "up" => statement[r].op = "complete"
  /\ waits[r] = "renew" => place[r] \in {"running", "settling"}
  /\ statement[r].at <= clock
  /\ result[r] = "succeeded" =>
       place[r] = "over" /\ statement[r].fate # "sent" /\ outcome[r] = {"succeeded"}
OutcomeIsTheLast == \A r \in Run : OutcomeFits(r)

JobInv == Job!TypeOK /\ LockIsTheLivesOnes /\ OutcomeIsTheLast

LEMMA JobInit == ASSUME Job!BoundAssumptions PROVE Job!Init => JobInv
  BY DEF Job!BoundAssumptions, Job!Init, JobInv, Job!TypeOK, LockIsTheLivesOnes,
         OutcomeIsTheLast, OutcomeFits, Job!NoStatement,
     Job!Phases, Job!Ops, Job!Fates

\* The dates that statements carry.
LEMMA ReadingsAreNumbers ==
  ASSUME Job!BoundAssumptions, Job!TypeOK
  PROVE  \A t \in Job!Readings : t \in Nat /\ t <= clock
<1> SUFFICES ASSUME NEW t \in Job!Readings
             PROVE  t \in Nat /\ t <= clock
  OBVIOUS
<1>1. clock \in Nat /\ Lag \in Nat
  BY DEF Job!BoundAssumptions, Job!TypeOK
<1> QED
  BY <1>1 DEF Job!Readings

\* The clock, and the connection's two ends.
LEMMA EndsKeep ==
  ASSUME Job!BoundAssumptions, JobInv, NEW r \in Run,
         Job!Tick \/ Job!LinkBreaks(r) \/ Job!BackendEnds(r) \/ Job!ServerAborts(r)
  PROVE  JobInv'
<1> USE DEF JobInv, Job!BoundAssumptions
<1>1. CASE Job!Tick
  <2>1. clock \in Nat /\ clock' = clock + 1 /\ clock' \in 0..Horizon
    BY <1>1 DEF Job!Tick, Job!TypeOK
  <2>2. Job!TypeOK'
    BY <1>1, <2>1 DEF Job!Tick, Job!TypeOK
  <2>3. \A q \in Run : statement[q].at \in Nat
    BY DEF Job!TypeOK
  <2>4. OutcomeIsTheLast'
    BY <1>1, <2>1, <2>3 DEF Job!Tick, OutcomeIsTheLast, OutcomeFits
  <2> QED
    BY <1>1, <2>2, <2>4 DEF Job!Tick, LockIsTheLivesOnes
<1>2. CASE Job!LinkBreaks(r)
  BY <1>2
     DEF Job!LinkBreaks, Job!TypeOK, LockIsTheLivesOnes, OutcomeIsTheLast, OutcomeFits
<1>3. CASE Job!BackendEnds(r)
  <2> DEFINE s == [statement[r] EXCEPT !.fate = IF @ = "sent" THEN "aborted" ELSE @]
  <2>1. statement[r] \in [op : Job!Ops, at : Nat, fate : Job!Fates]
    BY DEF Job!TypeOK
  <2>2. /\ s \in [op : Job!Ops, at : Nat, fate : Job!Fates] /\ s.op = statement[r].op
        /\ s.at = statement[r].at /\ s.fate # "sent"
        /\ s.fate # "aborted" => s.fate = statement[r].fate
    BY <2>1 DEF Job!Fates
  <2>3. statement' = [statement EXCEPT ![r] = s]
    BY <1>3 DEF Job!BackendEnds, Job!TypeOK
  <2> HIDE DEF s
  <2>4. /\ Job!TypeOK' /\ \A q \in Run : statement'[q] = IF q = r THEN s ELSE statement[q]
    BY <1>3, <2>2, <2>3 DEF Job!BackendEnds, Job!TypeOK
  <2>5. LockIsTheLivesOnes'
    BY <1>3 DEF Job!BackendEnds, Job!TypeOK, LockIsTheLivesOnes
  <2>6. OutcomeIsTheLast'
    BY <1>3, <2>2, <2>4 DEF Job!BackendEnds, Job!TypeOK, OutcomeIsTheLast, OutcomeFits
  <2> QED
    BY <2>4, <2>5, <2>6
<1>4. CASE Job!ServerAborts(r)
  <2> DEFINE s == [statement[r] EXCEPT !.fate = "aborted"]
  <2>1. statement[r] \in [op : Job!Ops, at : Nat, fate : Job!Fates]
    BY DEF Job!TypeOK
  <2>2. /\ s \in [op : Job!Ops, at : Nat, fate : Job!Fates] /\ s.op = statement[r].op
        /\ s.at = statement[r].at /\ s.fate = "aborted"
    BY <2>1 DEF Job!Fates
  <2>3. statement' = [statement EXCEPT ![r] = s]
    BY <1>4 DEF Job!ServerAborts, Job!TypeOK
  <2> HIDE DEF s
  <2>4. Job!TypeOK'
    BY <1>4, <2>2, <2>3 DEF Job!ServerAborts, Job!TypeOK
  <2>7. \A q \in Run : statement'[q] = IF q = r THEN s ELSE statement[q]
    BY <2>3 DEF Job!TypeOK
  <2>5. LockIsTheLivesOnes'
    BY <1>4 DEF Job!ServerAborts, LockIsTheLivesOnes
  <2>6. OutcomeIsTheLast'
    BY <1>4, <2>2, <2>7 DEF Job!ServerAborts, OutcomeIsTheLast, OutcomeFits
  <2> QED
    BY <2>4, <2>5, <2>6
<1> QED
  BY <1>1, <1>2, <1>3, <1>4

\* A transaction that the server commits.
LEMMA CommitKeeps ==
  ASSUME Job!BoundAssumptions, JobInv, NEW r \in Run, Job!ServerCommits(r)
  PROVE  JobInv'
<1> USE DEF JobInv, Job!BoundAssumptions
<1>1. /\ statement[r] \in [op : Job!Ops, at : Nat, fate : Job!Fates]
      /\ job \in [token : Run \cup {Nobody}, expires : Nat, next : Nat]
      /\ statement[r].fate = "sent" /\ outcome[r] = {}
  BY DEF Job!TypeOK, Job!ServerCommits, OutcomeIsTheLast, OutcomeFits
<1>2. PICK fate \in {"matched", "unmatched"} :
        /\ statement' = [statement EXCEPT ![r].fate = fate]
        /\ fate = "unmatched" => UNCHANGED <<job, outcome>>
        /\ fate = "matched" => /\ job' = Job!Updated(r)
                               /\ outcome' = [outcome EXCEPT ![r] = @ \cup Job!Recorded(r)]
  BY DEF Job!ServerCommits
<1>3. UNCHANGED <<clock, jobLock, link, backend, waits, place, okay, leaseLost, result>>
  BY DEF Job!ServerCommits
<1> DEFINE s == [statement[r] EXCEPT !.fate = fate]
<1>4. /\ s \in [op : Job!Ops, at : Nat, fate : Job!Fates] /\ s.op = statement[r].op
      /\ s.at = statement[r].at /\ s.fate = fate
  BY <1>1, <1>2 DEF Job!Fates
<1>5. statement' = [statement EXCEPT ![r] = s]
  BY <1>2 DEF Job!TypeOK
<1> HIDE DEF s
<1>6. job' \in [token : Run \cup {Nobody}, expires : Nat, next : Nat]
  <2>1. CASE fate = "unmatched"
    BY <1>1, <1>2, <2>1
  <2>2. CASE fate = "matched"
    <3>1. /\ statement[r].at \in Nat /\ statement[r].at + Lease \in Nat
          /\ statement[r].at + Interval \in Nat /\ statement[r].at + Retry \in Nat
      BY <1>1
    <3>2. statement[r].op \in Job!Ops
      BY <1>1
    <3>3. job' = Job!Updated(r)
      BY <1>2, <2>2
    <3>4. Job!Updated(r) \in [token : Run \cup {Nobody}, expires : Nat, next : Nat]
      BY <1>1, <3>1, <3>2 DEF Job!Updated, Job!Ops
    <3> QED
      BY <3>3, <3>4
  <2> QED
    BY <1>2, <2>1, <2>2
<1>7. /\ outcome'[r] = IF fate = "matched" THEN Job!Recorded(r) ELSE {}
      /\ \A q \in Run : q # r => outcome'[q] = outcome[q]
      /\ outcome' \in [Run -> SUBSET {"succeeded", "failed"}]
  <2>1. Job!Recorded(r) \subseteq {"succeeded", "failed"}
    BY DEF Job!Recorded
  <2>2. outcome \in [Run -> SUBSET {"succeeded", "failed"}]
    BY DEF Job!TypeOK
  <2>3. CASE fate = "unmatched"
    BY <1>1, <1>2, <2>2, <2>3
  <2>4. CASE fate = "matched"
    <3>1. outcome' = [outcome EXCEPT ![r] = Job!Recorded(r)]
      BY <1>1, <1>2, <2>2, <2>4
    <3> QED
      BY <2>1, <2>2, <2>4, <3>1
  <2> QED
    BY <1>2, <2>3, <2>4
<1>8. \A q \in Run : statement'[q] = IF q = r THEN s ELSE statement[q]
  BY <1>5 DEF Job!TypeOK
<1>9. Job!TypeOK'
  BY <1>3, <1>4, <1>5, <1>6, <1>7 DEF Job!TypeOK
<1>10. LockIsTheLivesOnes'
  BY <1>3 DEF LockIsTheLivesOnes
<1>11. OutcomeIsTheLast'
  <2> SUFFICES ASSUME NEW q \in Run
               PROVE  OutcomeFits(q)'
    BY DEF OutcomeIsTheLast
  <2>1. CASE q # r
    BY <1>3, <1>7, <1>8, <2>1 DEF OutcomeIsTheLast, OutcomeFits
  <2>2. CASE q = r
    <3>1. statement[r].op \in {"claim", "renew"} => Job!Recorded(r) = {}
      BY DEF Job!Recorded
    <3>2. statement[r].op = "complete" => Job!Recorded(r) = {"succeeded"}
      BY DEF Job!Recorded
    <3> QED
      BY <1>1, <1>2, <1>3, <1>4, <1>7, <1>8, <2>2, <3>1, <3>2
         DEF OutcomeIsTheLast, OutcomeFits
  <2> QED
    BY <2>1, <2>2
<1> QED
  BY <1>9, <1>10, <1>11

\* A run that stops waiting leaves no statement of its own, but what is still sent.
LEMMA AnswerClears ==
  ASSUME Job!TypeOK, NEW r \in Run, Job!Answered(r)
  PROVE  /\ waits' \in [Run -> {"none"} \cup Job!Ops] /\ waits'[r] = "none"
         /\ statement' \in [Run -> [op : Job!Ops, at : Nat, fate : Job!Fates]]
         /\ \A q \in Run : q # r => waits'[q] = waits[q] /\ statement'[q] = statement[q]
         /\ statement'[r] = IF statement[r].fate = "sent" THEN statement[r] ELSE Job!NoStatement
<1>1. Job!NoStatement \in [op : Job!Ops, at : Nat, fate : Job!Fates]
  BY DEF Job!NoStatement, Job!Ops, Job!Fates
<1> HIDE DEF Job!NoStatement
<1> QED
  BY <1>1 DEF Job!Answered, Job!TypeOK

\* Unlocking ends with the connection given back, and the lock with it, or lost.
LEMMA UnlockReleases ==
  ASSUME Job!TypeOK, LockIsTheLivesOnes, NEW r \in Run, Job!Unlock(r)
  PROVE  /\ jobLock' \in Run \cup {Nobody}
         /\ link' \in [Run -> {"none", "up", "down"}] /\ link'[r] # "up"
         /\ backend' \in [Run -> {"none", "live", "ended"}]
         /\ \A q \in Run : q # r => link'[q] = link[q] /\ backend'[q] = backend[q]
         /\ \A q \in Run : backend'[q] = "live" => jobLock' = q /\ backend[q] = "live"
         /\ backend'[r] = "live" => link'[r] = "down"
         /\ link'[r] = "none" => link[r] = "up"
<1>1. CASE /\ link[r] = "up" /\ jobLock' = Nobody
           /\ link' = [link EXCEPT ![r] = "none"] /\ backend' = [backend EXCEPT ![r] = "none"]
  <2>1. backend[r] = "live" /\ jobLock = r
    BY <1>1 DEF LockIsTheLivesOnes
  <2> QED
    BY <1>1, <2>1 DEF Job!TypeOK, LockIsTheLivesOnes
<1>2. CASE /\ link[r] \in {"up", "down"} /\ link' = [link EXCEPT ![r] = "down"]
           /\ UNCHANGED <<jobLock, backend>>
  BY <1>2 DEF Job!TypeOK, LockIsTheLivesOnes
<1> QED
  BY <1>1, <1>2 DEF Job!Unlock

\* A run that ends by unlocking: what is left of its statement is nobody's success.
LEMMA EndingKeeps ==
  ASSUME Job!BoundAssumptions, JobInv, NEW r \in Run,
         place[r] \in {"claiming", "completing", "failing"}, Job!Answered(r), Job!Unlock(r),
         NEW res \in {"not_due", "unavailable", "failed", "succeeded"}, Job!Return(r, res),
         res = "succeeded" => Job!Heard(r, "matched") /\ place[r] = "completing",
         UNCHANGED <<clock, job, okay, leaseLost, outcome>>
  PROVE  JobInv'
<1> USE DEF JobInv
<1>1. Job!TypeOK'
  BY AnswerClears, UnlockReleases DEF Job!TypeOK, Job!Return, Job!Phases
<1>2. /\ \A q \in Run : q # r => place'[q] = place[q] /\ result'[q] = result[q]
      /\ place'[r] = "over" /\ result'[r] = res
  BY DEF Job!TypeOK, Job!Return
<1>5. /\ link'[r] # "up"
      /\ backend'[r] = "live" => link'[r] = "down"
      /\ link'[r] = "none" => link[r] = "up"
      /\ \A q \in Run : q # r => link'[q] = link[q] /\ backend'[q] = backend[q]
      /\ \A q \in Run : backend'[q] = "live" => jobLock' = q /\ backend[q] = "live"
  BY UnlockReleases
<1>3. LockIsTheLivesOnes'
  <2> SUFFICES ASSUME NEW q \in Run
               PROVE  /\ backend'[q] = "live" => jobLock' = q
                      /\ link'[q] = "up" => backend'[q] = "live"
                      /\ backend'[q] = "live" => link'[q] # "none"
                      /\ link'[q] # "none" => place'[q] \notin {"new", "connecting"}
    BY DEF LockIsTheLivesOnes
  <2> QED
    BY <1>2, <1>5 DEF LockIsTheLivesOnes
<1>4. OutcomeIsTheLast'
  <2>1. ASSUME NEW q \in Run, q # r
        PROVE  /\ place'[q] = place[q] /\ result'[q] = result[q] /\ link'[q] = link[q]
               /\ waits'[q] = waits[q] /\ statement'[q] = statement[q]
    BY AnswerClears, <1>2, <1>5, <2>1
  <2>2. clock \in Nat
    BY DEF Job!TypeOK, Job!BoundAssumptions
  <2>3. /\ statement'[r].at <= clock
        /\ statement'[r].fate = "sent" => outcome[r] = {}
        /\ ~ (statement'[r].fate = "matched")
    BY AnswerClears, <2>2 DEF OutcomeIsTheLast, OutcomeFits, Job!NoStatement
  <2>4. /\ waits'[r] = "none" /\ place'[r] = "over" /\ result'[r] = res
    BY AnswerClears, <1>2, SMTT(30)
  <2>5. res = "succeeded" => statement'[r].fate # "sent" /\ outcome[r] = {"succeeded"}
    BY AnswerClears DEF OutcomeIsTheLast, OutcomeFits, Job!Heard, Job!NoStatement
  <2> QED
    <3>1. ASSUME NEW q \in Run, q # r
          PROVE  OutcomeFits(q)'
      BY <2>1, <3>1 DEF OutcomeIsTheLast, OutcomeFits
    <3> QED
      BY <2>3, <2>4, <2>5, <3>1 DEF OutcomeIsTheLast, OutcomeFits
<1> QED
  BY <1>1, <1>3, <1>4

\* The steps before and at the lock.
LEMMA ConnectingKeeps ==
  ASSUME Job!BoundAssumptions, JobInv, NEW r \in Run,
         Job!Start(r) \/ Job!TryLock(r) \/ Job!LockTaken(r) \/ Job!ConnectFails(r)
  PROVE  JobInv'
<1> USE DEF JobInv
<1>0. statement[r] \in [op : Job!Ops, at : Nat, fate : Job!Fates]
  BY DEF Job!TypeOK
<1>1. CASE Job!Start(r)
  <2>1. PICK t \in Job!Readings : statement' = [statement EXCEPT ![r].at = t]
    BY <1>1 DEF Job!Start
  <2>2. t \in Nat /\ t <= clock
    BY ReadingsAreNumbers, <2>1
  <2> DEFINE s == [statement[r] EXCEPT !.at = t]
  <2>3. /\ s \in [op : Job!Ops, at : Nat, fate : Job!Fates] /\ s.op = statement[r].op
        /\ s.at = t /\ s.fate = statement[r].fate
    BY <1>0, <2>2
  <2>4. statement' = [statement EXCEPT ![r] = s]
    BY <2>1 DEF Job!TypeOK
  <2> HIDE DEF s
  <2>5. /\ Job!TypeOK' /\ \A q \in Run : statement'[q] = IF q = r THEN s ELSE statement[q]
    BY <1>1, <2>3, <2>4 DEF Job!Start, Job!TypeOK, Job!Phases
  <2>6. /\ \A q \in Run : place'[q] = IF q = r THEN "connecting" ELSE place[q]
        /\ UNCHANGED <<clock, job, jobLock, link, backend, waits, okay,
                       leaseLost, result, outcome>>
    BY <1>1 DEF Job!Start, Job!TypeOK
  <2>7. place[r] = "new"
    BY <1>1 DEF Job!Start
  <2>8. LockIsTheLivesOnes'
    BY <2>6, <2>7 DEF LockIsTheLivesOnes
  <2>9. OutcomeIsTheLast'
    BY <2>2, <2>3, <2>5, <2>6, <2>7 DEF OutcomeIsTheLast, OutcomeFits
  <2> QED
    BY <2>5, <2>8, <2>9
<1>2. CASE Job!TryLock(r)
  <2> DEFINE s == [statement[r] EXCEPT !.fate = "sent"]
  <2>3. /\ s \in [op : Job!Ops, at : Nat, fate : Job!Fates] /\ s.op = statement[r].op
        /\ s.at = statement[r].at /\ s.fate = "sent"
    BY <1>0 DEF Job!Fates
  <2>4. statement' = [statement EXCEPT ![r] = s]
    BY <1>2 DEF Job!TryLock, Job!TypeOK
  <2> HIDE DEF s
  <2>5. /\ Job!TypeOK' /\ \A q \in Run : statement'[q] = IF q = r THEN s ELSE statement[q]
    BY <1>2, <2>3, <2>4 DEF Job!TryLock, Job!TypeOK, Job!Phases, Job!Ops
  <2>6. /\ \A q \in Run : /\ place'[q] = IF q = r THEN "claiming" ELSE place[q]
                          /\ waits'[q] = IF q = r THEN "claim" ELSE waits[q]
                          /\ link'[q] = IF q = r THEN "up" ELSE link[q]
                          /\ backend'[q] = IF q = r THEN "live" ELSE backend[q]
        /\ jobLock = Nobody /\ jobLock' = r
        /\ UNCHANGED <<clock, job, okay, leaseLost, result, outcome>>
        /\ place[r] = "connecting"
    <3>1. /\ place' = [place EXCEPT ![r] = "claiming"] /\ place \in [Run -> Job!Phases]
          /\ waits' = [waits EXCEPT ![r] = "claim"] /\ waits \in [Run -> {"none"} \cup Job!Ops]
          /\ link' = [link EXCEPT ![r] = "up"] /\ link \in [Run -> {"none", "up", "down"}]
          /\ backend' = [backend EXCEPT ![r] = "live"]
          /\ backend \in [Run -> {"none", "live", "ended"}]
      BY <1>2 DEF Job!TryLock, Job!TypeOK
    <3>2. /\ jobLock = Nobody /\ jobLock' = r /\ place[r] = "connecting"
          /\ UNCHANGED <<clock, job, okay, leaseLost, result, outcome>>
      BY <1>2 DEF Job!TryLock, Job!LockFree
    <3> QED
      BY <3>1, <3>2
  <2>8. LockIsTheLivesOnes'
    BY <2>6 DEF LockIsTheLivesOnes, Job!BoundAssumptions
  <2>9. OutcomeIsTheLast'
    BY <2>3, <2>5, <2>6 DEF OutcomeIsTheLast, OutcomeFits
  <2> QED
    BY <2>5, <2>8, <2>9
<1>3. CASE Job!LockTaken(r) \/ Job!ConnectFails(r)
  <2>1. PICK res \in {"not_due", "unavailable"} :
          /\ Job!Return(r, res) /\ place[r] = "connecting"
          /\ UNCHANGED <<clock, job, jobLock, link, backend, statement, waits, okay,
                       leaseLost, outcome>>
    BY <1>3 DEF Job!LockTaken, Job!ConnectFails
  <2>2. Job!TypeOK'
    BY <2>1 DEF Job!Return, Job!TypeOK, Job!Phases
  <2>3. LockIsTheLivesOnes'
    BY <2>1 DEF Job!Return, Job!TypeOK, LockIsTheLivesOnes
  <2>4. OutcomeIsTheLast'
    BY <2>1 DEF Job!Return, Job!TypeOK, OutcomeIsTheLast, OutcomeFits
  <2> QED
    BY <2>2, <2>3, <2>4
<1> QED
  BY <1>1, <1>2, <1>3

\* The steps of a run that has claimed, up to its outcome.
LEMMA RunningKeeps ==
  ASSUME Job!BoundAssumptions, JobInv, NEW r \in Run,
         Job!Claimed(r) \/ Job!Heartbeat(r) \/ Job!Renewed(r) \/ Job!TaskSettles(r) \/
         Job!SendOutcome(r) \/ Job!Crash(r)
  PROVE  JobInv'
<1> USE DEF JobInv
<1>0. clock \in Nat
  BY DEF Job!BoundAssumptions, Job!TypeOK
<1>1. CASE Job!Claimed(r) \/ Job!Renewed(r)
  <2>1. /\ Job!Answered(r)
        /\ UNCHANGED <<clock, job, jobLock, link, backend, okay, result, outcome>>
    BY <1>1 DEF Job!Claimed, Job!Renewed
  <2>2. leaseLost' \in [Run -> BOOLEAN]
    <3>1. ASSUME NEW b \in BOOLEAN
          PROVE  [leaseLost EXCEPT ![r] = @ \/ b] \in [Run -> BOOLEAN]
      BY DEF Job!TypeOK
    <3>2. CASE Job!Claimed(r)
      BY <3>2 DEF Job!Claimed, Job!TypeOK
    <3>3. CASE Job!Renewed(r)
      <4>1. CASE Job!Heard(r, "matched")
        BY <3>1, <3>3, <4>1 DEF Job!Renewed
      <4>2. CASE ~Job!Heard(r, "matched")
        BY <3>1, <3>3, <4>2 DEF Job!Renewed
      <4> QED
        BY <4>1, <4>2
    <3> QED
      BY <1>1, <3>2, <3>3
  <2>3. /\ place' \in [Run -> Job!Phases] /\ \A q \in Run : q # r => place'[q] = place[q]
        /\ place[r] \in {"claiming", "running", "settling"}
        /\ place'[r] \in {"running", "settling"} 
    BY <1>1
       DEF Job!Claimed, Job!Renewed, Job!TypeOK, Job!Phases, OutcomeIsTheLast,
           OutcomeFits
  <2>4. Job!TypeOK'
    BY <2>1, <2>2, <2>3, AnswerClears DEF Job!TypeOK
  <2>5. LockIsTheLivesOnes'
    BY <2>1, <2>3 DEF LockIsTheLivesOnes
  <2>6. ASSUME NEW q \in Run, q # r
        PROVE  waits'[q] = waits[q] /\ statement'[q] = statement[q]
    BY AnswerClears, <2>1, <2>6
  <2>7. /\ waits'[r] = "none" /\ statement'[r].at <= clock
        /\ statement'[r].fate = "sent" => outcome[r] = {}
        /\ statement'[r].op \in {"claim", "renew"}
    BY AnswerClears, <1>0, <2>1, <2>3 DEF OutcomeIsTheLast, OutcomeFits, Job!NoStatement
  <2>8. OutcomeIsTheLast'
    BY <2>1, <2>3, <2>6, <2>7 DEF OutcomeIsTheLast, OutcomeFits
  <2> QED
    BY <2>4, <2>5, <2>8
<1>2. CASE Job!Heartbeat(r) \/ Job!SendOutcome(r)
  <2>1. PICK op \in Job!Ops, t \in Job!Readings :
          /\ Job!Sent(r, op, t) /\ waits[r] = "none"
          /\ \/ place[r] = "running" /\ op = "renew" /\ place' = place
             \/ /\ place[r] = "settling" /\ op = "complete"
                /\ place' = [place EXCEPT ![r] = "completing"]
             \/ /\ place[r] = "settling" /\ op = "fail"
                /\ place' = [place EXCEPT ![r] = "failing"]
          /\ UNCHANGED <<clock, job, jobLock, link, backend, okay, leaseLost, result, outcome>>
    <3>1. CASE Job!Heartbeat(r)
      BY <3>1 DEF Job!Heartbeat, Job!Ops
    <3>2. CASE Job!SendOutcome(r)
      BY <3>2 DEF Job!SendOutcome, Job!Ops
    <3> QED
      BY <1>2, <3>1, <3>2
  <2>2. t \in Nat /\ t <= clock
    BY ReadingsAreNumbers
  <2> DEFINE s == [op |-> op, at |-> t, fate |-> "sent"]
  <2>3. /\ s \in [op : Job!Ops, at : Nat, fate : Job!Fates] 
        /\ s.op = op /\ s.at = t /\ s.fate = "sent"
    BY <2>2 DEF Job!Fates
  <2>4. /\ waits' = [waits EXCEPT ![r] = op]
        /\ statement' = IF link[r] = "up" THEN [statement EXCEPT ![r] = s] ELSE statement
    BY <2>1 DEF Job!Sent
  <2> HIDE DEF s
  <2>5. Job!TypeOK'
    BY <2>1, <2>3, <2>4 DEF Job!TypeOK, Job!Phases
  <2>6. \A q \in Run : /\ statement'[q] = IF q = r /\ link[r] = "up" THEN s ELSE statement[q]
                       /\ waits'[q] = IF q = r THEN op ELSE waits[q]
                       /\ q # r => place'[q] = place[q]
    <3>1. /\ statement \in [Run -> [op : Job!Ops, at : Nat, fate : Job!Fates]]
          /\ waits \in [Run -> {"none"} \cup Job!Ops] /\ place \in [Run -> Job!Phases]
      BY DEF Job!TypeOK
    <3>2. \A q \in Run : q # r => place'[q] = place[q]
      BY <2>1, <3>1
    <3>3. \A q \in Run : waits'[q] = IF q = r THEN op ELSE waits[q]
      BY <2>4, <3>1
    <3>4. \A q \in Run : statement'[q] = IF q = r /\ link[r] = "up" THEN s ELSE statement[q]
      BY <2>4, <3>1
    <3> QED
      BY <3>2, <3>3, <3>4
  <2>7. \/ place[r] = "running" /\ op = "renew" /\ place'[r] = "running"
        \/ place[r] = "settling" /\ op = "complete" /\ place'[r] = "completing"
        \/ place[r] = "settling" /\ op = "fail" /\ place'[r] = "failing"
    BY <2>1 DEF Job!TypeOK
  <2>8. LockIsTheLivesOnes'
    BY <2>1, <2>6, <2>7 DEF LockIsTheLivesOnes
  <2>9. OutcomeIsTheLast'
    BY <2>1, <2>2, <2>3, <2>6, <2>7 DEF OutcomeIsTheLast, OutcomeFits
  <2> QED
    BY <2>5, <2>8, <2>9
<1>3. CASE Job!TaskSettles(r)
  <2>1. /\ place' = [place EXCEPT ![r] = "settling"] /\ place[r] = "running"
        /\ okay' \in [Run -> BOOLEAN]
        /\ UNCHANGED <<clock, job, jobLock, link, backend, statement, waits,
                       leaseLost, result, outcome>>
    BY <1>3 DEF Job!TaskSettles, Job!TypeOK
  <2>2. Job!TypeOK'
    BY <2>1 DEF Job!TypeOK, Job!Phases
  <2>3. LockIsTheLivesOnes' /\ OutcomeIsTheLast'
    BY <2>1 DEF Job!TypeOK, LockIsTheLivesOnes, OutcomeIsTheLast, OutcomeFits
  <2> QED
    BY <2>2, <2>3
<1>4. CASE Job!Crash(r)
  <2>1. /\ link' = [link EXCEPT ![r] = IF link[r] = "up" THEN "down" ELSE link[r]]
        /\ waits' = [waits EXCEPT ![r] = "none"]
        /\ place' = [place EXCEPT ![r] = "over"] /\ result' = [result EXCEPT ![r] = "crashed"]
        /\ UNCHANGED <<clock, job, jobLock, backend, statement, okay, leaseLost, outcome>>
    BY <1>4 DEF Job!Crash, Job!Return
  <2>2. Job!TypeOK'
    BY <2>1 DEF Job!TypeOK, Job!Phases
  <2>3. LockIsTheLivesOnes'
    BY <2>1 DEF Job!TypeOK, LockIsTheLivesOnes
  <2>4. OutcomeIsTheLast'
    BY <2>1 DEF Job!TypeOK, OutcomeIsTheLast, OutcomeFits
  <2> QED
    BY <2>2, <2>3, <2>4
<1> QED
  BY <1>1, <1>2, <1>3, <1>4

LEMMA JobNext == ASSUME Job!BoundAssumptions, JobInv, [Job!Next]_(Job!vars) PROVE JobInv'
<1>1. ASSUME NEW r \in Run,
             Job!NotDue(r) \/ Job!ClaimThrows(r) \/
             Job!CompleteAnswered(r) \/ Job!FailAnswered(r)
      PROVE  JobInv'
  <2>1. PICK res \in {"not_due", "unavailable", "failed", "succeeded"} :
          /\ place[r] \in {"claiming", "completing", "failing"}
          /\ Job!Answered(r) /\ Job!Unlock(r)
          /\ Job!Return(r, res)
          /\ res = "succeeded" => Job!Heard(r, "matched") /\ place[r] = "completing"
          /\ UNCHANGED <<clock, job, okay, leaseLost, outcome>>
    BY <1>1 DEF Job!NotDue, Job!ClaimThrows, Job!CompleteAnswered, Job!FailAnswered
  <2> QED
    BY <2>1, EndingKeeps
<1>2. CASE UNCHANGED Job!vars
  BY <1>2
     DEF Job!vars, JobInv, Job!TypeOK, LockIsTheLivesOnes, OutcomeIsTheLast, OutcomeFits
<1>3. CASE Job!Tick
  <2>1. CASE Run = {}
    BY <1>3, <2>1
       DEF Job!Tick, JobInv, Job!TypeOK, LockIsTheLivesOnes, OutcomeIsTheLast,
           OutcomeFits, Job!BoundAssumptions
  <2> QED
    BY <1>3, <2>1, EndsKeep
<1> QED
  BY <1>1, <1>2, <1>3, EndsKeep, CommitKeeps, ConnectingKeeps, RunningKeeps
     DEF Job!Next, Job!RunStep, Job!ServerStep

\* "succeeded" is reported only for an outcome the row has recorded for that claim.
THEOREM SuccessIsRecorded ==
  ASSUME Job!BoundAssumptions
  PROVE  Job!Spec => []ReportedSuccessIsRecorded
<1>1. JobInv => ReportedSuccessIsRecorded
  BY DEF JobInv, ReportedSuccessIsRecorded, OutcomeIsTheLast, OutcomeFits, Job!ReportedSuccessIsRecorded
<1> QED
  BY <1>1, JobInit, JobNext, PTL DEF Job!Spec

\* A claim without an outcome is replaced only after its lease and its backend.
THEOREM ClaimsAreNotStolen ==
  ASSUME Job!BoundAssumptions
  PROVE  Job!Spec => TakeoverWaits
<1> DEFINE Waits == \A r \in Run : job.token = r /\ job'.token \notin {r, Nobody} =>
                                    job.expires =< clock /\ backend[r] # "live"
<1>1. ASSUME JobInv, [Job!Next]_(Job!vars)
      PROVE  [Waits]_(Job!vars)
  <2> SUFFICES ASSUME NEW r \in Run, job.token = r, job'.token \notin {r, Nobody}
               PROVE  job.expires =< clock /\ backend[r] # "live"
    OBVIOUS
  <2>1. job' # job
    OBVIOUS
  <2>2. PICK q \in Run : Job!ServerCommits(q)
    BY <1>1, <2>1
       DEF Job!Next, Job!RunStep, Job!ServerStep, Job!vars, Job!Tick, Job!LinkBreaks,
           Job!BackendEnds, Job!ServerAborts,
         Job!Start, Job!TryLock, Job!LockTaken, Job!ConnectFails, Job!Claimed,
         Job!NotDue, Job!ClaimThrows, Job!Heartbeat, Job!Renewed,
         Job!TaskSettles, Job!SendOutcome, Job!CompleteAnswered, Job!FailAnswered,
         Job!Crash
  <2>3. /\ Job!Matches(q) /\ job' = Job!Updated(q) /\ backend[q] = "live"
    BY <2>1, <2>2 DEF Job!ServerCommits
  <2>4. /\ job \in [token : Run \cup {Nobody}, expires : Nat, next : Nat]
        /\ statement[q] \in [op : Job!Ops, at : Nat, fate : Job!Fates] /\ clock \in Nat
    BY <1>1 DEF JobInv, Job!TypeOK, Job!BoundAssumptions
  <2>5. statement[q].op \in Job!Ops
    BY <2>4
  <2>6. statement[q].op = "claim"
    BY <2>3, <2>4, <2>5 DEF Job!Updated, Job!Ops
  <2>7. q # r
    BY <2>3, <2>4, <2>6 DEF Job!Updated
  <2>8. job.expires <= statement[q].at /\ statement[q].at <= clock
    BY <1>1, <2>3, <2>6
       DEF Job!Matches, Job!ClaimMatches, JobInv, OutcomeIsTheLast, OutcomeFits
  <2>9. job.expires \in Nat /\ statement[q].at \in Nat
    BY <2>4
  <2> QED
    BY <1>1, <2>3, <2>4, <2>7, <2>8, <2>9 DEF JobInv, LockIsTheLivesOnes
<1> QED
  BY <1>1, JobInit, JobNext, PTL DEF Job!Spec, TakeoverWaits, Job!TakeoverWaits
=============================================================================
