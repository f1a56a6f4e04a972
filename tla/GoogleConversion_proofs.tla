------------------------ MODULE GoogleConversion_proofs ------------------------
(***************************************************************************)
(* The outbox of Google conversions: its rows agree with the ledger of     *)
(* their results and with the payload store, for any number of             *)
(* conversions, workers, revisions and faults.                             *)
(*                                                                         *)
(* The argument is about the copy of the row that a worker takes with its  *)
(* claim.  While the row still names the worker, the copy is the row; so   *)
(* what the worker concludes from it is the next result of that row, and   *)
(* the body that it purges then is one that no row waits with.  A worker   *)
(* whose claim another has taken only finds out.                           *)
(***************************************************************************)
EXTENDS GoogleConversion, SequenceTheorems, TLAPS

\* What a worker is at, with the fields it keeps there.
Written == [at : {"written"}, c : Conversions, body : Conversions \X Workers,
            revision : 1..MaxRevisions]
Delivery == [at : {"claimed", "bound", "ready", "asking"}, c : Conversions, row : Row]
Conclusion == [at : {"ending"}, c : Conversions, row : Row, state : Open \cup Final,
               cool : BOOLEAN]
Purging == [at : {"purging"}, body : Conversions \X Workers]
Job == Written \cup Delivery \cup Conclusion \cup Purging \cup {Idle}
Typed ==
  /\ rows \in [DOMAIN rows -> Row]
  /\ results \in [Conversions -> Seq(Nat \X (Open \cup Final))]
  /\ worker \in [Workers -> Job]

\* A row has a request left, until its deadline ends it.
RowFits(c) ==
  LET row == rows[c] IN
  /\ row.body[1] = c
  /\ row.late => row.state # "queued"
  /\ row.state \in Open => row.attempts <= MaxAttempts
  /\ row.state \in Open /\ row.due => row.attempts < MaxAttempts \/ row.late

\* The body a worker may still purge is no open row's, and until the
\* conversion is settled it is there for the row to come.
WriterFits(w) ==
  At(w, "written") =>
    /\ worker[w].body = <<worker[w].c, w>>
    /\ worker[w].c \in DOMAIN rows => rows[worker[w].c].body # worker[w].body
    /\ worker[w].c \notin withdrawn \cup DOMAIN rows => worker[w].body \in readable
PurgerFits(w) ==
  At(w, "purging") =>
    LET c == worker[w].body[1] IN
    c \in withdrawn \/ (c \in DOMAIN rows /\ rows[c].state \in Final)

\* While the claim is its own, a worker's copy is the row.
Delivering(w) == worker[w].at \in {"claimed", "bound", "ready", "asking", "ending"}
CopyFits(w) ==
  LET row == worker[w].row
      c == worker[w].c IN
  /\ row.state \in Open
  /\ row.attempts < MaxAttempts \/ (row.late /\ row.attempts = MaxAttempts)
  /\ row.late => row.state # "queued"
  /\ worker[w].at \in {"ready", "asking"} => row.attempts < MaxAttempts
  /\ c \in DOMAIN rows /\ rows[c].claim = w =>
       /\ rows[c].state = row.state /\ rows[c].attempts = row.attempts
       /\ rows[c].body = row.body
  /\ At(w, "ending") =>
       /\ worker[w].state \in Open => row.attempts < MaxAttempts
       /\ row.state \in Polling => worker[w].state # "queued"

JobFits(w) == WriterFits(w) /\ PurgerFits(w) /\ (Delivering(w) => CopyFits(w))

\* A withdrawn conversion has no row again; one without a row has no history.
Gone ==
  /\ \A body \in doomed : body[1] \in withdrawn
  /\ \A c \in Conversions \ withdrawn : c \notin DOMAIN rows => results[c] = <<>>
  /\ \A c \in DOMAIN rows : results[c] # <<>>

OutboxInv ==
  /\ TypeOK /\ Typed
  /\ \A c \in DOMAIN rows : RowFits(c)
  /\ \A w \in Workers : JobFits(w)
  /\ Gone /\ OneHistory /\ BodiesFollowRows

-----------------------------------------------------------------------------
\* One history, as OneHistory asks: numbered from 0, nothing after a final state,
\* nothing queued again once Google has accepted it.
InOrder(h) ==
  /\ \A i \in DOMAIN h : h[i][1] = i - 1
  /\ \A i, j \in DOMAIN h : i < j =>
       /\ h[i][2] \notin Final
       /\ h[i][2] \in Polling => h[j][2] # "queued"

\* A result that follows the last one continues the history of its conversion.
LEMMA HistoryGrows ==
  ASSUME NEW h \in Seq(Nat \X (Open \cup Final)), h # <<>>, InOrder(h),
         NEW e \in Nat \X (Open \cup Final), NEW g, g = Append(h, e),
         e[1] = Len(h), h[Len(h)][2] \in Open,
         h[Len(h)][2] \in Polling => e[2] # "queued"
  PROVE  g # <<>> /\ g[Len(g)] = e /\ InOrder(g)
<1> DEFINE n == Len(h)
<1>1. n \in Nat /\ n # 0 /\ DOMAIN h = 1..n
  OBVIOUS
<1>2. /\ Len(g) = n + 1 /\ DOMAIN g = 1..(n + 1) /\ g # <<>>
      /\ \A i \in 1..n : g[i] = h[i]
      /\ g[n + 1] = e
  BY AppendProperties
<1>3. e[1] = n /\ h[n][2] \in Open /\ (h[n][2] \in Polling => e[2] # "queued")
  OBVIOUS
<1> HIDE DEF n
<1>4. \A i \in DOMAIN g : i \in DOMAIN h \/ i = n + 1
  BY <1>1, <1>2
<1>5. ASSUME NEW i \in DOMAIN h
      PROVE  /\ h[i][2] \notin Final
             /\ h[i][2] \in Polling => e[2] # "queued"
  <2>1. CASE i = n
    BY <1>3, <2>1 DEF Open, Polling, Final
  <2>2. CASE i # n
    <3>1. i < n /\ n \in DOMAIN h
      BY <1>1, <2>2
    <3>2. h[i][2] \notin Final /\ (h[i][2] \in Polling => h[n][2] # "queued")
      BY <3>1 DEF InOrder
    <3>3. h[n][2] # "queued" => h[n][2] \in Polling
      BY <1>3 DEF Open, Polling
    <3> QED
      BY <1>3, <3>2, <3>3
  <2> QED
    BY <2>1, <2>2
<1>6. \A i \in DOMAIN g : g[i][1] = i - 1
  <2>1. ASSUME NEW i \in DOMAIN h
        PROVE  g[i][1] = i - 1
    BY <1>1, <1>2 DEF InOrder
  <2>2. g[n + 1][1] = (n + 1) - 1
    BY <1>1, <1>2, <1>3
  <2> QED
    BY <1>4, <2>1, <2>2
<1>7. ASSUME NEW i \in DOMAIN g, NEW j \in DOMAIN g, i < j
      PROVE  /\ g[i][2] \notin Final
             /\ g[i][2] \in Polling => g[j][2] # "queued"
  <2>1. i \in DOMAIN h /\ g[i] = h[i]
    BY <1>1, <1>2, <1>7
  <2>2. CASE j = n + 1
    BY <1>2, <1>5, <2>1, <2>2
  <2>3. CASE j \in DOMAIN h
    <3>1. g[j] = h[j]
      BY <1>1, <1>2, <2>3
    <3> QED
      BY <1>7, <2>1, <2>3, <3>1 DEF InOrder
  <2> QED
    BY <1>4, <2>2, <2>3
<1> QED
  BY <1>2, <1>6, <1>7 DEF InOrder

LEMMA HistoryOf ==
  ASSUME OneHistory, NEW c \in Conversions
  PROVE  /\ \A i \in DOMAIN results[c] : results[c][i][1] = i - 1
         /\ \A i, j \in DOMAIN results[c] : i < j =>
              /\ results[c][i][2] \notin Final
              /\ results[c][i][2] \in Polling => results[c][j][2] # "queued"
         /\ c \in DOMAIN rows =>
              results[c][Len(results[c])] = <<rows[c].attempts, rows[c].state>>
  BY DEF OneHistory

LEMMA JobShapes ==
  ASSUME NEW job \in Job
  PROVE  /\ job.at \in {"idle", "written", "claimed", "bound", "ready", "asking", "ending",
                        "purging"}
         /\ job.at = "written" => job \in Written
         /\ job.at \in {"claimed", "bound", "ready", "asking"} => job \in Delivery
         /\ job.at = "ending" => job \in Conclusion
         /\ job.at = "purging" => job \in Purging
  BY DEF Job, Written, Delivery, Conclusion, Purging, Idle

\* A step of the worker w, or of nobody, that leaves each row its state, its
\* number and its body, and of the bodies takes away at most those that no row
\* waits with and that are nobody's.
LEMMA StepKeeps ==
  ASSUME OutboxInv, NEW w,
         worker' \in [Workers -> Job],
         \A x \in Workers : x # w => worker'[x] = worker[x],
         w \in Workers => JobFits(w)',
         DOMAIN rows' = DOMAIN rows, rows' \in [DOMAIN rows -> Row],
         \A c \in DOMAIN rows :
           /\ RowFits(c)'
           /\ rows'[c].state = rows[c].state /\ rows'[c].attempts = rows[c].attempts
           /\ rows'[c].body = rows[c].body
           /\ \A x \in Workers : x # w /\ rows'[c].claim = x => rows[c].claim = x,
         \A c \in DOMAIN rows : rows[c].state = "queued" /\ rows[c].body \in readable =>
                                rows[c].body \in readable',
         \A x \in Workers : x # w /\ At(x, "written") /\ worker[x].body \in readable
                              /\ worker[x].c \notin withdrawn \cup DOMAIN rows =>
                            worker[x].body \in readable',
         \A body \in readable' :
           \/ /\ body \in readable
              /\ /\ w \in Workers /\ worker[w].at \in {"written", "purging"}
                 /\ worker[w].body = body
                 => worker' = worker \/ body \in leaked'
           \/ /\ w \in Workers /\ worker'[w].at \in {"written", "purging"}
              /\ worker'[w].body = body,
         UNCHANGED <<withdrawn, results, doomed, unheard>>,
         enabled' \in BOOLEAN, resting' \in BOOLEAN, revision' \in 1..MaxRevisions,
         faults' \in 0..MaxFaults, readable' \subseteq Conversions \X Workers,
         leaked \subseteq leaked', leaked' \subseteq Conversions \X Workers
  PROVE  OutboxInv'
<1>1. Typed'
  BY DEF OutboxInv, Typed
<1>2. TypeOK'
  <2>1. \A x \in Workers : worker'[x].at \in {"idle", "written", "claimed", "bound", "ready",
                                              "asking", "ending", "purging"}
    BY JobShapes
  <2> QED
    BY <2>1 DEF OutboxInv, TypeOK
<1>3. \A x \in Workers : JobFits(x)'
  <2> SUFFICES ASSUME NEW x \in Workers, x # w
               PROVE  JobFits(x)'
    OBVIOUS
  <2>1. JobFits(x) /\ worker'[x] = worker[x]
    BY DEF OutboxInv
  <2>2. WriterFits(x)'
    BY <2>1 DEF JobFits, WriterFits, At
  <2>3. PurgerFits(x)'
    BY <2>1 DEF JobFits, PurgerFits, At
  <2>4. Delivering(x)' => CopyFits(x)'
    BY <2>1 DEF JobFits, Delivering, CopyFits, At
  <2> QED
    BY <2>2, <2>3, <2>4 DEF JobFits
<1>4. OneHistory'
  BY DEF OutboxInv, OneHistory
<1>5. BodiesFollowRows'
  <2>1. ASSUME NEW c \in DOMAIN rows' \ unheard', rows'[c].state = "queued"
        PROVE  rows'[c].body \in readable'
    BY <2>1 DEF OutboxInv, BodiesFollowRows
  <2>2. ASSUME NEW body \in readable'
        PROVE  Owned(body)'
    <3>1. CASE /\ w \in Workers /\ worker'[w].at \in {"written", "purging"}
               /\ worker'[w].body = body
      BY <3>1 DEF Owned
    <3>2. CASE /\ body \in readable
               /\ /\ w \in Workers /\ worker[w].at \in {"written", "purging"}
                  /\ worker[w].body = body
                  => worker' = worker \/ body \in leaked'
      <4>1. Owned(body)
        BY <3>2 DEF OutboxInv, BodiesFollowRows
      <4>2. CASE body \in doomed \cup leaked
        BY <4>2 DEF Owned
      <4>3. CASE \E c \in DOMAIN rows : rows[c].body = body /\ rows[c].state \in Open
        BY <4>3 DEF Owned
      <4>4. CASE \E x \in Workers :
                   worker[x].at \in {"written", "purging"} /\ worker[x].body = body
        BY <3>2, <4>4 DEF Owned
      <4> QED
        BY <4>1, <4>2, <4>3, <4>4 DEF Owned
    <3> QED
      BY <2>2, <3>1, <3>2
  <2> QED
    BY <2>1, <2>2 DEF BodiesFollowRows
<1>6. Gone'
  BY DEF OutboxInv, Gone
<1> QED
  BY <1>1, <1>2, <1>3, <1>4, <1>5, <1>6 DEF OutboxInv

\* A step of a worker that touches no row and no body.
LEMMA WorkerKeeps ==
  ASSUME OutboxInv, NEW w \in Workers, NEW job \in Job, To(w, job),
         At(w, "written") \/ At(w, "purging") => worker[w].body \in leaked',
         leaked \subseteq leaked', leaked' \subseteq Conversions \X Workers,
         JobFits(w)',
         UNCHANGED <<withdrawn, enabled, revision, rows, results, bodies, unheard>>,
         resting' \in BOOLEAN, faults' \in 0..MaxFaults
  PROVE  OutboxInv'
<1>1. /\ worker' \in [Workers -> Job] /\ worker'[w] = job
      /\ \A x \in Workers : x # w => worker'[x] = worker[x]
  BY DEF OutboxInv, Typed, To
<1>2. /\ rows \in [DOMAIN rows -> Row] /\ \A c \in DOMAIN rows : RowFits(c)
      /\ enabled \in BOOLEAN /\ revision \in 1..MaxRevisions
      /\ readable \subseteq Conversions \X Workers
  BY DEF OutboxInv, Typed, TypeOK
<1>3. \A c \in DOMAIN rows : RowFits(c)'
  BY <1>2 DEF RowFits, bodies
<1> QED
  BY <1>1, <1>2, <1>3, StepKeeps DEF At, bodies

\* Discovery, and a body that no row will have.
LEMMA PrepareKeeps ==
  ASSUME OutboxInv, NEW w \in Workers, NEW c \in Conversions, Prepare(w, c)
  PROVE  OutboxInv'
<1> DEFINE job == [at |-> "written", c |-> c, body |-> <<c, w>>, revision |-> revision]
<1>1. /\ job \in Job /\ job.at = "written" /\ job.c = c /\ job.body = <<c, w>>
  BY DEF Job, Written, OutboxInv, TypeOK
<1>2. /\ worker \in [Workers -> Job] /\ rows \in [DOMAIN rows -> Row]
      /\ \A d \in DOMAIN rows : RowFits(d)
      /\ enabled \in BOOLEAN /\ revision \in 1..MaxRevisions /\ resting \in BOOLEAN
      /\ readable \subseteq Conversions \X Workers /\ leaked \subseteq Conversions \X Workers
      /\ faults \in 0..MaxFaults
  BY DEF OutboxInv, Typed, TypeOK
<1>3. /\ worker' = [worker EXCEPT ![w] = job] /\ readable' = readable \cup {<<c, w>>}
      /\ c \notin DOMAIN rows /\ worker[w].at = "idle"
      /\ UNCHANGED <<withdrawn, destination, rows, results, doomed, history, faults>>
  BY DEF Prepare, To, At
<1> HIDE DEF job
<1>4. /\ worker' \in [Workers -> Job] /\ worker'[w] = job
      /\ \A x \in Workers : x # w => worker'[x] = worker[x]
  BY <1>1, <1>2, <1>3
<1>5. JobFits(w)'
  BY <1>1, <1>3, <1>4 DEF JobFits, WriterFits, PurgerFits, Delivering, At
<1>6. \A d \in DOMAIN rows : RowFits(d)'
  BY <1>2, <1>3 DEF RowFits
<1> QED
  BY <1>1, <1>2, <1>3, <1>4, <1>5, <1>6, StepKeeps DEF destination, history

\* A worker that no longer needs a body purges it: no row waits with it.
LEMMA PurgingKeeps ==
  ASSUME OutboxInv, NEW w \in Workers, worker[w].at \in {"written", "purging"},
         To(w, Idle), readable' = readable \ {worker[w].body},
         UNCHANGED <<withdrawn, destination, rows, results, doomed, history>>,
         faults' \in 0..MaxFaults
  PROVE  OutboxInv'
<1>1. /\ worker \in [Workers -> Job] /\ rows \in [DOMAIN rows -> Row]
      /\ \A d \in DOMAIN rows : RowFits(d)
      /\ enabled \in BOOLEAN /\ revision \in 1..MaxRevisions /\ resting \in BOOLEAN
      /\ readable \subseteq Conversions \X Workers /\ leaked \subseteq Conversions \X Workers
      /\ DOMAIN rows \subseteq Conversions \ withdrawn
  BY DEF OutboxInv, Typed, TypeOK
<1>2. Idle \in Job /\ Idle.at = "idle"
  BY DEF Job, Idle
<1> HIDE DEF Idle
<1>3. /\ worker' \in [Workers -> Job] /\ worker'[w] = Idle
      /\ \A x \in Workers : x # w => worker'[x] = worker[x]
  BY <1>1, <1>2 DEF To
<1>4. JobFits(w)'
  BY <1>2, <1>3 DEF JobFits, WriterFits, PurgerFits, Delivering, At
<1>5. \A d \in DOMAIN rows : RowFits(d)'
  BY <1>1 DEF RowFits
<1>6. ASSUME NEW d \in DOMAIN rows, rows[d].state = "queued", rows[d].body \in readable
      PROVE  rows[d].body \in readable'
  <2>1. rows[d].body[1] = d
    BY <1>1 DEF RowFits
  <2>2. CASE worker[w].at = "written"
    <3>1. worker[w] \in Written /\ WriterFits(w)
      BY <1>1, <2>2, JobShapes DEF OutboxInv, JobFits
    <3>2. /\ worker[w].body = <<worker[w].c, w>>
          /\ worker[w].c \in DOMAIN rows => rows[worker[w].c].body # worker[w].body
      BY <2>2, <3>1 DEF WriterFits, At
    <3> QED
      BY <1>6, <2>1, <3>2
  <2>3. CASE worker[w].at = "purging"
    <3>1. /\ worker[w].body[1] \in withdrawn \/ (/\ worker[w].body[1] \in DOMAIN rows
                                               /\ rows[worker[w].body[1]].state \in Final)
      BY <2>3 DEF OutboxInv, JobFits, PurgerFits, At
    <3> QED
      BY <1>1, <1>6, <2>1, <3>1 DEF Final
  <2> QED
    BY <2>2, <2>3
<1>7. ASSUME NEW x \in Workers, x # w, At(x, "written"), worker[x].body \in readable,
             worker[x].c \notin withdrawn \cup DOMAIN rows
      PROVE  worker[x].body \in readable'
  <2>1. worker[x].body = <<worker[x].c, x>> /\ worker[x] \in Written
    BY <1>1, <1>7, JobShapes DEF OutboxInv, JobFits, WriterFits, At
  <2>2. CASE worker[w].at = "written"
    <3>1. worker[w].body = <<worker[w].c, w>>
      BY <2>2 DEF OutboxInv, JobFits, WriterFits, At
    <3> QED
      BY <1>7, <2>1, <3>1
  <2>3. CASE worker[w].at = "purging"
    <3>1. worker[w].body[1] \in withdrawn \cup DOMAIN rows
      BY <2>3 DEF OutboxInv, JobFits, PurgerFits, At
    <3> QED
      BY <1>7, <2>1, <3>1
  <2> QED
    BY <2>2, <2>3
<1> QED
  BY <1>1, <1>3, <1>4, <1>5, <1>6, <1>7, StepKeeps DEF destination, history

LEMMA PurgeKeeps ==
  ASSUME OutboxInv, NEW w \in Workers, Purge(w)
  PROVE  OutboxInv'
<1>1. /\ worker[w].at = "purging" /\ To(w, Idle) /\ readable' = readable \ {worker[w].body}
      /\ UNCHANGED <<withdrawn, destination, rows, results, doomed, history>>
      /\ faults' \in 0..MaxFaults
  BY DEF Purge, At, OutboxInv, TypeOK
<1> QED
  BY <1>1, PurgingKeeps

\* What is known of a delivery's copy.
LEMMA Copy ==
  ASSUME OutboxInv, NEW w \in Workers,
         worker[w].at \in {"claimed", "bound", "ready", "asking", "ending"}
  PROVE  /\ worker[w].c \in Conversions /\ worker[w].row \in Row /\ CopyFits(w)
         /\ worker[w].at # "ending" => worker[w] \in Delivery
         /\ worker[w].at = "ending" => worker[w] \in Conclusion
<1>1. worker[w] \in Job /\ JobFits(w)
  BY DEF OutboxInv, Typed
<1> QED
  BY <1>1, JobShapes DEF JobFits, Delivering, Delivery, Conclusion

\* A worker that leaves its row alone stops, goes on with its copy, or
\* concludes from it.
LEMMA StopKeeps ==
  ASSUME OutboxInv, NEW w \in Workers,
         worker[w].at \in {"claimed", "bound", "ready", "asking", "ending"},
         To(w, Idle),
         UNCHANGED <<withdrawn, enabled, revision, rows, results, bodies, history, faults>>,
         resting' \in BOOLEAN
  PROVE  OutboxInv'
<1>0. /\ worker \in [Workers -> Job]
      /\ leaked \subseteq Conversions \X Workers /\ faults \in 0..MaxFaults
  BY DEF OutboxInv, Typed, TypeOK
<1>1. Idle \in Job /\ Idle.at = "idle"
  BY DEF Job, Idle
<1> HIDE DEF Idle
<1>2. worker'[w] = Idle
  BY <1>0 DEF To
<1>3. JobFits(w)'
  BY <1>1, <1>2 DEF JobFits, WriterFits, PurgerFits, Delivering, At
<1> QED
  BY <1>0, <1>1, <1>3, WorkerKeeps DEF history, At

LEMMA GoKeeps ==
  ASSUME OutboxInv, NEW w \in Workers,
         worker[w].at \in {"claimed", "bound", "ready", "asking"},
         NEW place \in {"bound", "ready", "asking"}, Go(w, place),
         place # "bound" => worker[w].row.attempts < MaxAttempts,
         UNCHANGED <<withdrawn, enabled, revision, rows, results, bodies, history, faults>>,
         resting' \in BOOLEAN
  PROVE  OutboxInv'
<1>0. /\ worker[w] \in Delivery /\ CopyFits(w) /\ worker[w].c \in Conversions
      /\ worker[w].row \in Row /\ worker \in [Workers -> Job]
      /\ leaked \subseteq Conversions \X Workers /\ faults \in 0..MaxFaults
  BY Copy DEF OutboxInv, Typed, TypeOK
<1> DEFINE job == [worker[w] EXCEPT !.at = place]
<1>1. job \in Delivery /\ job.at = place /\ job.c = worker[w].c /\ job.row = worker[w].row
  BY <1>0 DEF Delivery
<1>2. To(w, job) /\ job \in Job
  BY <1>1 DEF Go, Job
<1> HIDE DEF job
<1>3. worker'[w] = job
  BY <1>0, <1>2 DEF To
<1>4. CopyFits(w)'
  BY <1>0, <1>1, <1>3 DEF CopyFits, At
<1>5. JobFits(w)'
  BY <1>1, <1>3, <1>4 DEF JobFits, WriterFits, PurgerFits, At
<1> QED
  BY <1>0, <1>2, <1>5, WorkerKeeps DEF history, At

LEMMA EndKeeps ==
  ASSUME OutboxInv, NEW w \in Workers,
         worker[w].at \in {"claimed", "bound", "ready", "asking"},
         NEW state \in Open \cup Final, NEW cool \in BOOLEAN, Ending(w, state, cool),
         state \in Open => worker[w].row.attempts < MaxAttempts,
         worker[w].row.state \in Polling => state # "queued",
         UNCHANGED <<withdrawn, enabled, revision, rows, results, bodies, history, faults>>,
         resting' \in BOOLEAN
  PROVE  OutboxInv'
<1>0. /\ worker[w] \in Delivery /\ CopyFits(w) /\ worker[w].c \in Conversions
      /\ worker[w].row \in Row /\ worker \in [Workers -> Job]
      /\ leaked \subseteq Conversions \X Workers /\ faults \in 0..MaxFaults
  BY Copy DEF OutboxInv, Typed, TypeOK
<1> DEFINE job == [at |-> "ending", c |-> worker[w].c, row |-> worker[w].row,
                   state |-> state, cool |-> cool]
<1>1. /\ job \in Conclusion /\ job.at = "ending" /\ job.c = worker[w].c
      /\ job.row = worker[w].row /\ job.state = state
  BY <1>0 DEF Conclusion
<1>2. To(w, job) /\ job \in Job
  BY <1>1 DEF Ending, Job
<1> HIDE DEF job
<1>3. worker'[w] = job
  BY <1>0, <1>2 DEF To
<1>4. CopyFits(w)'
  BY <1>0, <1>1, <1>3 DEF CopyFits, At
<1>5. JobFits(w)'
  BY <1>1, <1>3, <1>4 DEF JobFits, WriterFits, PurgerFits, At
<1> QED
  BY <1>0, <1>2, <1>5, WorkerKeeps DEF history, At

\* The steps of a worker that leave its row as it is.
LEMMA QuietKeeps ==
  ASSUME OutboxInv, NEW w \in Workers, Check(w) \/ Load(w) \/ Answer(w)
  PROVE  OutboxInv'
<1>1. worker[w].at \in {"claimed", "bound", "asking"}
  BY DEF Check, Load, Answer, At
<1>2. /\ CopyFits(w) /\ worker[w].row.state \in Open
  BY <1>1, Copy DEF CopyFits
<1>3. /\ "failed" \in Final /\ "expired" \in Final /\ "succeeded" \in Final
      /\ "failed" \notin Open /\ "expired" \notin Open
      /\ "http_accepted" \in Open /\ "diagnostics_processing" \in Open
      /\ FALSE \in BOOLEAN /\ TRUE \in BOOLEAN /\ "queued" \notin Polling
  BY DEF Open, Final, Polling
<1>4. /\ UNCHANGED <<withdrawn, enabled, revision, rows, results, bodies, history, faults>>
      /\ resting' \in BOOLEAN
  BY DEF Check, Load, Answer, destination, OutboxInv, TypeOK
<1>5. CASE To(w, Idle)
  BY <1>1, <1>4, <1>5, StopKeeps
<1>6. CASE Check(w)
  <2>1. CASE Go(w, "bound")
    BY <1>1, <1>4, <2>1, GoKeeps
  <2>2. CASE Ending(w, "failed", FALSE)
    BY <1>1, <1>3, <1>4, <2>2, EndKeeps
  <2> QED
    BY <1>5, <1>6, <2>1, <2>2 DEF Check
<1>7. CASE Load(w)
  <2>1. CASE Ending(w, "expired", FALSE)
    BY <1>1, <1>3, <1>4, <2>1, EndKeeps
  <2>2. CASE ~Expired(worker[w].row) /\ Go(w, "ready")
    <3>1. worker[w].row.attempts < MaxAttempts
      BY <1>2, <2>2 DEF Expired, CopyFits, Open
    <3> QED
      BY <1>1, <1>4, <2>2, <3>1, GoKeeps
  <2> QED
    BY <1>5, <1>7, <2>1, <2>2 DEF Load
<1>8. CASE Answer(w)
  <2>1. worker[w].at = "asking" /\ worker[w].row.attempts < MaxAttempts
    BY <1>2, <1>8 DEF CopyFits, Answer, At
  <2>2. CASE Ending(w, worker[w].row.state, TRUE)
    BY <1>1, <1>2, <1>3, <1>4, <2>1, <2>2, EndKeeps
  <2>3. CASE Ending(w, "failed", FALSE)
    BY <1>1, <1>3, <1>4, <2>3, EndKeeps
  <2>4. CASE Ending(w, "http_accepted", FALSE)
    BY <1>1, <1>3, <1>4, <2>1, <2>4, EndKeeps
  <2>5. ASSUME NEW next \in {"diagnostics_processing", "succeeded"}, Ending(w, next, FALSE)
        PROVE  OutboxInv'
    <3>1. next \in Open \cup Final /\ next # "queued"
      BY <1>3
    <3> QED
      BY <1>1, <1>3, <1>4, <2>1, <2>5, <3>1, EndKeeps
  <2> QED
    BY <1>8, <2>2, <2>3, <2>4, <2>5 DEF Answer
<1> QED
  BY <1>6, <1>7, <1>8

\* The start of the request, which a resting destination puts off.
LEMMA BeginKeeps ==
  ASSUME OutboxAssumption, OutboxInv, NEW w \in Workers, Begin(w)
  PROVE  OutboxInv'
<1> DEFINE c == worker[w].c
<1>1. worker[w].at = "ready" /\ CopyFits(w)
  BY Copy DEF Begin, At
<1>2. CASE /\ Current(w) /\ Bound(w) /\ resting /\ To(w, Idle)
           /\ rows' = [rows EXCEPT ![c].claim = Unclaimed, ![c].live = FALSE]
           /\ UNCHANGED resting
  <2> DEFINE row == [rows[c] EXCEPT !.claim = Unclaimed, !.live = FALSE]
  <2>1. /\ worker \in [Workers -> Job] /\ rows \in [DOMAIN rows -> Row]
        /\ \A d \in DOMAIN rows : RowFits(d)
        /\ enabled \in BOOLEAN /\ revision \in 1..MaxRevisions /\ resting \in BOOLEAN
        /\ readable \subseteq Conversions \X Workers /\ leaked \subseteq Conversions \X Workers
        /\ faults \in 0..MaxFaults
    BY DEF OutboxInv, Typed, TypeOK
  <2>2. c \in DOMAIN rows
    BY <1>2 DEF Current
  <2>3. /\ row \in Row /\ row.state = rows[c].state /\ row.attempts = rows[c].attempts
        /\ row.body = rows[c].body /\ row.late = rows[c].late /\ row.due = rows[c].due
        /\ row.claim = Unclaimed
    <3>1. rows[c] \in Row
      BY <2>1, <2>2
    <3>2. /\ rows[c].state \in Open \cup Final /\ rows[c].attempts \in 0..(MaxAttempts + 1)
          /\ rows[c].revision \in 1..MaxRevisions /\ rows[c].body \in Conversions \X Workers
          /\ rows[c].due \in BOOLEAN /\ rows[c].late \in BOOLEAN
          /\ Unclaimed \in Workers \cup {Unclaimed} /\ FALSE \in BOOLEAN
      BY <3>1 DEF Row
    <3>3. row.state = rows[c].state /\ row.attempts = rows[c].attempts
          /\ row.body = rows[c].body /\ row.late = rows[c].late /\ row.due = rows[c].due
          /\ row.claim = Unclaimed
      BY <3>1 DEF Row
    <3>4. row \in Row
      BY <3>1, <3>2 DEF Row
    <3> QED
      BY <3>3, <3>4
  <2>4. rows' = [rows EXCEPT ![c] = row]
    BY <1>2, <2>1, <2>2
  <2> HIDE DEF row, c
  <2>5. /\ DOMAIN rows' = DOMAIN rows /\ rows' \in [DOMAIN rows -> Row]
        /\ \A d \in DOMAIN rows : rows'[d] = IF d = c THEN row ELSE rows[d]
    BY <2>1, <2>3, <2>4
  <2>6. Idle \in Job /\ Idle.at = "idle"
    BY DEF Job, Idle
  <2> HIDE DEF Idle
  <2>7. /\ worker' \in [Workers -> Job] /\ worker'[w] = Idle
        /\ \A x \in Workers : x # w => worker'[x] = worker[x]
    BY <1>2, <2>1, <2>6 DEF To
  <2>8. JobFits(w)'
    BY <2>6, <2>7 DEF JobFits, WriterFits, PurgerFits, Delivering, At
  <2>9. \A d \in DOMAIN rows : RowFits(d)'
    BY <2>1, <2>3, <2>5 DEF RowFits
  <2>10. ASSUME NEW d \in DOMAIN rows
         PROVE  /\ rows'[d].state = rows[d].state /\ rows'[d].attempts = rows[d].attempts
                /\ rows'[d].body = rows[d].body
                /\ \A x \in Workers : x # w /\ rows'[d].claim = x => rows[d].claim = x
    BY <2>3, <2>5 DEF OutboxAssumption
  <2>11. UNCHANGED <<withdrawn, enabled, revision, resting, results, readable, doomed, unheard,
                     leaked, faults>>
    BY <1>2 DEF Begin, bodies, history
  <2> QED
    BY <1>1, <2>1, <2>5, <2>7, <2>8, <2>9, <2>10, <2>11, StepKeeps
<1>3. CASE ~(/\ Current(w) /\ Bound(w) /\ resting /\ To(w, Idle)
             /\ rows' = [rows EXCEPT ![c].claim = Unclaimed, ![c].live = FALSE]
             /\ UNCHANGED resting)
  <2>1. /\ UNCHANGED <<withdrawn, enabled, revision, rows, results, bodies, history, faults>>
        /\ resting' \in BOOLEAN
    BY <1>3 DEF Begin, OutboxInv, TypeOK
  <2>2. worker[w].row.attempts < MaxAttempts
    BY <1>1 DEF CopyFits
  <2>3. "failed" \in Final /\ "failed" \notin Open /\ FALSE \in BOOLEAN
    BY DEF Final, Open, Polling
  <2>4. CASE To(w, Idle)
    BY <1>1, <2>1, <2>4, StopKeeps
  <2>5. CASE Go(w, "asking")
    BY <1>1, <2>1, <2>2, <2>5, GoKeeps
  <2>6. CASE Ending(w, "failed", FALSE)
    <3>1. "failed" # "queued"
      OBVIOUS
    <3> QED
      BY <1>1, <2>1, <2>3, <2>6, <3>1, EndKeeps
  <2> QED
    BY <1>3, <2>4, <2>5, <2>6 DEF Begin
<1> QED
  BY <1>2, <1>3

\* A claim takes the row as it is.
LEMMA ClaimKeeps ==
  ASSUME OutboxAssumption, OutboxInv, NEW w \in Workers, NEW c \in Conversions, Claim(w, c)
  PROVE  OutboxInv'
<1> DEFINE row == [rows[c] EXCEPT !.claim = w, !.live = TRUE]
           job == [at |-> "claimed", c |-> c, row |-> row]
<1>1. /\ worker \in [Workers -> Job] /\ rows \in [DOMAIN rows -> Row]
      /\ \A d \in DOMAIN rows : RowFits(d)
      /\ enabled \in BOOLEAN /\ revision \in 1..MaxRevisions /\ resting \in BOOLEAN
      /\ readable \subseteq Conversions \X Workers /\ leaked \subseteq Conversions \X Workers
      /\ faults \in 0..MaxFaults
  BY DEF OutboxInv, Typed, TypeOK
<1>2. /\ c \in DOMAIN rows /\ worker[w].at = "idle" /\ rows[c].state \in Open /\ rows[c].due
      /\ rows' = [rows EXCEPT ![c] = row] /\ worker' = [worker EXCEPT ![w] = job]
      /\ UNCHANGED <<withdrawn, destination, results, bodies, history, faults>>
  BY DEF Claim, To, At
<1>3. /\ row \in Row /\ row.state = rows[c].state /\ row.attempts = rows[c].attempts
      /\ row.body = rows[c].body /\ row.late = rows[c].late /\ row.due = rows[c].due
      /\ row.claim = w
  BY <1>1, <1>2 DEF Row
<1> HIDE DEF row
<1>4. job \in Job /\ job.at = "claimed" /\ job.c = c /\ job.row = row
  BY <1>3 DEF Job, Delivery
<1> HIDE DEF job
<1>5. /\ DOMAIN rows' = DOMAIN rows /\ rows' \in [DOMAIN rows -> Row]
      /\ \A d \in DOMAIN rows : rows'[d] = IF d = c THEN row ELSE rows[d]
  BY <1>1, <1>2, <1>3
<1>6. /\ worker' \in [Workers -> Job] /\ worker'[w] = job
      /\ \A x \in Workers : x # w => worker'[x] = worker[x]
  BY <1>1, <1>2, <1>4
<1>7. \A d \in DOMAIN rows : RowFits(d)'
  BY <1>1, <1>3, <1>5 DEF RowFits
<1>8. CopyFits(w)'
  <2>1. RowFits(c) /\ MaxAttempts \in Nat /\ row.attempts \in Nat
    BY <1>1, <1>2, <1>3 DEF OutboxAssumption, Row
  <2>2. row.attempts < MaxAttempts \/ (row.late /\ row.attempts = MaxAttempts)
    BY <1>2, <1>3, <2>1 DEF RowFits
  <2> QED
    BY <1>2, <1>3, <1>4, <1>5, <1>6, <2>1, <2>2 DEF CopyFits, RowFits, At
<1>9. JobFits(w)'
  BY <1>4, <1>6, <1>8 DEF JobFits, WriterFits, PurgerFits, At
<1>10. ASSUME NEW d \in DOMAIN rows
       PROVE  /\ rows'[d].state = rows[d].state /\ rows'[d].attempts = rows[d].attempts
              /\ rows'[d].body = rows[d].body
              /\ \A x \in Workers : x # w /\ rows'[d].claim = x => rows[d].claim = x
  BY <1>3, <1>5
<1> QED
  BY <1>1, <1>2, <1>5, <1>6, <1>7, <1>9, <1>10, StepKeeps DEF destination, bodies, history

\* Time passes over the rows.
LEMMA TimeKeeps ==
  ASSUME OutboxAssumption, OutboxInv, NEW c \in Conversions, Lapse(c) \/ Due(c) \/ Late(c)
  PROVE  OutboxInv'
<1>1. /\ worker \in [Workers -> Job] /\ rows \in [DOMAIN rows -> Row]
      /\ \A d \in DOMAIN rows : RowFits(d)
      /\ enabled \in BOOLEAN /\ revision \in 1..MaxRevisions /\ resting \in BOOLEAN
      /\ readable \subseteq Conversions \X Workers /\ leaked \subseteq Conversions \X Workers
      /\ faults \in 0..MaxFaults
  BY DEF OutboxInv, Typed, TypeOK
<1>2. /\ c \in DOMAIN rows
      /\ UNCHANGED <<withdrawn, destination, results, bodies, worker, history>>
  BY DEF Lapse, Due, Late
<1>3. faults' \in 0..MaxFaults
  <2>1. faults \in Nat /\ MaxFaults \in Nat
    BY <1>1 DEF OutboxAssumption
  <2> QED
    BY <1>1, <2>1 DEF Lapse, Due, Late, Faulting
<1>4. PICK row \in Row :
        /\ rows' = [rows EXCEPT ![c] = row]
        /\ row.state = rows[c].state /\ row.attempts = rows[c].attempts
        /\ row.body = rows[c].body /\ row.claim = rows[c].claim
        /\ row.late => row.state # "queued"
        /\ row.state \in Open /\ row.due => row.attempts < MaxAttempts \/ row.late
  <2>1. rows[c] \in Row /\ RowFits(c) /\ "queued" \notin Polling
    BY <1>1, <1>2 DEF Polling
  <2>2. CASE Lapse(c)
    <3> DEFINE row == [rows[c] EXCEPT !.live = FALSE]
    <3>1. /\ row \in Row /\ row.state = rows[c].state /\ row.attempts = rows[c].attempts
          /\ row.body = rows[c].body /\ row.claim = rows[c].claim
          /\ row.late = rows[c].late /\ row.due = rows[c].due
      BY <2>1 DEF Row
    <3>2. rows' = [rows EXCEPT ![c] = row]
      BY <1>1, <2>2 DEF Lapse
    <3> QED
      BY <2>1, <3>1, <3>2 DEF RowFits
  <2>3. CASE Due(c)
    <3> DEFINE row == [rows[c] EXCEPT !.due = TRUE]
    <3>1. /\ row \in Row /\ row.state = rows[c].state /\ row.attempts = rows[c].attempts
          /\ row.body = rows[c].body /\ row.claim = rows[c].claim /\ row.late = rows[c].late
      BY <2>1 DEF Row
    <3>2. rows' = [rows EXCEPT ![c] = row]
      BY <1>1, <2>3 DEF Due
    <3>3. rows[c].attempts < MaxAttempts \/ rows[c].late
      BY <2>3 DEF Due
    <3> QED
      BY <2>1, <3>1, <3>2, <3>3 DEF RowFits
  <2>4. CASE Late(c)
    <3> DEFINE row == [rows[c] EXCEPT !.late = TRUE]
    <3>1. /\ row \in Row /\ row.state = rows[c].state /\ row.attempts = rows[c].attempts
          /\ row.body = rows[c].body /\ row.claim = rows[c].claim /\ row.late = TRUE
      BY <2>1 DEF Row
    <3>2. rows' = [rows EXCEPT ![c] = row]
      BY <1>1, <2>4 DEF Late
    <3>3. rows[c].state \in Polling
      BY <2>4 DEF Late
    <3> QED
      BY <2>1, <3>1, <3>2, <3>3 DEF RowFits
  <2> QED
    BY <2>2, <2>3, <2>4
<1>5. /\ DOMAIN rows' = DOMAIN rows /\ rows' \in [DOMAIN rows -> Row]
      /\ \A d \in DOMAIN rows : rows'[d] = IF d = c THEN row ELSE rows[d]
  BY <1>1, <1>2, <1>4
<1>6. \A d \in DOMAIN rows : RowFits(d)'
  BY <1>1, <1>2, <1>4, <1>5 DEF RowFits
<1>7. ASSUME NEW d \in DOMAIN rows
      PROVE  /\ rows'[d].state = rows[d].state /\ rows'[d].attempts = rows[d].attempts
             /\ rows'[d].body = rows[d].body /\ rows'[d].claim = rows[d].claim
  BY <1>4, <1>5
<1> QED
  BY <1>1, <1>2, <1>3, <1>5, <1>6, <1>7, StepKeeps
     DEF destination, bodies, history, OutboxAssumption

\* A row begins with its body and its first result.
LEMMA RowBegins ==
  ASSUME OutboxAssumption, OutboxInv, NEW w \in Workers, NEW heard \in BOOLEAN,
         Record(w, heard), Records(w), NEW c, c = worker[w].c
  PROVE  OutboxInv'
<1> DEFINE row == [state |-> "queued", attempts |-> 0, revision |-> worker[w].revision,
                   body |-> worker[w].body, claim |-> Unclaimed, live |-> FALSE,
                   due |-> TRUE, late |-> FALSE]
<1>1. /\ worker \in [Workers -> Job] /\ rows \in [DOMAIN rows -> Row]
      /\ \A d \in DOMAIN rows : RowFits(d)
      /\ \A x \in Workers : JobFits(x)
      /\ results \in [Conversions -> Seq(Nat \X (Open \cup Final))]
      /\ DOMAIN rows \subseteq Conversions \ withdrawn /\ withdrawn \subseteq Conversions
      /\ enabled \in BOOLEAN /\ revision \in 1..MaxRevisions /\ resting \in BOOLEAN
      /\ readable \subseteq Conversions \X Workers /\ doomed \subseteq Conversions \X Workers
      /\ leaked \subseteq Conversions \X Workers /\ unheard \subseteq Conversions
  BY DEF OutboxInv, Typed, TypeOK
<1>2. /\ worker[w] \in Written /\ At(w, "written")
      /\ worker[w].body = <<c, w>> /\ c \notin DOMAIN rows /\ c \notin withdrawn
      /\ <<c, w>> \in readable
  <2>1. At(w, "written") /\ c \notin DOMAIN rows /\ c \notin withdrawn
    BY DEF Record, Records, Eligible
  <2> QED
    BY <1>1, <2>1, JobShapes DEF JobFits, WriterFits, At
<1>3. /\ c \in Conversions /\ row \in Row /\ row.state = "queued" /\ row.attempts = 0
      /\ row.body = <<c, w>> /\ row.claim = Unclaimed /\ row.due /\ ~row.late
  BY <1>2 DEF Row, Written, Open, OutboxAssumption
<1>4. /\ rows' = With(rows, c, row)
      /\ results' = [results EXCEPT ![c] = Append(@, <<0, "queued">>)]
      /\ To(w, Idle) /\ readable' \subseteq readable
      /\ readable \ {<<c, w>>} \subseteq readable'
      /\ (unheard' = unheard /\ readable' = readable) \/ unheard' = unheard \cup {c}
      /\ UNCHANGED <<withdrawn, enabled, revision, resting, doomed, leaked>>
  BY <1>2 DEF Record, Append1, destination
<1>5. faults' \in 0..MaxFaults
  <2>1. faults \in 0..MaxFaults /\ MaxFaults \in Nat
    BY DEF OutboxInv, TypeOK, OutboxAssumption
  <2> QED
    BY <2>1 DEF Record, Faulting
<1> HIDE DEF row
<1>6. /\ DOMAIN rows' = DOMAIN rows \cup {c} /\ rows' \in [DOMAIN rows' -> Row]
      /\ rows'[c] = row /\ \A d \in DOMAIN rows : rows'[d] = rows[d]
  BY <1>1, <1>2, <1>3, <1>4 DEF With
<1>7. Idle \in Job /\ Idle.at = "idle"
  BY DEF Job, Idle
<1> HIDE DEF Idle
<1>8. /\ worker' \in [Workers -> Job] /\ worker'[w] = Idle
      /\ \A x \in Workers : x # w => worker'[x] = worker[x]
  BY <1>1, <1>4, <1>7 DEF To
<1>9. /\ results' \in [Conversions -> Seq(Nat \X (Open \cup Final))]
      /\ results'[c] = <<<<0, "queued">>>>
      /\ \A d \in Conversions : d # c => results'[d] = results[d]
  <2>1. results[c] = <<>>
    BY <1>1, <1>2, <1>3 DEF OutboxInv, Gone
  <2>2. <<0, "queued">> \in Nat \X (Open \cup Final)
    BY DEF Open
  <2>3. Append(results[c], <<0, "queued">>) = <<<<0, "queued">>>>
    BY <2>1
  <2>4. <<<<0, "queued">>>> \in Seq(Nat \X (Open \cup Final))
    BY <2>2
  <2> QED
    BY <1>1, <1>3, <1>4, <2>3, <2>4
<1>10. Typed'
  BY <1>6, <1>8, <1>9 DEF Typed
<1>11. TypeOK'
  <2>1. \A x \in Workers : worker'[x].at \in {"idle", "written", "claimed", "bound", "ready",
                                              "asking", "ending", "purging"}
    BY <1>8, JobShapes
  <2> QED
    BY <1>1, <1>2, <1>3, <1>4, <1>5, <1>6, <1>9, <2>1 DEF TypeOK
<1>12. \A d \in DOMAIN rows' : RowFits(d)'
  <2>1. RowFits(c)'
    BY <1>3, <1>6 DEF RowFits, OutboxAssumption
  <2>2. ASSUME NEW d \in DOMAIN rows
        PROVE  RowFits(d)'
    BY <1>1, <1>6 DEF RowFits
  <2> QED
    BY <1>6, <2>1, <2>2
<1>13. \A x \in Workers : JobFits(x)'
  <2>1. JobFits(w)'
    BY <1>7, <1>8 DEF JobFits, WriterFits, PurgerFits, Delivering, At
  <2>2. ASSUME NEW x \in Workers, x # w
        PROVE  JobFits(x)'
    <3>1. JobFits(x) /\ worker'[x] = worker[x]
      BY <1>1, <1>8, <2>2
    <3>2. WriterFits(x)'
      <4> SUFFICES ASSUME At(x, "written")
                   PROVE  WriterFits(x)'
        BY <3>1 DEF WriterFits, At
      <4>1. /\ worker[x].body = <<worker[x].c, x>>
            /\ worker[x].c \in DOMAIN rows => rows[worker[x].c].body # worker[x].body
            /\ worker[x].c \notin withdrawn \cup DOMAIN rows => worker[x].body \in readable
        BY <3>1 DEF JobFits, WriterFits
      <4>2. worker[x].c \in DOMAIN rows' => rows'[worker[x].c].body # worker[x].body
        BY <1>3, <1>6, <2>2, <4>1
      <4>3. worker[x].c \notin withdrawn \cup DOMAIN rows' => worker[x].body \in readable'
        BY <1>4, <1>6, <2>2, <4>1
      <4> QED
        BY <1>4, <3>1, <4>1, <4>2, <4>3 DEF WriterFits
    <3>3. PurgerFits(x)'
      BY <1>2, <1>4, <1>6, <3>1 DEF JobFits, PurgerFits, At
    <3>4. Delivering(x)' => CopyFits(x)'
      BY <1>3, <1>6, <3>1 DEF JobFits, Delivering, CopyFits, At, OutboxAssumption
    <3> QED
      BY <3>2, <3>3, <3>4 DEF JobFits
  <2> QED
    BY <2>1, <2>2
<1>14. Gone'
  <2>1. results'[c] # <<>>
    BY <1>9
  <2>2. \A d \in DOMAIN rows' : results'[d] # <<>>
    BY <1>1, <1>6, <1>9, <2>1 DEF OutboxInv, Gone
  <2>3. \A d \in Conversions \ withdrawn' : d \notin DOMAIN rows' => results'[d] = <<>>
    BY <1>4, <1>6, <1>9 DEF OutboxInv, Gone
  <2>4. \A body \in doomed' : body[1] \in withdrawn'
    BY <1>4 DEF OutboxInv, Gone
  <2> QED
    BY <2>2, <2>3, <2>4 DEF Gone
<1>15. OneHistory'
  <2> SUFFICES ASSUME NEW d \in Conversions
               PROVE  /\ \A i \in DOMAIN results'[d] : results'[d][i][1] = i - 1
                      /\ \A i, j \in DOMAIN results'[d] : i < j =>
                           /\ results'[d][i][2] \notin Final
                           /\ results'[d][i][2] \in Polling => results'[d][j][2] # "queued"
                      /\ d \in DOMAIN rows' =>
                           results'[d][Len(results'[d])] = <<rows'[d].attempts, rows'[d].state>>
    BY DEF OneHistory
  <2>1. CASE d = c
    <3>1. /\ DOMAIN results'[c] = {1} /\ Len(results'[c]) = 1
          /\ results'[c][1] = <<0, "queued">> /\ "queued" \notin Final
      BY <1>9 DEF Final
    <3>2. \A i \in DOMAIN results'[d] : i = 1 /\ results'[d][i][1] = i - 1
      BY <2>1, <3>1
    <3>3. \A i, j \in DOMAIN results'[d] : ~(i < j)
      BY <3>2
    <3>4. results'[d][Len(results'[d])] = <<rows'[d].attempts, rows'[d].state>>
      BY <1>3, <1>6, <2>1, <3>1
    <3> QED
      BY <3>2, <3>3, <3>4
  <2>2. CASE d # c
    <3>1. /\ \A i \in DOMAIN results[d] : results[d][i][1] = i - 1
          /\ \A i, j \in DOMAIN results[d] : i < j =>
               /\ results[d][i][2] \notin Final
               /\ results[d][i][2] \in Polling => results[d][j][2] # "queued"
          /\ d \in DOMAIN rows =>
               results[d][Len(results[d])] = <<rows[d].attempts, rows[d].state>>
      BY HistoryOf DEF OutboxInv
    <3>2. /\ results'[d] = results[d]
          /\ d \in DOMAIN rows' => d \in DOMAIN rows /\ rows'[d] = rows[d]
      BY <1>6, <1>9, <2>2
    <3> QED
      BY <3>1, <3>2
  <2> QED
    BY <2>1, <2>2
<1>16. BodiesFollowRows'
  <2>1. ASSUME NEW d \in DOMAIN rows' \ unheard', rows'[d].state = "queued"
        PROVE  rows'[d].body \in readable'
    <3>1. CASE d = c
      BY <1>2, <1>3, <1>4, <1>6, <2>1, <3>1
    <3>2. CASE d # c
      <4>1. rows'[d] = rows[d] /\ d \in DOMAIN rows \ unheard /\ RowFits(d)
        BY <1>1, <1>4, <1>6, <2>1, <3>2
      <4>2. rows[d].body \in readable /\ rows[d].body # <<c, w>>
        BY <2>1, <3>2, <4>1 DEF OutboxInv, BodiesFollowRows, RowFits
      <4> QED
        BY <1>4, <4>1, <4>2
    <3> QED
      BY <3>1, <3>2
  <2>2. ASSUME NEW body \in readable'
        PROVE  Owned(body)'
    <3>1. Owned(body) /\ body \in readable
      BY <1>4, <2>2 DEF OutboxInv, BodiesFollowRows
    <3>2. CASE body = <<c, w>>
      BY <1>3, <1>6, <3>2 DEF Owned, Open
    <3>3. CASE body # <<c, w>>
      BY <1>2, <1>4, <1>6, <1>8, <3>1, <3>3 DEF Owned, At
    <3> QED
      BY <3>2, <3>3
  <2> QED
    BY <2>1, <2>2 DEF BodiesFollowRows
<1> QED
  BY <1>10, <1>11, <1>12, <1>13, <1>14, <1>15, <1>16 DEF OutboxInv

LEMMA RecordKeeps ==
  ASSUME OutboxAssumption, OutboxInv, NEW w \in Workers, NEW heard \in BOOLEAN,
         Record(w, heard)
  PROVE  OutboxInv'
<1>1. CASE ~Records(w)
  <2>1. /\ worker[w].at = "written" /\ To(w, Idle) /\ readable' = readable \ {worker[w].body}
        /\ UNCHANGED <<withdrawn, destination, rows, results, doomed, history>>
    BY <1>1 DEF Record, At, history
  <2>2. faults' \in 0..MaxFaults
    <3>1. faults \in 0..MaxFaults /\ MaxFaults \in Nat
      BY DEF OutboxInv, TypeOK, OutboxAssumption
    <3> QED
      BY <3>1 DEF Record, Faulting
  <2> QED
    BY <2>1, <2>2, PurgingKeeps
<1> QED
  BY <1>1, RowBegins

\* A result ends the attempt, and the row goes where it says.
LEMMA ResultKeeps ==
  ASSUME OutboxAssumption, OutboxInv, NEW w \in Workers, Finalize(w), Current(w),
         NEW c, c = worker[w].c
  PROVE  OutboxInv'
<1> DEFINE job == worker[w]
           row == [rows[c] EXCEPT !.state = job.state, !.attempts = @ + 1,
                     !.claim = Unclaimed, !.live = FALSE, !.due = FALSE]
           result == <<job.row.attempts + 1, job.state>>
           next == IF job.state \in Final THEN [at |-> "purging", body |-> job.row.body]
                   ELSE Idle
<1>1. /\ worker \in [Workers -> Job] /\ rows \in [DOMAIN rows -> Row]
      /\ \A d \in DOMAIN rows : RowFits(d)
      /\ \A x \in Workers : JobFits(x)
      /\ results \in [Conversions -> Seq(Nat \X (Open \cup Final))]
      /\ DOMAIN rows \subseteq Conversions \ withdrawn /\ withdrawn \subseteq Conversions
      /\ enabled \in BOOLEAN /\ revision \in 1..MaxRevisions /\ resting \in BOOLEAN
      /\ readable \subseteq Conversions \X Workers /\ doomed \subseteq Conversions \X Workers
      /\ leaked \subseteq Conversions \X Workers /\ unheard \subseteq Conversions
      /\ faults \in 0..MaxFaults /\ MaxAttempts \in Nat \ {0}
  BY DEF OutboxInv, Typed, TypeOK, OutboxAssumption
<1>2. /\ job \in Conclusion /\ job.at = "ending" /\ CopyFits(w) /\ RowFits(c)
      /\ c \in DOMAIN rows /\ rows[c].claim = w /\ rows[c] \in Row
      /\ job.state \in Open \cup Final /\ rows[c].attempts \in Nat
      /\ rows[c].attempts = job.row.attempts /\ rows[c].state = job.row.state
      /\ rows[c].body = job.row.body /\ rows[c].state \in Open
  <2>1. worker[w].at = "ending" /\ c \in DOMAIN rows /\ rows[c].claim = w
    BY DEF Finalize, At, Current
  <2> QED
    BY <1>1, <2>1, Copy DEF CopyFits, Conclusion, Row
<1>3. /\ rows[c].attempts <= MaxAttempts
      /\ job.state \in Open => rows[c].attempts < MaxAttempts
      /\ rows[c].late => job.state # "queued"
      /\ rows[c].state \in Polling => job.state # "queued"
      /\ rows[c].body[1] = c
  BY <1>1, <1>2 DEF CopyFits, RowFits, At, Open
<1>4. /\ rows' = [rows EXCEPT ![c] = row]
      /\ results' = [results EXCEPT ![c] = Append(@, result)]
      /\ To(w, next) /\ resting' = (resting \/ job.cool)
      /\ UNCHANGED <<withdrawn, enabled, revision, readable, doomed, unheard, leaked, faults>>
  BY <1>1, <1>2 DEF Finalize, Append1, bodies, history
<1>5. /\ row \in Row /\ row.state = job.state /\ row.attempts = rows[c].attempts + 1
      /\ row.body = rows[c].body /\ row.late = rows[c].late
      /\ row.claim = Unclaimed /\ ~row.due
  <2>1. rows[c].attempts + 1 \in 0..(MaxAttempts + 1)
    BY <1>1, <1>2, <1>3
  <2>2. Unclaimed \in Workers \cup {Unclaimed} /\ FALSE \in BOOLEAN
    OBVIOUS
  <2> QED
    BY <1>2, <2>1, <2>2 DEF Row
<1>6. /\ result \in Nat \X (Open \cup Final)
      /\ result[1] = rows[c].attempts + 1 /\ result[2] = job.state
      /\ result = <<row.attempts, row.state>>
  BY <1>1, <1>2, <1>5
<1> HIDE DEF row, result
<1>7. /\ next \in Job
      /\ job.state \in Final => /\ next.at = "purging" /\ next.body = rows[c].body
      /\ job.state \notin Final => next.at = "idle"
      /\ next.at \in {"idle", "purging"}
  BY <1>1, <1>2, <1>5 DEF Job, Purging, Idle, Row
<1> HIDE DEF next
<1>8. /\ DOMAIN rows' = DOMAIN rows /\ rows' \in [DOMAIN rows -> Row]
      /\ rows'[c] = row /\ \A d \in DOMAIN rows : d # c => rows'[d] = rows[d]
  BY <1>1, <1>2, <1>4, <1>5
<1>9. /\ worker' \in [Workers -> Job] /\ worker'[w] = next
      /\ \A x \in Workers : x # w => worker'[x] = worker[x]
  BY <1>1, <1>4, <1>7 DEF To
<1>10. /\ c \in Conversions /\ results[c] \in Seq(Nat \X (Open \cup Final))
       /\ results'[c] = Append(results[c], result)
       /\ \A d \in Conversions : d # c => results'[d] = results[d]
       /\ results' \in [Conversions -> Seq(Nat \X (Open \cup Final))]
  BY <1>1, <1>2, <1>4, <1>6
<1>11. Typed'
  BY <1>8, <1>9, <1>10 DEF Typed
<1>12. TypeOK'
  <2>1. \A x \in Workers : worker'[x].at \in {"idle", "written", "claimed", "bound", "ready",
                                              "asking", "ending", "purging"}
    BY <1>9, JobShapes
  <2>2. resting' \in BOOLEAN
    BY <1>1, <1>2, <1>4 DEF Conclusion
  <2> QED
    BY <1>1, <1>4, <1>8, <1>10, <2>1, <2>2 DEF TypeOK
<1>13. \A d \in DOMAIN rows' : RowFits(d)'
  <2>1. rows'[c].state \in Open => rows'[c].attempts <= MaxAttempts
    BY <1>1, <1>2, <1>3, <1>5, <1>8
  <2>2. RowFits(c)'
    BY <1>3, <1>5, <1>8, <2>1 DEF RowFits
  <2>3. ASSUME NEW d \in DOMAIN rows, d # c
        PROVE  RowFits(d)'
    BY <1>1, <1>8, <2>3 DEF RowFits
  <2> QED
    BY <1>8, <2>2, <2>3
<1>14. \A x \in Workers : JobFits(x)'
  <2>1. JobFits(w)'
    <3>1. PurgerFits(w)'
      BY <1>2, <1>3, <1>5, <1>7, <1>8, <1>9 DEF PurgerFits, At
    <3> QED
      BY <1>7, <1>9, <3>1 DEF JobFits, WriterFits, Delivering, At
  <2>2. ASSUME NEW x \in Workers, x # w
        PROVE  JobFits(x)'
    <3>1. JobFits(x) /\ worker'[x] = worker[x]
      BY <1>1, <1>9, <2>2
    <3>2. WriterFits(x)'
      BY <1>2, <1>4, <1>5, <1>8, <3>1 DEF JobFits, WriterFits, At
    <3>3. PurgerFits(x)'
      <4>1. Open \cap Final = {}
        BY DEF Open, Polling, Final
      <4> QED
        BY <1>2, <1>4, <1>8, <3>1, <4>1 DEF JobFits, PurgerFits, At
    <3>4. Delivering(x)' => CopyFits(x)'
      BY <1>5, <1>8, <3>1 DEF JobFits, Delivering, CopyFits, At, OutboxAssumption
    <3> QED
      BY <3>2, <3>3, <3>4 DEF JobFits
  <2> QED
    BY <2>1, <2>2
<1>0.  /\ \A i \in DOMAIN results[c] : results[c][i][1] = i - 1
       /\ \A i, j \in DOMAIN results[c] : i < j =>
            /\ results[c][i][2] \notin Final
            /\ results[c][i][2] \in Polling => results[c][j][2] # "queued"
       /\ results[c][Len(results[c])] = <<rows[c].attempts, rows[c].state>>
  BY <1>2, <1>10, HistoryOf DEF OutboxInv
<1>15. Len(results[c]) \in Nat /\ Len(results[c]) = rows[c].attempts + 1
       /\ results[c][Len(results[c])] = <<rows[c].attempts, rows[c].state>>
       /\ DOMAIN results[c] = 1..Len(results[c])
  <2>1. results[c] # <<>> /\ results[c][Len(results[c])] = <<rows[c].attempts, rows[c].state>>
    <3>1. results[c] # <<>>
      BY <1>2 DEF OutboxInv, Gone
    <3> QED
      BY <1>0, <3>1
  <2>2. Len(results[c]) \in Nat \ {0} /\ DOMAIN results[c] = 1..Len(results[c])
    BY <1>10, <2>1
  <2>3. results[c][Len(results[c])][1] = Len(results[c]) - 1
    <3>1. Len(results[c]) \in DOMAIN results[c]
      BY <2>2
    <3> QED
      BY <1>0, <3>1
  <2> QED
    BY <1>2, <2>1, <2>2, <2>3
<1>16. /\ results'[c] # <<>>
       /\ \A i \in DOMAIN results'[c] : results'[c][i][1] = i - 1
       /\ \A i, j \in DOMAIN results'[c] : i < j =>
            /\ results'[c][i][2] \notin Final
            /\ results'[c][i][2] \in Polling => results'[c][j][2] # "queued"
       /\ results'[c][Len(results'[c])] = <<rows'[c].attempts, rows'[c].state>>
  <2>1. PICK h : h = results[c]
    OBVIOUS
  <2>2. PICK g : g = results'[c]
    OBVIOUS
  <2>3. /\ h \in Seq(Nat \X (Open \cup Final)) /\ g = Append(h, result) /\ h # <<>>
    BY <1>2, <1>10, <2>1, <2>2 DEF OutboxInv, Gone
  <2>4. InOrder(h)
    BY <1>0, <2>1 DEF InOrder
  <2>5. result[1] = Len(h)
    BY <1>6, <1>15, <2>1
  <2>6. h[Len(h)][2] = rows[c].state
    BY <1>15, <2>1
  <2>7. h[Len(h)][2] \in Open /\ (h[Len(h)][2] \in Polling => result[2] # "queued")
    BY <1>2, <1>3, <1>6, <2>6
  <2>8. PICK e : e = result
    OBVIOUS
  <2>9. /\ h \in Seq(Nat \X (Open \cup Final)) /\ h # <<>> /\ g = Append(h, e)
        /\ e \in Nat \X (Open \cup Final) /\ e[1] = Len(h) /\ h[Len(h)][2] \in Open
        /\ h[Len(h)][2] \in Polling => e[2] # "queued"
    BY <1>6, <2>3, <2>5, <2>7, <2>8
  <2>10. g # <<>> /\ g[Len(g)] = e /\ InOrder(g)
    BY <2>4, <2>9, HistoryGrows
  <2>11. result = <<rows'[c].attempts, rows'[c].state>>
    BY <1>6, <1>8
  <2> QED
    BY <2>2, <2>8, <2>10, <2>11 DEF InOrder
<1>17. Gone'
  <2>1. results'[c] # <<>>
    BY <1>16
  <2>2. \A d \in DOMAIN rows' : results'[d] # <<>>
    BY <1>1, <1>8, <1>10, <2>1 DEF OutboxInv, Gone
  <2>3. \A d \in Conversions \ withdrawn' : d \notin DOMAIN rows' => results'[d] = <<>>
    BY <1>2, <1>4, <1>8, <1>10 DEF OutboxInv, Gone
  <2>4. \A body \in doomed' : body[1] \in withdrawn'
    BY <1>4 DEF OutboxInv, Gone
  <2> QED
    BY <2>2, <2>3, <2>4 DEF Gone
<1>18. OneHistory'
  <2> SUFFICES ASSUME NEW d \in Conversions
               PROVE  /\ \A i \in DOMAIN results'[d] : results'[d][i][1] = i - 1
                      /\ \A i, j \in DOMAIN results'[d] : i < j =>
                           /\ results'[d][i][2] \notin Final
                           /\ results'[d][i][2] \in Polling => results'[d][j][2] # "queued"
                      /\ d \in DOMAIN rows' =>
                           results'[d][Len(results'[d])] = <<rows'[d].attempts, rows'[d].state>>
    BY DEF OneHistory
  <2>1. CASE d = c
    BY <1>16, <2>1
  <2>2. CASE d # c
    <3>1. /\ \A i \in DOMAIN results[d] : results[d][i][1] = i - 1
          /\ \A i, j \in DOMAIN results[d] : i < j =>
               /\ results[d][i][2] \notin Final
               /\ results[d][i][2] \in Polling => results[d][j][2] # "queued"
          /\ d \in DOMAIN rows =>
               results[d][Len(results[d])] = <<rows[d].attempts, rows[d].state>>
      BY HistoryOf DEF OutboxInv
    <3>2. /\ results'[d] = results[d]
          /\ d \in DOMAIN rows' => d \in DOMAIN rows /\ rows'[d] = rows[d]
      BY <1>8, <1>10, <2>2
    <3> QED
      BY <3>1, <3>2
  <2> QED
    BY <2>1, <2>2
<1>19. BodiesFollowRows'
  <2>1. ASSUME NEW d \in DOMAIN rows' \ unheard', rows'[d].state = "queued"
        PROVE  rows'[d].body \in readable'
    <3>1. CASE d = c
      <4>1. rows[c].state = "queued"
        BY <1>2, <1>3, <1>5, <1>8, <2>1, <3>1 DEF Open
      <4> QED
        BY <1>4, <1>5, <1>8, <2>1, <3>1, <4>1 DEF OutboxInv, BodiesFollowRows
    <3>2. CASE d # c
      BY <1>4, <1>8, <2>1, <3>2 DEF OutboxInv, BodiesFollowRows
    <3> QED
      BY <3>1, <3>2
  <2>2. ASSUME NEW body \in readable'
        PROVE  Owned(body)'
    <3>1. Owned(body)
      BY <1>4, <2>2 DEF OutboxInv, BodiesFollowRows
    <3>2. CASE body \in doomed \cup leaked
      BY <1>4, <3>2 DEF Owned
    <3>3. CASE \E x \in Workers :
                 worker[x].at \in {"written", "purging"} /\ worker[x].body = body
      BY <1>2, <1>9, <3>3 DEF Owned
    <3>4. CASE \E d \in DOMAIN rows : rows[d].body = body /\ rows[d].state \in Open
      <4>1. PICK d \in DOMAIN rows : rows[d].body = body /\ rows[d].state \in Open
        BY <3>4
      <4>2. CASE d # c
        BY <1>8, <4>1, <4>2 DEF Owned
      <4>3. CASE d = c /\ job.state \in Open
        BY <1>5, <1>8, <4>1, <4>3 DEF Owned
      <4>4. CASE d = c /\ job.state \in Final
        BY <1>7, <1>9, <4>1, <4>4 DEF Owned
      <4> QED
        BY <1>2, <4>2, <4>3, <4>4
    <3> QED
      BY <3>1, <3>2, <3>3, <3>4 DEF Owned
  <2> QED
    BY <2>1, <2>2 DEF BodiesFollowRows
<1> QED
  BY <1>11, <1>12, <1>13, <1>14, <1>17, <1>18, <1>19 DEF OutboxInv

LEMMA FinalizeKeeps ==
  ASSUME OutboxAssumption, OutboxInv, NEW w \in Workers, Finalize(w)
  PROVE  OutboxInv'
<1>1. CASE ~Current(w)
  <2>1. /\ worker[w].at = "ending" /\ To(w, Idle) /\ resting \in BOOLEAN
        /\ UNCHANGED <<withdrawn, enabled, revision, resting, rows, results, bodies, history,
                       faults>>
    BY <1>1 DEF Finalize, At, OutboxInv, TypeOK
  <2> QED
    BY <2>1, StopKeeps
<1> QED
  BY <1>1, ResultKeeps

\* A crash leaks at most the body the worker would have purged.
LEMMA DieKeeps ==
  ASSUME OutboxAssumption, OutboxInv, NEW w \in Workers, Die(w)
  PROVE  OutboxInv'
<1>1. /\ worker \in [Workers -> Job] /\ resting \in BOOLEAN
      /\ leaked \subseteq Conversions \X Workers
      /\ faults \in 0..MaxFaults /\ MaxFaults \in Nat
  BY DEF OutboxInv, Typed, TypeOK, OutboxAssumption
<1>2. Idle \in Job /\ Idle.at = "idle" /\ To(w, Idle)
  BY DEF Job, Idle, Die
<1> HIDE DEF Idle
<1>3. worker'[w] = Idle
  BY <1>1, <1>2 DEF To
<1>4. JobFits(w)'
  BY <1>2, <1>3 DEF JobFits, WriterFits, PurgerFits, Delivering, At
<1>5. faults' \in 0..MaxFaults
  BY <1>1 DEF Die, Faulting
<1>6. worker[w].at \in {"written", "purging"} => worker[w].body \in Conversions \X Workers
  BY <1>1, JobShapes DEF Written, Purging
<1>7. leaked \subseteq leaked' /\ leaked' \subseteq Conversions \X Workers
  BY <1>1, <1>6 DEF Die
<1>8. At(w, "written") \/ At(w, "purging") => worker[w].body \in leaked'
  BY DEF Die, At
<1>9. /\ UNCHANGED <<withdrawn, enabled, revision, rows, results, bodies, unheard>>
      /\ resting' \in BOOLEAN
  BY <1>1 DEF Die, destination
<1> QED
  BY <1>2, <1>4, <1>5, <1>7, <1>8, <1>9, WorkerKeeps

\* A deletion takes the row and leaves its body doomed.
LEMMA RecognizeKeeps ==
  ASSUME OutboxAssumption, OutboxInv, NEW c \in Conversions, Recognize(c)
  PROVE  OutboxInv'
<1>1. /\ worker \in [Workers -> Job] /\ rows \in [DOMAIN rows -> Row]
      /\ \A d \in DOMAIN rows : RowFits(d)
      /\ \A x \in Workers : JobFits(x)
      /\ DOMAIN rows \subseteq Conversions \ withdrawn /\ TypeOK
      /\ results \in [Conversions -> Seq(Nat \X (Open \cup Final))]
  BY DEF OutboxInv, Typed, TypeOK
<1>2. /\ withdrawn' = withdrawn \cup {c} /\ rows' = [x \in DOMAIN rows \ {c} |-> rows[x]]
      /\ doomed' = IF c \in DOMAIN rows THEN doomed \cup {rows[c].body} ELSE doomed
      /\ UNCHANGED <<enabled, revision, resting, results, readable, worker, unheard, leaked,
                     faults>>
  BY DEF Recognize, destination, history
<1>3. /\ DOMAIN rows' = DOMAIN rows \ {c} /\ \A d \in DOMAIN rows' : rows'[d] = rows[d]
      /\ rows' \in [DOMAIN rows' -> Row]
  BY <1>1, <1>2
<1>4. Typed'
  BY <1>1, <1>2, <1>3 DEF Typed
<1>5. c \in DOMAIN rows => rows[c].body \in Conversions \X Workers /\ rows[c].body[1] = c
  BY <1>1 DEF Row, RowFits
<1>6. TypeOK'
  BY <1>1, <1>2, <1>3, <1>5 DEF TypeOK
<1>7. \A d \in DOMAIN rows' : RowFits(d)'
  BY <1>1, <1>3 DEF RowFits
<1>8. ASSUME NEW x \in Workers
      PROVE  JobFits(x)'
  <2>1. JobFits(x) /\ worker'[x] = worker[x]
    BY <1>1, <1>2
  <2>2. WriterFits(x)'
    BY <1>2, <1>3, <2>1 DEF JobFits, WriterFits, At
  <2>3. PurgerFits(x)'
    BY <1>2, <1>3, <2>1 DEF JobFits, PurgerFits, At
  <2>4. Delivering(x)' => CopyFits(x)'
    BY <1>2, <1>3, <2>1 DEF JobFits, Delivering, CopyFits, At
  <2> QED
    BY <2>2, <2>3, <2>4 DEF JobFits
<1>9. Gone'
  <2>1. \A body \in doomed' : body[1] \in withdrawn'
    BY <1>2, <1>5 DEF OutboxInv, Gone
  <2>2. \A d \in Conversions \ withdrawn' : d \notin DOMAIN rows' => results'[d] = <<>>
    BY <1>2, <1>3 DEF OutboxInv, Gone
  <2>3. \A d \in DOMAIN rows' : results'[d] # <<>>
    BY <1>2, <1>3 DEF OutboxInv, Gone
  <2> QED
    BY <2>1, <2>2, <2>3 DEF Gone
<1>10. OneHistory'
  <2> SUFFICES ASSUME NEW d \in Conversions
               PROVE  /\ \A i \in DOMAIN results'[d] : results'[d][i][1] = i - 1
                      /\ \A i, j \in DOMAIN results'[d] : i < j =>
                           /\ results'[d][i][2] \notin Final
                           /\ results'[d][i][2] \in Polling => results'[d][j][2] # "queued"
                      /\ d \in DOMAIN rows' =>
                           results'[d][Len(results'[d])] = <<rows'[d].attempts, rows'[d].state>>
    BY DEF OneHistory
  <2>1. /\ \A i \in DOMAIN results[d] : results[d][i][1] = i - 1
        /\ \A i, j \in DOMAIN results[d] : i < j =>
             /\ results[d][i][2] \notin Final
             /\ results[d][i][2] \in Polling => results[d][j][2] # "queued"
        /\ d \in DOMAIN rows =>
             results[d][Len(results[d])] = <<rows[d].attempts, rows[d].state>>
    BY HistoryOf DEF OutboxInv
  <2> QED
    BY <1>2, <1>3, <2>1
<1>11. BodiesFollowRows'
  <2>1. ASSUME NEW d \in DOMAIN rows' \ unheard', rows'[d].state = "queued"
        PROVE  rows'[d].body \in readable'
    BY <1>2, <1>3, <2>1 DEF OutboxInv, BodiesFollowRows
  <2>2. ASSUME NEW body \in readable'
        PROVE  Owned(body)'
    <3>1. Owned(body)
      BY <1>2, <2>2 DEF OutboxInv, BodiesFollowRows
    <3>2. CASE body \in doomed \cup leaked
      BY <1>2, <3>2 DEF Owned
    <3>3. CASE \E x \in Workers :
                 worker[x].at \in {"written", "purging"} /\ worker[x].body = body
      BY <1>2, <3>3 DEF Owned
    <3>4. CASE \E d \in DOMAIN rows : rows[d].body = body /\ rows[d].state \in Open
      <4>1. PICK d \in DOMAIN rows : rows[d].body = body /\ rows[d].state \in Open
        BY <3>4
      <4>2. CASE d = c
        BY <1>2, <4>1, <4>2 DEF Owned
      <4>3. CASE d # c
        BY <1>3, <4>1, <4>3 DEF Owned
      <4> QED
        BY <4>2, <4>3
    <3> QED
      BY <3>1, <3>2, <3>3, <3>4 DEF Owned
  <2> QED
    BY <2>1, <2>2 DEF BodiesFollowRows
<1> QED
  BY <1>4, <1>6, <1>7, <1>8, <1>9, <1>10, <1>11 DEF OutboxInv

\* What a deletion purges no row waits with.
LEMMA EraseKeeps ==
  ASSUME OutboxAssumption, OutboxInv, NEW body \in doomed, Erase(body)
  PROVE  OutboxInv'
<1>1. /\ worker \in [Workers -> Job] /\ rows \in [DOMAIN rows -> Row]
      /\ \A d \in DOMAIN rows : RowFits(d)
      /\ \A x \in Workers : JobFits(x)
      /\ DOMAIN rows \subseteq Conversions \ withdrawn /\ TypeOK /\ Typed
      /\ body[1] \in withdrawn
  BY DEF OutboxInv, Typed, TypeOK, Gone
<1>2. /\ doomed' = doomed \ {body} /\ readable' = readable \ {body}
      /\ UNCHANGED <<withdrawn, enabled, revision, resting, rows, results, worker, unheard,
                     leaked, faults>>
  BY DEF Erase, destination, history
<1>3. TypeOK' /\ Typed'
  BY <1>1, <1>2 DEF TypeOK, Typed
<1>4. \A d \in DOMAIN rows' : RowFits(d)'
  BY <1>1, <1>2 DEF RowFits
<1>5. ASSUME NEW x \in Workers
      PROVE  JobFits(x)'
  <2>1. JobFits(x) /\ worker'[x] = worker[x]
    BY <1>1, <1>2
  <2>2. WriterFits(x)'
    <3>1. CASE At(x, "written")
      <4>1. /\ worker[x].body = <<worker[x].c, x>>
            /\ worker[x].c \in DOMAIN rows => rows[worker[x].c].body # worker[x].body
            /\ worker[x].c \notin withdrawn \cup DOMAIN rows => worker[x].body \in readable
        BY <2>1, <3>1 DEF JobFits, WriterFits
      <4>2. worker[x].c \notin withdrawn => worker[x].body # body
        BY <1>1, <4>1
      <4> QED
        BY <1>2, <4>1, <4>2 DEF WriterFits
    <3> QED
      BY <2>1, <3>1 DEF WriterFits, At
  <2>3. PurgerFits(x)'
    BY <1>2, <2>1 DEF JobFits, PurgerFits, At
  <2>4. Delivering(x)' => CopyFits(x)'
    BY <1>2, <2>1 DEF JobFits, Delivering, CopyFits, At
  <2> QED
    BY <2>2, <2>3, <2>4 DEF JobFits
<1>6. Gone' /\ OneHistory'
  BY <1>2 DEF OutboxInv, Gone, OneHistory
<1>7. BodiesFollowRows'
  <2>1. ASSUME NEW d \in DOMAIN rows' \ unheard', rows'[d].state = "queued"
        PROVE  rows'[d].body \in readable'
    <3>1. d \in DOMAIN rows \ unheard /\ rows[d].body[1] = d /\ d \notin withdrawn
      BY <1>1, <1>2, <2>1 DEF RowFits
    <3> QED
      BY <1>1, <1>2, <2>1, <3>1 DEF OutboxInv, BodiesFollowRows
  <2>2. ASSUME NEW b \in readable'
        PROVE  Owned(b)'
    BY <1>2, <2>2 DEF OutboxInv, BodiesFollowRows, Owned
  <2> QED
    BY <2>1, <2>2 DEF BodiesFollowRows
<1> QED
  BY <1>3, <1>4, <1>5, <1>6, <1>7 DEF OutboxInv

\* The destination is looked at, never followed.
LEMMA DestinationKeeps ==
  ASSUME OutboxAssumption, OutboxInv, Rested \/ \E on \in BOOLEAN : Configure(on)
  PROVE  OutboxInv'
<1>1. /\ worker \in [Workers -> Job] /\ rows \in [DOMAIN rows -> Row]
      /\ \A d \in DOMAIN rows : RowFits(d)
      /\ enabled \in BOOLEAN /\ revision \in 1..MaxRevisions /\ resting \in BOOLEAN
      /\ readable \subseteq Conversions \X Workers /\ leaked \subseteq Conversions \X Workers
      /\ faults \in 0..MaxFaults /\ MaxRevisions \in Nat
  BY DEF OutboxInv, Typed, TypeOK, OutboxAssumption
<1>2. UNCHANGED <<withdrawn, rows, results, readable, doomed, worker, unheard, leaked, faults>>
  BY DEF Rested, Configure, bodies, history
<1>3. enabled' \in BOOLEAN /\ resting' \in BOOLEAN /\ revision' \in 1..MaxRevisions
  <2>1. CASE Rested
    BY <1>1, <2>1 DEF Rested
  <2>2. ASSUME NEW on \in BOOLEAN, Configure(on)
        PROVE  enabled' \in BOOLEAN /\ resting' = resting /\ revision' \in 1..MaxRevisions
    <3>1. revision' \in 1..MaxRevisions
      BY <1>1, <2>2 DEF Configure
    <3> QED
      BY <2>2, <3>1 DEF Configure
  <2> QED
    BY <1>1, <2>1, <2>2
<1>4. \A d \in DOMAIN rows : RowFits(d)'
  BY <1>1, <1>2 DEF RowFits
<1>5. Unclaimed \notin Workers
  BY DEF OutboxAssumption
<1> QED
  BY <1>1, <1>2, <1>3, <1>4, <1>5, StepKeeps

LEMMA OutboxInit == ASSUME OutboxAssumption, Init PROVE OutboxInv
<1>1. /\ DOMAIN rows = {} /\ rows \in [DOMAIN rows -> Row]
  BY DEF Init
<1>2. /\ results \in [Conversions -> Seq(Nat \X (Open \cup Final))]
      /\ \A c \in Conversions : results[c] = <<>>
      /\ worker \in [Workers -> Job] /\ \A w \in Workers : worker[w].at = "idle"
  BY DEF Init, Job, Idle
<1>3. TypeOK /\ Typed
  <2>1. revision \in 1..MaxRevisions /\ faults \in 0..MaxFaults
    BY DEF Init, OutboxAssumption
  <2>2. enabled \in BOOLEAN /\ resting \in BOOLEAN
    BY DEF Init
  <2>3. /\ withdrawn = {} /\ unheard = {} /\ readable = {} /\ doomed = {} /\ leaked = {}
        /\ DOMAIN results = Conversions
    BY DEF Init
  <2> QED
    BY <1>1, <1>2, <2>1, <2>2, <2>3 DEF TypeOK, Typed
<1>4. \A w \in Workers : JobFits(w)
  BY <1>2 DEF JobFits, WriterFits, PurgerFits, Delivering, At
<1>5. Gone /\ OneHistory /\ BodiesFollowRows
  BY <1>1, <1>2 DEF Init, Gone, OneHistory, BodiesFollowRows
<1> QED
  BY <1>1, <1>3, <1>4, <1>5 DEF OutboxInv

LEMMA OutboxNext == ASSUME OutboxAssumption, OutboxInv, [Next]_vars PROVE OutboxInv'
<1>1. CASE UNCHANGED vars
  BY <1>1 DEF vars, destination, bodies, history, OutboxInv, TypeOK, Typed, RowFits, JobFits,
              WriterFits, PurgerFits, Delivering, CopyFits, At, Gone, OneHistory,
              BodiesFollowRows, Owned
<1>2. ASSUME NEW w \in Workers, Step(w)
      PROVE  OutboxInv'
  <2>1. TRUE \in BOOLEAN
    OBVIOUS
  <2> QED
    BY <1>2, <2>1, RecordKeeps, QuietKeeps, BeginKeeps, FinalizeKeeps, PurgeKeeps, ClaimKeeps
       DEF Step
<1>3. ASSUME NEW w \in Workers, Record(w, FALSE) \/ Die(w)
      PROVE  OutboxInv'
  <2>1. FALSE \in BOOLEAN
    OBVIOUS
  <2> QED
    BY <1>3, <2>1, RecordKeeps, DieKeeps
<1>4. ASSUME NEW w \in Workers, NEW c \in Conversions, Prepare(w, c)
      PROVE  OutboxInv'
  BY <1>4, PrepareKeeps
<1>5. CASE Time
  BY <1>5, TimeKeeps, DestinationKeeps DEF Time
<1>6. ASSUME NEW c \in Conversions, Recognize(c)
      PROVE  OutboxInv'
  BY <1>6, RecognizeKeeps
<1>7. ASSUME NEW body \in doomed, Erase(body)
      PROVE  OutboxInv'
  BY <1>7, EraseKeeps
<1>8. ASSUME NEW on \in BOOLEAN, Configure(on)
      PROVE  OutboxInv'
  BY <1>8, DestinationKeeps
<1> QED
  BY <1>1, <1>2, <1>3, <1>4, <1>5, <1>6, <1>7, <1>8 DEF Next

\* Whatever is lost or crashes, the results of a conversion are one history
\* that its row is at the end of, and no body is left without one who has it
\* purged, but for the bodies of workers that died.
THEOREM OutboxIsAccountedFor ==
  ASSUME OutboxAssumption
  PROVE  Spec => [](TypeOK /\ RowsAreAccountedFor)
<1>1. Init => OutboxInv
  BY OutboxInit
<1>2. OutboxInv /\ [Next]_vars => OutboxInv'
  BY OutboxNext
<1>3. OutboxInv => TypeOK /\ RowsAreAccountedFor
  BY DEF OutboxInv, RowsAreAccountedFor
<1> QED
  BY <1>1, <1>2, <1>3, PTL DEF Spec
=============================================================================
