------------------------ MODULE OperatorWebhook_proofs ------------------------
(* For any events, subjects and bounds: no request goes out with an event of a  *)
(* deleted subject, and a row that waits to be sent has its body.               *)
(*                                                                              *)
(* The second rests on where a purge may still be due: a body is purged by its  *)
(* number, after the commit that ended its row, so what is due is never the     *)
(* body of a row that waits, nor one that a recovery or a discovery will write. *)
(*                                                                              *)
(* At the end, the other jobs of WorkerJobs: the cost schedule, whose proof is  *)
(* here, and the export and the conversions, which have proofs of their own.    *)
EXTENDS WorkerJobs, FiniteSetTheorems, SequenceTheorems,
  WellFoundedInduction, TLAPS

RowsOK ==
  /\ None \notin DOMAIN rows
  /\ \A k \in DOMAIN rows :
       "state" \in DOMAIN rows[k] /\ "body" \in DOMAIN rows[k] /\ rows[k].body \in Nat

\* Purges that are still due name bodies of recorded rows, the current one only
\* when the row has come to an end.
DueIsPast ==
  /\ \A k, n : k \notin DOMAIN rows => <<k, n>> \notin unpurged
  /\ \A k \in DOMAIN rows : \A n \in Nat :
       rows[k].body < n => <<k, n>> \notin unpurged
  /\ \A k \in Pending : <<k, rows[k].body>> \notin unpurged

\* The body that discovery has written has no row yet.
JobOK ==
  job # None => /\ job \in Events /\ job \notin DOMAIN rows
                /\ <<job, 0>> \in readable

TxOK == tx = None \/ tx \in Pending

IInv ==
  /\ RowsOK /\ DueIsPast /\ JobOK /\ TxOK
  /\ NothingLeavesAfterRecognition /\ PendingIsReadable

LEMMA Initially ==
  ASSUME KeysAreDistinct
  PROVE  Init => IInv
<1> SUFFICES ASSUME Init
             PROVE  IInv
  OBVIOUS
<1>1. DOMAIN rows = {} /\ Pending = {}
  BY DEF Init, Pending
<1> QED
  BY <1>1 DEF Init, IInv, RowsOK, DueIsPast, JobOK, TxOK, KeysAreDistinct,
       NothingLeavesAfterRecognition, PendingIsReadable

\* The end of an attempt: the row, and when it is final its body, now due.
LEMMA SettleKeeps ==
  ASSUME IInv, KeysAreDistinct, NEW k \in Pending, NEW state \in {"retry", "succeeded",
           "failed", "suppressed"}, NEW heard \in BOOLEAN,
         Settle(k, state, heard), tx' = None
  PROVE  IInv'
<1>1. /\ DOMAIN rows' = DOMAIN rows
      /\ \A j \in DOMAIN rows : j # k => rows'[j] = rows[j]
      /\ rows'[k].state = state /\ rows'[k].body = rows[k].body
      /\ "state" \in DOMAIN rows'[k] /\ "body" \in DOMAIN rows'[k]
  BY DEF Settle, Attempted, IInv, RowsOK, Pending
<1>2. k \in DOMAIN rows /\ Bodies({k}) = {<<k, rows[k].body>>}
  BY DEF Pending, Bodies
<1>3. RowsOK'
  BY <1>1 DEF IInv, RowsOK
<1>4. /\ Pending' \subseteq Pending
      /\ state \notin {"retry", "queued"} => k \notin Pending'
  BY <1>1, <1>2 DEF Pending
<1>5. /\ \A x \in unpurged' : x \in unpurged \/ x = <<k, rows[k].body>>
      /\ state = "retry" => unpurged' = unpurged
  BY <1>2 DEF Settle
<1>6. state # "queued"
  OBVIOUS
<1>7. DueIsPast'
  <2>1. \A j, n : j \notin DOMAIN rows' => <<j, n>> \notin unpurged'
    BY <1>1, <1>2, <1>5 DEF IInv, DueIsPast
  <2>2. \A j \in DOMAIN rows' : \A n \in Nat :
          rows'[j].body < n => <<j, n>> \notin unpurged'
    BY <1>1, <1>2, <1>5 DEF IInv, DueIsPast, RowsOK
  <2>3. \A j \in Pending' : <<j, rows'[j].body>> \notin unpurged'
    BY <1>1, <1>2, <1>4, <1>5, <1>6 DEF IInv, DueIsPast, Pending
  <2> QED
    BY <2>1, <2>2, <2>3 DEF DueIsPast
<1>8. JobOK' /\ TxOK' /\ NothingLeavesAfterRecognition'
  BY <1>1 DEF Settle, IInv, JobOK, TxOK, NothingLeavesAfterRecognition,
       KeysAreDistinct, Keys
<1>9. PendingIsReadable'
  BY <1>1, <1>2, <1>4 DEF Settle, IInv, PendingIsReadable, Pending
<1> QED
  BY <1>3, <1>7, <1>8, <1>9 DEF IInv

\* A command, and a recognition, suppress some of what is pending; the purges
\* that become due name bodies of rows that have then come to an end.
LEMMA SuppressKeeps ==
  ASSUME KeysAreDistinct, IInv,
         NEW S \in SUBSET Pending, NEW T \in SUBSET DOMAIN rows,
         T \cap Pending \subseteq S,
         rows' = Suppress(S), unpurged' = unpurged \cup Bodies(T)
  PROVE  /\ RowsOK' /\ DueIsPast'
         /\ DOMAIN rows' = DOMAIN rows /\ Pending' = Pending \ S
         /\ \A k \in Pending' : rows'[k] = rows[k]
<1>1. /\ DOMAIN rows' = DOMAIN rows
      /\ \A k \in DOMAIN rows : k \notin S => rows'[k] = rows[k]
      /\ \A k \in S : rows'[k] = [rows[k] EXCEPT !.state = "suppressed"]
  BY DEF Suppress, Pending
<1>2. \A k \in S : /\ rows'[k].state = "suppressed"
                   /\ rows'[k].body = rows[k].body
                   /\ "state" \in DOMAIN rows'[k] /\ "body" \in DOMAIN rows'[k]
  BY <1>1 DEF IInv, RowsOK, Pending
<1>3. RowsOK'
  BY <1>1, <1>2 DEF IInv, RowsOK
<1>4. Pending' = Pending \ S
  BY <1>1, <1>2 DEF Pending
<1>5. \A x \in unpurged' :
        x \in unpurged \/ \E k \in T : x = <<k, rows[k].body>>
  BY DEF Bodies
<1>6. DueIsPast'
  <2>0. \A k \in DOMAIN rows' : rows'[k].body = rows[k].body
    BY <1>1, <1>2
  <2>1. \A k, n : k \notin DOMAIN rows' => <<k, n>> \notin unpurged'
    BY <1>1, <1>5 DEF IInv, DueIsPast
  <2>2. \A k \in DOMAIN rows' : \A n \in Nat :
          rows'[k].body < n => <<k, n>> \notin unpurged'
    BY <2>0, <1>1, <1>5 DEF IInv, DueIsPast, RowsOK
  <2>3. \A k \in Pending' : <<k, rows'[k].body>> \notin unpurged'
    BY <2>0, <1>1, <1>4, <1>5 DEF IInv, DueIsPast, Pending
  <2> QED
    BY <2>1, <2>2, <2>3 DEF DueIsPast
<1> QED
  BY <1>1, <1>3, <1>4, <1>6 DEF Pending

LEMMA CommandKeeps ==
  ASSUME KeysAreDistinct, IInv,
         NEW S \in SUBSET Pending, NEW T \in SUBSET DOMAIN rows,
         T \cap Pending \subseteq S,
         Command(S), unpurged' = unpurged \cup Bodies(T), readable' = readable
  PROVE  IInv'
<1>1. /\ RowsOK' /\ DueIsPast'
      /\ DOMAIN rows' = DOMAIN rows /\ Pending' = Pending \ S
      /\ \A k \in Pending' : rows'[k] = rows[k]
  BY SuppressKeeps DEF Command
<1>2. JobOK' /\ TxOK' /\ NothingLeavesAfterRecognition'
  BY <1>1 DEF Command, IInv, JobOK, TxOK, NothingLeavesAfterRecognition,
       KeysAreDistinct, Keys
<1>3. PendingIsReadable'
  BY <1>1 DEF Command, IInv, PendingIsReadable
<1> QED
  BY <1>1, <1>2, <1>3 DEF IInv

\* A row recorded under a new key: no purge names it.
LEMMA RecordKeeps ==
  ASSUME KeysAreDistinct, IInv, tx = None,
         NEW k \in Keys, k \notin DOMAIN rows,
         rows' = With(rows, k, Row(0)), UNCHANGED <<tx, unpurged, withdrawn>>,
         NEW lost, unheard' = IF lost THEN unheard \cup {k} ELSE unheard,
         <<k, 0>> \in readable' \/ lost,
         \A j \in Pending : <<j, rows[j].body>> \in readable
                              => <<j, rows[j].body>> \in readable',
         JobOK'
  PROVE  IInv'
<1>1. /\ DOMAIN rows' = DOMAIN rows \cup {k}
      /\ \A j \in DOMAIN rows : rows'[j] = rows[j]
      /\ rows'[k] = Row(0)
  BY DEF With
<1>2. Row(0).body = 0 /\ "state" \in DOMAIN Row(0) /\ "body" \in DOMAIN Row(0)
  BY DEF Row
<1>3. RowsOK'
  BY <1>1, <1>2 DEF IInv, RowsOK, KeysAreDistinct
<1>4. Pending' \subseteq Pending \cup {k}
  BY <1>1 DEF Pending
<1>5. DueIsPast'
  <2>1. \A j, n : j \notin DOMAIN rows' => <<j, n>> \notin unpurged'
    BY <1>1 DEF IInv, DueIsPast
  <2>2. \A j \in DOMAIN rows' : \A n \in Nat :
          rows'[j].body < n => <<j, n>> \notin unpurged'
    BY <1>1 DEF IInv, DueIsPast
  <2>3. \A j \in Pending' : <<j, rows'[j].body>> \notin unpurged'
    BY <1>1, <1>4 DEF IInv, DueIsPast, Pending
  <2> QED
    BY <2>1, <2>2, <2>3 DEF DueIsPast
<1>6. TxOK' /\ NothingLeavesAfterRecognition'
  BY DEF IInv, TxOK, NothingLeavesAfterRecognition
<1>7. PendingIsReadable'
  BY <1>1, <1>2, <1>4 DEF IInv, PendingIsReadable, Pending
<1> QED
  BY <1>3, <1>5, <1>6, <1>7 DEF IInv

-----------------------------------------------------------------------------
\* Nothing that the invariant reads is changed.
LEMMA OthersKeep ==
  ASSUME IInv, UNCHANGED <<rows, job, tx, readable, unpurged, withdrawn, unheard>>
  PROVE  IInv'
BY DEF IInv, RowsOK, DueIsPast, JobOK, TxOK, Pending,
       NothingLeavesAfterRecognition, PendingIsReadable

LEMMA RecognizeKeeps ==
  ASSUME KeysAreDistinct, IInv, NEW s \in Subjects, Recognize(s)
  PROVE  IInv'
<1> DEFINE S == Pending \cap Of(s)
<1>1. /\ RowsOK' /\ DueIsPast'
      /\ DOMAIN rows' = DOMAIN rows /\ Pending' = Pending \ S
      /\ \A k \in Pending' : rows'[k] = rows[k]
  <2>1. Bodies({}) = {}
    BY DEF Bodies
  <2>2. rows' = Suppress(S) /\ unpurged' = unpurged \cup Bodies({})
    BY <2>1 DEF Recognize
  <2> QED
    BY <2>2, SuppressKeeps
<1>2. \A x \in readable \ readable' : \E k \in S : x = <<k, rows[k].body>>
  BY DEF Recognize, Bodies
<1>3. JobOK'
  BY <1>1, <1>2 DEF Recognize, IInv, JobOK, Pending
<1>4. tx \notin Of(s) /\ tx' = tx /\ withdrawn' = withdrawn \cup {s}
  BY DEF Recognize
<1>5. TxOK' /\ NothingLeavesAfterRecognition'
  BY <1>1, <1>4 DEF IInv, TxOK, NothingLeavesAfterRecognition, Of
<1>6. PendingIsReadable'
  <2> SUFFICES ASSUME NEW k \in Pending \ S, k \notin unheard
               PROVE  <<k, rows[k].body>> \in readable'
    BY <1>1 DEF Recognize, PendingIsReadable
  <2>1. <<k, rows[k].body>> \in readable
    BY DEF IInv, PendingIsReadable
  <2> QED
    BY <1>2, <2>1
<1> QED
  BY <1>1, <1>3, <1>5, <1>6 DEF IInv

LEMMA DiscoveryKeeps ==
  ASSUME KeysAreDistinct, IInv, NEW e \in Events,
         Prepare(e) \/ Record(e) \/ RecordUnheard(e)
  PROVE  IInv'
<1>1. e \in Keys /\ e # None
  BY DEF Keys, KeysAreDistinct
<1>2. CASE Prepare(e)
  BY <1>2 DEF Prepare, destination, recovery, IInv, RowsOK, DueIsPast, JobOK,
       TxOK, Pending, NothingLeavesAfterRecognition, PendingIsReadable
<1>3. ASSUME job = e
      PROVE  /\ e \notin DOMAIN rows /\ <<e, 0>> \in readable
             /\ \A j \in Pending : <<j, rows[j].body>> # <<e, 0>>
  BY <1>1, <1>3 DEF IInv, JobOK, Pending
<1>4. CASE Record(e) /\ Eligible(e)
  <2>1. /\ rows' = With(rows, e, Row(0)) /\ job' = None
        /\ UNCHANGED <<tx, unpurged, withdrawn, readable, unheard>>
    BY <1>4 DEF Record
  <2>2. unheard' = IF FALSE THEN unheard \cup {e} ELSE unheard
    BY <2>1
  <2> QED
    BY <1>1, <1>3, <1>4, <2>1, <2>2, RecordKeeps DEF Record, JobOK
<1>5. CASE Record(e) /\ ~Eligible(e)
  <2>1. /\ job = e /\ job' = None /\ readable' = readable \ {<<e, 0>>}
        /\ UNCHANGED <<rows, tx, unpurged, withdrawn, unheard>>
    BY <1>5 DEF Record
  <2> QED
    BY <1>3, <2>1 DEF IInv, RowsOK, DueIsPast, JobOK, TxOK, Pending,
         NothingLeavesAfterRecognition, PendingIsReadable
<1>6. CASE RecordUnheard(e)
  <2>1. /\ rows' = With(rows, e, Row(0)) /\ job = e /\ job' = None /\ tx = None
        /\ readable' = readable \ {<<e, 0>>}
        /\ unheard' = unheard \cup {e}
        /\ UNCHANGED <<tx, unpurged, withdrawn>>
    BY <1>6 DEF RecordUnheard
  <2>2. unheard' = IF TRUE THEN unheard \cup {e} ELSE unheard
    BY <2>1
  <2> QED
    BY <1>1, <1>3, <2>1, <2>2, RecordKeeps DEF JobOK
<1> QED
  BY <1>2, <1>4, <1>5, <1>6

LEMMA NoticeKeeps ==
  ASSUME KeysAreDistinct, IInv, NEW s \in Subjects, NEW heard \in BOOLEAN,
         Notice(s, heard)
  PROVE  IInv'
<1>1. s \in Keys /\ s \notin DOMAIN rows /\ s \notin Events
  BY DEF Notice, Keys, KeysAreDistinct
<1>2. /\ rows' = With(rows, s, Row(0)) /\ tx = None
      /\ UNCHANGED <<job, tx, unpurged, withdrawn>>
      /\ \A x \in readable : x \in readable'
  BY DEF Notice
<1>3. JobOK'
  <2>1. \A k \in DOMAIN rows' : k \in DOMAIN rows \/ k = s
    BY <1>2 DEF With
  <2> QED
    BY <1>1, <1>2, <2>1 DEF IInv, JobOK
<1>4. CASE heard
  <2>1. <<s, 0>> \in readable' /\ unheard' = IF FALSE THEN unheard \cup {s} ELSE unheard
    BY <1>4 DEF Notice
  <2> QED
    BY <1>1, <1>2, <1>3, <2>1, RecordKeeps
<1>5. CASE ~heard
  <2>1. unheard' = IF TRUE THEN unheard \cup {s} ELSE unheard
    BY <1>5 DEF Notice
  <2> QED
    BY <1>1, <1>2, <1>3, <2>1, RecordKeeps
<1> QED
  BY <1>4, <1>5

LEMMA ConfirmKeeps ==
  ASSUME KeysAreDistinct, IInv, NEW k \in DOMAIN rows, NEW heard \in BOOLEAN,
         Confirm(k, heard)
  PROVE  IInv'
<1> DEFINE old == rows[k].body
<1>1. /\ tx = None /\ k \notin Pending /\ old \in Nat /\ old + 1 \in Nat
      /\ old < old + 1
  BY DEF Confirm, Recoverable, Pending, IInv, RowsOK
<1>2. /\ DOMAIN rows' = DOMAIN rows
      /\ \A j \in DOMAIN rows : j # k => rows'[j] = rows[j]
      /\ rows'[k].state = "retry" /\ rows'[k].body = old + 1
      /\ "state" \in DOMAIN rows'[k] /\ "body" \in DOMAIN rows'[k]
  BY DEF Confirm, IInv, RowsOK
<1>3. /\ UNCHANGED <<job, tx, unpurged, withdrawn>>
      /\ heard => <<k, old + 1>> \in readable' /\ unheard' = unheard
      /\ ~heard => unheard' = unheard \cup {k}
      /\ \A x \in readable : x # <<k, old>> => x \in readable'
  BY DEF Confirm
<1>4. RowsOK'
  BY <1>1, <1>2 DEF IInv, RowsOK
<1>5. Pending' = Pending \cup {k}
  BY <1>2 DEF Pending
<1>6. DueIsPast'
  <2>1. \A j, n : j \notin DOMAIN rows' => <<j, n>> \notin unpurged'
    BY <1>2, <1>3 DEF IInv, DueIsPast
  <2>2. \A j \in DOMAIN rows' : \A n \in Nat :
          rows'[j].body < n => <<j, n>> \notin unpurged'
    <3> SUFFICES ASSUME NEW j \in DOMAIN rows, NEW n \in Nat, rows'[j].body < n
                 PROVE  rows[j].body < n
      BY <1>2, <1>3 DEF IInv, DueIsPast
    <3> QED
      BY <1>1, <1>2
  <2>3. \A j \in Pending' : <<j, rows'[j].body>> \notin unpurged'
    BY <1>1, <1>2, <1>3, <1>5 DEF IInv, DueIsPast, Pending
  <2> QED
    BY <2>1, <2>2, <2>3 DEF DueIsPast
<1>7. JobOK' /\ TxOK' /\ NothingLeavesAfterRecognition'
  BY <1>1, <1>2, <1>3 DEF IInv, JobOK, TxOK, NothingLeavesAfterRecognition
<1>8. PendingIsReadable'
  BY <1>1, <1>2, <1>3, <1>5 DEF IInv, PendingIsReadable, Pending
<1> QED
  BY <1>4, <1>6, <1>7, <1>8 DEF IInv

LEMMA PurgeKeeps ==
  ASSUME KeysAreDistinct, IInv, NEW body \in unpurged, PurgeBody(body)
  PROVE  IInv'
<1>1. /\ UNCHANGED <<rows, job, tx, withdrawn, unheard>>
      /\ readable' = readable \ {body} /\ unpurged' \subseteq unpurged
  BY DEF PurgeBody, Purge
<1>2. job # None => <<job, 0>> # body
  BY DEF IInv, JobOK, DueIsPast
<1>3. \A k \in Pending : <<k, rows[k].body>> # body
  BY DEF IInv, DueIsPast
<1> QED
  BY <1>1, <1>2, <1>3 DEF IInv, RowsOK, DueIsPast, JobOK, TxOK, Pending,
       NothingLeavesAfterRecognition, PendingIsReadable

-----------------------------------------------------------------------------
LEMMA Step ==
  ASSUME KeysAreDistinct, IInv, [Next]_vars
  PROVE  IInv'
<1>1. ASSUME NEW e \in Events,
             Project(e) \/ Prepare(e) \/ Record(e) \/ RecordUnheard(e)
      PROVE  IInv'
  <2>1. CASE Project(e)
    BY <2>1, OthersKeep DEF Project, bodies
  <2> QED
    BY <1>1, <2>1, DiscoveryKeeps
<1>2. ASSUME NEW s \in Subjects, NEW heard \in BOOLEAN,
             Recognize(s) \/ Notice(s, heard)
      PROVE  IInv'
  BY <1>2, RecognizeKeeps, NoticeKeeps
<1>3. ASSUME NEW k \in DOMAIN rows, Stop(k) \/ BodyMissing(k)
      PROVE  IInv'
  BY <1>3, SettleKeeps DEF Stop, BodyMissing
<1>4. ASSUME NEW k \in DOMAIN rows, Send(k)
      PROVE  IInv'
  <2>1. /\ tx' = k /\ k \in Pending
        /\ k \in Events => SubjectOf[k] \notin withdrawn
        /\ UNCHANGED <<rows, job, readable, unpurged, withdrawn, unheard>>
    BY <1>4 DEF Send, Stopped, bodies
  <2> QED
    BY <2>1 DEF IInv, RowsOK, DueIsPast, JobOK, TxOK, Pending,
         NothingLeavesAfterRecognition, PendingIsReadable
<1>5. ASSUME NEW k \in DOMAIN rows, NEW heard \in BOOLEAN,
             Accepted(k, heard) \/ Refused(k) \/ Expired(k)
      PROVE  IInv'
  <2>1. k \in Pending /\ tx' = None
    BY <1>5 DEF Accepted, Refused, Expired, IInv, RowsOK, TxOK
  <2> QED
    BY <1>5, <2>1, SettleKeeps DEF Accepted, Refused, Expired
<1>6. ASSUME NEW k \in DOMAIN rows, Preview(k)
      PROVE  IInv'
  BY <1>6, OthersKeep DEF Preview, bodies
<1>7. ASSUME NEW k \in DOMAIN rows, NEW heard \in BOOLEAN, Confirm(k, heard)
      PROVE  IInv'
  BY <1>7, ConfirmKeeps
<1>8. ASSUME PrepareDies \/ SendDies
      PROVE  IInv'
  BY <1>8 DEF PrepareDies, SendDies, bodies, IInv, RowsOK, DueIsPast, JobOK,
       TxOK, Pending, KeysAreDistinct, Keys, NothingLeavesAfterRecognition,
       PendingIsReadable
<1>9. ASSUME Arrive \/ OverlapEnds \/ \E receipt \in previews : Lapse(receipt)
      PROVE  IInv'
  BY <1>9, OthersKeep DEF Arrive, OverlapEnds, Lapse, bodies
<1>10. ASSUME NEW body \in unpurged, PurgeBody(body)
       PROVE  IInv'
  BY <1>10, PurgeKeeps
<1> DEFINE Commands(S, T) ==
      /\ Command(S) /\ readable' = readable
      /\ unpurged' = unpurged \cup Bodies(T)
<1>11. ASSUME Rotate
       PROVE  IInv'
  <2>1. Commands({}, {})
    BY <1>11 DEF Rotate, bodies, Bodies
  <2> QED
    BY <2>1, CommandKeeps
<1>12. ASSUME NEW n \in 1..MaxRevisions, Retire(n)
       PROVE  IInv'
  <2> DEFINE old == {k \in Pending : rows[k].revision = n}
  <2>1. Commands(old, old)
    BY <1>12 DEF Retire
  <2>2. old \in SUBSET Pending /\ old \in SUBSET DOMAIN rows
    BY DEF Pending
  <2> HIDE DEF old
  <2> QED
    BY <2>1, <2>2, CommandKeeps
<1>13. ASSUME NEW enabled \in BOOLEAN, SetNotify(enabled)
       PROVE  IInv'
  <2> DEFINE notices == IF enabled THEN {} ELSE Pending \cap Subjects
  <2>1. Commands(notices, notices)
    BY <1>13 DEF SetNotify
  <2>2. notices \in SUBSET Pending /\ notices \in SUBSET DOMAIN rows
    BY DEF Pending
  <2> HIDE DEF notices
  <2> QED
    BY <2>1, <2>2, CommandKeeps
<1>14. ASSUME Disable
       PROVE  IInv'
  <2>1. Commands(Pending, DOMAIN rows)
    BY <1>14 DEF Disable
  <2> QED
    BY <2>1, CommandKeeps
<1>15. CASE UNCHANGED vars
  BY <1>15, OthersKeep DEF vars, bodies
<1> QED
  BY <1>1, <1>2, <1>3, <1>4, <1>5, <1>6, <1>7, <1>8, <1>9, <1>10, <1>11,
     <1>12, <1>13, <1>14, <1>15 DEF Next

LEMMA Invariance ==
  ASSUME KeysAreDistinct
  PROVE  Spec => []IInv
<1>1. Init => IInv
  BY Initially
<1>2. IInv /\ [Next]_vars => IInv'
  BY Step
<1> QED
  BY <1>1, <1>2, PTL DEF Spec

\* No request with an event of a subject is out once the subject's deletion is
\* recognized: the recognition waits for the lock of a record being delivered.
THEOREM NoRequestAfterRecognition ==
  ASSUME KeysAreDistinct
  PROVE  Spec => []NothingLeavesAfterRecognition
<1>1. IInv => NothingLeavesAfterRecognition
  BY DEF IInv
<1> QED
  BY <1>1, Invariance, PTL

\* A row that waits to be sent has its body, unless the answer of the commit
\* that recorded it was lost: a purge that comes late, after a recovery gave
\* the row another body, removes the old one.
THEOREM WaitingRowsHaveBodies ==
  ASSUME KeysAreDistinct
  PROVE  Spec => []PendingIsReadable
<1>1. IInv => PendingIsReadable
  BY DEF IInv
<1> QED
  BY <1>1, Invariance, PTL

-----------------------------------------------------------------------------
(* Types.  An attempt that is due has not used up the limit, for a recovery    *)
(* asks for less and a retry for less than the configured maximum.             *)

RowType == [state : States, attempts : 0..AttemptLimit,
            revision : 1..MaxRevisions, body : Nat]

\* An attempt that is still due has not used up the limit.
RowsTyped ==
  /\ DOMAIN rows \subseteq Keys
  /\ \A k \in DOMAIN rows : rows[k] \in RowType
  /\ \A k \in Pending : rows[k].attempts < AttemptLimit

OthersTyped ==
  /\ projected \subseteq Events /\ withdrawn \subseteq Subjects
  /\ active \in BOOLEAN /\ notify \in BOOLEAN /\ overlap \in BOOLEAN
  /\ signing \in 1..MaxRevisions
  /\ readable \cup unpurged \subseteq Keys \X Nat
  /\ previews \cup confirmed \subseteq Keys \X (0..AttemptLimit)
  /\ received \cup unheard \subseteq DOMAIN rows
  /\ faults \in 0..MaxFaults

LEMMA TypedRowIsRecorded ==
  ASSUME WebhookAssumption, RowsTyped, signing \in 1..MaxRevisions,
         NEW k \in Keys, k \notin DOMAIN rows, rows' = With(rows, k, Row(0))
  PROVE  RowsTyped' /\ DOMAIN rows' = DOMAIN rows \cup {k}
<1>1. /\ DOMAIN rows' = DOMAIN rows \cup {k}
      /\ \A j \in DOMAIN rows : rows'[j] = rows[j]
      /\ rows'[k] = Row(0)
  BY DEF With
<1>2. Row(0) \in RowType /\ Row(0).attempts = 0
  BY DEF Row, RowType, States, WebhookAssumption
<1>3. /\ DOMAIN rows' \subseteq Keys
      /\ \A j \in DOMAIN rows' : rows'[j] \in RowType
  BY <1>1, <1>2 DEF RowsTyped
<1>4. \A j \in Pending' : rows'[j].attempts < AttemptLimit
  <2> SUFFICES ASSUME NEW j \in Pending'
               PROVE  rows'[j].attempts < AttemptLimit
    OBVIOUS
  <2>1. CASE j = k
    BY <1>1, <1>2, <2>1 DEF WebhookAssumption
  <2>2. CASE j # k
    BY <1>1, <2>2 DEF RowsTyped, Pending
  <2> QED
    BY <2>1, <2>2
<1> QED
  BY <1>1, <1>3, <1>4 DEF RowsTyped

LEMMA TypedRowsAreSuppressed ==
  ASSUME RowsTyped, NEW S \in SUBSET Pending, rows' = Suppress(S)
  PROVE  RowsTyped' /\ DOMAIN rows' = DOMAIN rows
<1>1. /\ DOMAIN rows' = DOMAIN rows
      /\ \A k \in DOMAIN rows \ S : rows'[k] = rows[k]
      /\ \A k \in S : rows'[k] = [rows[k] EXCEPT !.state = "suppressed"]
  BY DEF Suppress, Pending
<1>2. \A k \in S : rows'[k] \in RowType /\ rows'[k].state = "suppressed"
  <2> SUFFICES ASSUME NEW k \in S
               PROVE  rows'[k] \in RowType /\ rows'[k].state = "suppressed"
    OBVIOUS
  <2>1. rows[k] \in RowType
    BY DEF RowsTyped, Pending
  <2>2. rows'[k] = [rows[k] EXCEPT !.state = "suppressed"] /\ "suppressed" \in States
    BY <1>1 DEF States
  <2> QED
    BY <2>1, <2>2 DEF RowType
<1>3. \A k \in DOMAIN rows' : rows'[k] \in RowType
  BY <1>1, <1>2 DEF RowsTyped
<1>4. \A k \in Pending' : k \in Pending /\ rows'[k] = rows[k]
  BY <1>1, <1>2 DEF Pending
<1> QED
  BY <1>1, <1>3, <1>4 DEF RowsTyped

LEMMA TypedRowIsAttempted ==
  ASSUME WebhookAssumption, RowsTyped, NEW k \in Pending,
         NEW state \in {"retry", "succeeded", "failed", "suppressed"},
         state = "retry" => rows[k].attempts + 1 < MaximumAttempts,
         rows' = Attempted(k, state)
  PROVE  RowsTyped' /\ DOMAIN rows' = DOMAIN rows
<1>0. k \in DOMAIN rows /\ rows[k] \in RowType /\ rows[k].attempts < AttemptLimit
  BY DEF RowsTyped, Pending
<1>1. /\ DOMAIN rows' = DOMAIN rows
      /\ \A j \in DOMAIN rows \ {k} : rows'[j] = rows[j]
      /\ rows'[k] = [rows[k] EXCEPT !.state = state, !.attempts = @ + 1]
  BY <1>0 DEF Attempted
<1>2. rows[k].attempts \in Nat /\ AttemptLimit \in Nat /\ MaximumAttempts \in 1..AttemptLimit
  BY <1>0 DEF RowType, WebhookAssumption
<1>3. /\ rows'[k] \in RowType /\ rows'[k].state = state
      /\ rows'[k].attempts = rows[k].attempts + 1
  <2>1. rows[k].attempts + 1 \in 0..AttemptLimit
    BY <1>0, <1>2
  <2>2. state \in States
    BY DEF States
  <2> QED
    BY <1>0, <1>1, <2>1, <2>2 DEF RowType
<1>4. \A j \in DOMAIN rows' : rows'[j] \in RowType
  BY <1>1, <1>3 DEF RowsTyped
<1>5. \A j \in Pending' : rows'[j].attempts < AttemptLimit
  <2> SUFFICES ASSUME NEW j \in Pending'
               PROVE  rows'[j].attempts < AttemptLimit
    OBVIOUS
  <2>1. CASE j = k
    BY <1>2, <1>3, <2>1 DEF Pending
  <2>2. CASE j # k
    BY <1>1, <2>2 DEF RowsTyped, Pending
  <2> QED
    BY <2>1, <2>2
<1> QED
  BY <1>1, <1>4, <1>5 DEF RowsTyped

LEMMA BodiesAreTyped ==
  ASSUME RowsTyped, NEW S \in SUBSET DOMAIN rows
  PROVE  Bodies(S) \subseteq Keys \X Nat
BY DEF Bodies, RowsTyped, RowType

\* The end of an attempt.
LEMMA SettleIsTyped ==
  ASSUME WebhookAssumption, RowsTyped, OthersTyped, NEW k \in Pending,
         NEW state \in {"retry", "succeeded", "failed", "suppressed"},
         NEW heard \in BOOLEAN, Settle(k, state, heard), faults' \in 0..MaxFaults,
         state = "retry" => rows[k].attempts + 1 < MaximumAttempts
  PROVE  RowsTyped' /\ OthersTyped'
<1>1. RowsTyped' /\ DOMAIN rows' = DOMAIN rows
  BY TypedRowIsAttempted DEF Settle
<1>2. Bodies({k}) \subseteq Keys \X Nat
  BY BodiesAreTyped DEF Pending
<1>3. unpurged' \subseteq unpurged \cup Bodies({k})
  BY DEF Settle
<1> QED
  BY <1>1, <1>2, <1>3 DEF Settle, OthersTyped, destination, recovery

\* A command, and a recognition, suppress some of what is pending.
LEMMA SuppressionIsTyped ==
  ASSUME RowsTyped, OthersTyped, NEW S \in SUBSET Pending, Command(S),
         NEW T \in SUBSET DOMAIN rows, unpurged' = unpurged \cup Bodies(T),
         UNCHANGED readable, active' \in BOOLEAN, notify' \in BOOLEAN,
         overlap' \in BOOLEAN, signing' \in 1..MaxRevisions
  PROVE  RowsTyped' /\ OthersTyped'
<1>1. RowsTyped' /\ DOMAIN rows' = DOMAIN rows
  BY TypedRowsAreSuppressed DEF Command
<1>2. Bodies(T) \subseteq Keys \X Nat
  BY BodiesAreTyped
<1> QED
  BY <1>1, <1>2 DEF Command, OthersTyped, recovery

LEMMA TypedStep ==
  ASSUME WebhookAssumption, IInv, RowsTyped, OthersTyped, [Next]_vars
  PROVE  RowsTyped' /\ OthersTyped'
<1>0. /\ MaxFaults \in Nat /\ faults \in 0..MaxFaults /\ MaxRevisions \in Nat \ {0}
      /\ Pending \subseteq DOMAIN rows /\ DOMAIN rows \subseteq Keys
      /\ Events \subseteq Keys /\ Subjects \subseteq Keys /\ 0 \in Nat
  BY DEF WebhookAssumption, OthersTyped, Pending, RowsTyped, Keys
<1>f. ASSUME NEW n \in {0, 1}, Faulting(n) PROVE faults' \in 0..MaxFaults
  BY <1>0, <1>f DEF Faulting
<1>s. ASSUME rows' = rows PROVE RowsTyped'
  BY <1>s DEF RowsTyped, Pending
<1>1. ASSUME NEW e \in Events, Project(e) \/ Prepare(e)
      PROVE  RowsTyped' /\ OthersTyped'
  BY <1>0, <1>1, <1>s DEF Project, Prepare, OthersTyped, destination, bodies, recovery
<1>2. ASSUME NEW e \in Events, Record(e) \/ RecordUnheard(e)
      PROVE  RowsTyped' /\ OthersTyped'
  <2>1. e \in Keys /\ e \notin DOMAIN rows /\ faults' \in 0..MaxFaults
    BY <1>0, <1>2, <1>f DEF Record, RecordUnheard, IInv, JobOK, KeysAreDistinct,
         WebhookAssumption
  <2>2. signing \in 1..MaxRevisions
    BY DEF OthersTyped
  <2>3. CASE rows' = With(rows, e, Row(0))
    <3>1. RowsTyped' /\ DOMAIN rows' = DOMAIN rows \cup {e}
      BY <2>1, <2>2, <2>3, TypedRowIsRecorded
    <3> QED
      BY <1>2, <2>1, <3>1 DEF Record, RecordUnheard, OthersTyped, destination, recovery
  <2>4. CASE Record(e) /\ rows' = rows
    BY <1>s, <2>1, <2>4 DEF Record, OthersTyped, destination, recovery
  <2> QED
    BY <1>2, <2>3, <2>4 DEF Record, RecordUnheard
<1>3. ASSUME NEW s \in Subjects, Recognize(s)
      PROVE  RowsTyped' /\ OthersTyped'
  <2>1. RowsTyped' /\ DOMAIN rows' = DOMAIN rows
    BY <1>3, TypedRowsAreSuppressed DEF Recognize
  <2> QED
    BY <1>3, <2>1 DEF Recognize, OthersTyped, destination, recovery
<1>4. ASSUME NEW s \in Subjects, NEW heard \in BOOLEAN, Notice(s, heard)
      PROVE  RowsTyped' /\ OthersTyped'
  <2>1. RowsTyped' /\ DOMAIN rows' = DOMAIN rows \cup {s}
    BY <1>0, <1>4, TypedRowIsRecorded DEF Notice, OthersTyped
  <2>2. faults' \in 0..MaxFaults
    BY <1>4, <1>f DEF Notice
  <2> QED
    BY <1>0, <1>4, <2>1, <2>2 DEF Notice, OthersTyped, destination, recovery
<1>5. ASSUME NEW k \in DOMAIN rows, Stop(k) \/ BodyMissing(k)
      PROVE  RowsTyped' /\ OthersTyped'
  <2>1. faults' \in 0..MaxFaults
    BY <1>0, <1>5 DEF Stop, BodyMissing
  <2> QED
    BY <1>5, <2>1, SettleIsTyped DEF Stop, BodyMissing
<1>6. ASSUME NEW k \in DOMAIN rows, NEW heard \in BOOLEAN,
             Accepted(k, heard) \/ Refused(k) \/ Expired(k)
      PROVE  RowsTyped' /\ OthersTyped'
  <2>1. k \in Pending /\ faults' \in 0..MaxFaults
    BY <1>0, <1>6, <1>f DEF Accepted, Refused, Expired, IInv, RowsOK, TxOK, OthersTyped
  <2> QED
    BY <1>6, <2>1, SettleIsTyped DEF Accepted, Refused, Expired
<1>7. ASSUME NEW k \in DOMAIN rows, Send(k) \/ Preview(k)
      PROVE  RowsTyped' /\ OthersTyped'
  <2>1. k \in Keys /\ rows[k].attempts \in 0..AttemptLimit
    BY <1>0 DEF RowsTyped, RowType
  <2> QED
    BY <1>7, <1>s, <2>1 DEF Send, Preview, Receipt, OthersTyped, destination, bodies, recovery
<1>8. ASSUME NEW k \in DOMAIN rows, NEW heard \in BOOLEAN, Confirm(k, heard)
      PROVE  RowsTyped' /\ OthersTyped'
  <2>1. /\ k \in Keys /\ rows[k] \in RowType /\ rows[k].attempts \in 0..AttemptLimit
        /\ rows[k].body \in Nat /\ rows[k].attempts < AttemptLimit
    BY <1>0, <1>8 DEF RowsTyped, RowType, Confirm, Recoverable
  <2>2. /\ DOMAIN rows' = DOMAIN rows
        /\ \A j \in DOMAIN rows \ {k} : rows'[j] = rows[j]
        /\ rows'[k] = [rows[k] EXCEPT !.state = "retry", !.body = @ + 1]
    BY <1>8 DEF Confirm
  <2>3. rows'[k] \in RowType /\ rows'[k].attempts = rows[k].attempts
    <3>1. "retry" \in States /\ rows[k].body + 1 \in Nat
      BY <2>1 DEF States
    <3> QED
      BY <2>1, <2>2, <3>1 DEF RowType
  <2>4. RowsTyped'
    BY <2>1, <2>2, <2>3 DEF RowsTyped, Pending
  <2>5. faults' \in 0..MaxFaults
    BY <1>8, <1>f DEF Confirm
  <2>6. <<k, rows[k].body + 1>> \in Keys \X Nat
    BY <2>1
  <2> QED
    BY <1>8, <2>1, <2>2, <2>4, <2>5, <2>6 DEF Confirm, Receipt, OthersTyped, destination
<1>9. ASSUME PrepareDies \/ SendDies
      PROVE  RowsTyped' /\ OthersTyped'
  <2>1. faults' \in 0..MaxFaults
    BY <1>9, <1>f DEF PrepareDies, SendDies
  <2> QED
    BY <1>9, <1>s, <2>1 DEF PrepareDies, SendDies, OthersTyped, destination, bodies, recovery
<1>10. ASSUME Arrive \/ OverlapEnds
              \/ (\E body \in unpurged : PurgeBody(body))
              \/ (\E receipt \in previews : Lapse(receipt))
       PROVE  RowsTyped' /\ OthersTyped'
  <2>1. tx # None => tx \in DOMAIN rows
    BY <1>0 DEF IInv, TxOK
  <2>2. CASE Arrive
    BY <1>s, <2>1, <2>2 DEF Arrive, OthersTyped, destination, bodies, recovery
  <2>3. CASE OverlapEnds
    BY <1>s, <2>3 DEF OverlapEnds, OthersTyped, bodies, recovery
  <2>4. ASSUME NEW body \in unpurged, PurgeBody(body)
        PROVE  RowsTyped' /\ OthersTyped'
    BY <1>s, <2>4 DEF PurgeBody, Purge, OthersTyped, destination, recovery
  <2>5. ASSUME NEW receipt \in previews, Lapse(receipt)
        PROVE  RowsTyped' /\ OthersTyped'
    BY <1>s, <2>5 DEF Lapse, OthersTyped, destination, bodies
  <2> QED
    BY <1>10, <2>2, <2>3, <2>4, <2>5
<1>11. ASSUME Rotate
       PROVE  RowsTyped' /\ OthersTyped'
  <2>1. /\ Command({}) /\ UNCHANGED readable /\ unpurged' = unpurged \cup Bodies({})
        /\ signing' \in 1..MaxRevisions
    BY <1>0, <1>11 DEF Rotate, bodies, Bodies, OthersTyped
  <2> QED
    BY <1>11, <2>1, SuppressionIsTyped DEF Rotate, OthersTyped
<1>12. ASSUME NEW n \in 1..MaxRevisions, Retire(n)
       PROVE  RowsTyped' /\ OthersTyped'
  <2> DEFINE old == {k \in Pending : rows[k].revision = n}
  <2>1. old \in SUBSET Pending /\ old \in SUBSET DOMAIN rows
    BY <1>0
  <2>2. Command(old) /\ unpurged' = unpurged \cup Bodies(old)
    BY <1>12 DEF Retire
  <2>3. overlap' \in BOOLEAN
    BY <1>12 DEF Retire
  <2> HIDE DEF old
  <2> QED
    BY <1>12, <2>1, <2>2, <2>3, SuppressionIsTyped DEF Retire, OthersTyped
<1>13. ASSUME NEW enabled \in BOOLEAN, SetNotify(enabled)
       PROVE  RowsTyped' /\ OthersTyped'
  <2> DEFINE notices == IF enabled THEN {} ELSE Pending \cap Subjects
  <2>1. notices \in SUBSET Pending /\ notices \in SUBSET DOMAIN rows
    BY <1>0
  <2>2. Command(notices) /\ unpurged' = unpurged \cup Bodies(notices)
    BY <1>13 DEF SetNotify
  <2> HIDE DEF notices
  <2> QED
    BY <1>13, <2>1, <2>2, SuppressionIsTyped DEF SetNotify, OthersTyped
<1>14. ASSUME Disable
       PROVE  RowsTyped' /\ OthersTyped'
  BY <1>0, <1>14, SuppressionIsTyped DEF Disable, OthersTyped
<1>15. CASE UNCHANGED vars
  BY <1>15, <1>s DEF vars, OthersTyped, destination, bodies, recovery
<1> QED
  BY <1>1, <1>2, <1>3, <1>4, <1>5, <1>6, <1>7, <1>8, <1>9, <1>10, <1>11,
     <1>12, <1>13, <1>14, <1>15 DEF Next

\* Types, for any events, subjects and bounds: no row has more attempts than the
\* limit, whatever is recovered.
THEOREM WebhookTypes ==
  ASSUME WebhookAssumption
  PROVE  Spec => []TypeOK
<1>1. Init => RowsTyped /\ OthersTyped
  <2> SUFFICES ASSUME Init
               PROVE  RowsTyped /\ OthersTyped
    OBVIOUS
  <2>1. DOMAIN rows = {} /\ Pending = {}
    BY DEF Init, Pending
  <2>2. RowsTyped
    BY <2>1 DEF RowsTyped
  <2>3. 1 \in 1..MaxRevisions /\ 0 \in 0..MaxFaults
    BY DEF WebhookAssumption
  <2>4. OthersTyped
    BY <2>1, <2>3 DEF Init, OthersTyped
  <2> QED
    BY <2>2, <2>4
<1>2. IInv /\ RowsTyped /\ OthersTyped /\ [Next]_vars => (RowsTyped /\ OthersTyped)'
  BY TypedStep
<1>3. IInv /\ RowsTyped /\ OthersTyped => TypeOK
  BY DEF IInv, TxOK, JobOK, RowsTyped, OthersTyped, RowType, TypeOK
<1>4. KeysAreDistinct
  BY DEF WebhookAssumption
<1>5. Spec => []IInv
  BY <1>4, Invariance
<1> QED
  BY <1>1, <1>2, <1>3, <1>5, PTL DEF Spec

-----------------------------------------------------------------------------
(* The cost schedule (CostRefresh), for any workers, days and attempts: no date *)
(* is imported twice by backfills and no daily range ends twice on the same day.*)
(*                                                                              *)
(* What was imported does not say why it cannot be imported again; the rows do. *)
(* A date imported by a backfill is complete in its row, a day acquired is open *)
(* in its row or pending behind what the checkpoint has passed, only the live   *)
(* lease's holder writes, and a date is confirmed again only when its newest    *)
(* row has failed: so of all rows of one date, every one but the newest failed. *)

\* A finite set of numbers that is not empty has a greatest one: the smallest of the
\* sets of what is above some member is empty.
LEMMA CostGreatest ==
  ASSUME NEW S \in SUBSET Nat, IsFiniteSet(S), S # {}
  PROVE  Cost!Max(S) \in S /\ \A q \in S : q <= Cost!Max(S)
<1> DEFINE Above(o) == {q \in S : o < q}
           F == {Above(o) : o \in S}
           R == StrictSubsetOrdering(S)
<1>1. IsWellFoundedOn(R, FiniteSubsetsOf(S))
  BY FS_StrictSubsetOrderingWellFounded
<1>2. F \subseteq FiniteSubsetsOf(S) /\ F # {}
  <2>1. \A T \in SUBSET S : T \in FiniteSubsetsOf(S)
    BY FS_Subset DEF FiniteSubsetsOf
  <2> QED
    BY <2>1
<1>3. PICK x \in F : \A y \in F : ~(<<y, x>> \in R)
  BY <1>1, <1>2, WFMin
<1>4. PICK m \in S : x = Above(m)
  BY <1>3
<1>5. ASSUME NEW q \in S, ~(q <= m)
      PROVE  FALSE
  <2>1. m < q /\ ~(q < q) /\ \A r \in S : q < r => m < r
    <3>1. q \in Nat /\ m \in Nat /\ m < q
      BY <1>5
    <3>2. ASSUME NEW r \in S, q < r PROVE m < r
      <4>1. r \in Nat
        OBVIOUS
      <4> QED
        BY <3>1, <3>2, <4>1
    <3> QED
      BY <3>1, <3>2
  <2>2. Above(q) \subseteq Above(m) /\ q \in Above(m) /\ q \notin Above(q)
    BY <2>1
  <2>3. <<Above(q), Above(m)>> \in R
    BY <2>2 DEF StrictSubsetOrdering
  <2> QED
    BY <1>3, <1>4, <2>3
<1>6. \E a \in S : \A q \in S : a >= q
  <2>1. \A q \in S : m >= q
    <3> SUFFICES ASSUME NEW q \in S
                 PROVE  m >= q
      OBVIOUS
    <3>1. q \in Nat /\ m \in Nat
      OBVIOUS
    <3> QED
      BY <1>5, <3>1
  <2> QED
    BY <2>1
<1>7. Cost!Max(S) \in S /\ \A q \in S : Cost!Max(S) >= q
  BY <1>6 DEF Cost!Max
<1> QED
  <2> SUFFICES ASSUME NEW q \in S
               PROVE  q <= Cost!Max(S)
    BY <1>7
  <2>1. q \in Nat /\ Cost!Max(S) \in Nat
    BY <1>7
  <2> QED
    BY <1>7, <2>1

\* What a range, a day of a backfill and the columns are.
IsRange(range) == range = Cost!Between(range.since, range.until) /\ range.until \in Nat
DayRow == [state : Cost!DayStates, attempts : 0..CostAttempts]
IsBackfill(b) ==
  /\ b = [days |-> b.days, refreshed |-> b.refreshed]
  /\ DOMAIN b.days \subseteq 1..LastDay
  /\ b.days = [d \in DOMAIN b.days |-> b.days[d]]
  /\ \A d \in DOMAIN b.days : b.days[d] \in DayRow
BackfillsFit ==
  /\ \E S : backfills \in Seq(S)
  /\ \A b \in DOMAIN backfills : IsBackfill(backfills[b])
CheckpointFits ==
  /\ checkpoint = [state |-> checkpoint.state, pending |-> checkpoint.pending,
                   attempts |-> checkpoint.attempts, last |-> checkpoint.last]
  /\ checkpoint.state \in {"idle", "retry", "processing", "failed", "stopped"}
  /\ checkpoint.attempts \in 0..CostAttempts
  /\ IsRange(checkpoint.pending) /\ IsRange(checkpoint.last)
  /\ checkpoint.pending # Cost!NoRange => checkpoint.pending.until <= today
WorkersFit ==
  /\ DOMAIN worker = Workers
  /\ \A w \in Workers : worker[w].step \in {"idle", "refresh", "acquire"}

\* Whose lease it is acquires what the lease says, and nothing else has ended it.
LeaseFits ==
  /\ lease = [holder |-> lease.holder, live |-> lease.live, day |-> lease.day]
  /\ lease.holder \in Workers \cup {Cost!None} /\ lease.live \in BOOLEAN
  /\ lease.day \in Cost!Targets \cup {Cost!Daily}
  /\ lease.live => lease.holder # Cost!None
ClaimFits ==
  /\ lease.live /\ lease.day # Cost!Daily => Cost!Day(lease.day).state = "processing"
  /\ lease.live /\ lease.day = Cost!Daily =>
       /\ checkpoint.state = "processing"
       /\ checkpoint.pending.until > checkpoint.last.until
WorkFits ==
  \A w \in Workers :
    worker[w].step = "acquire" /\ lease.holder = w /\ lease.live =>
      /\ worker[w].target = lease.day
      /\ worker[w].range = IF lease.day = Cost!Daily THEN checkpoint.pending
                           ELSE Cost!Between(lease.day[2], lease.day[2])

\* A date is asked for again only when it has failed.
OldOnesFailed ==
  \A b, c \in Cost!Targets : b[2] = c[2] /\ b[1] < c[1] => Cost!Day(b).state = "failed"

\* What is published is complete, or behind the checkpoint.
Imported(x) ==
  /\ x = <<x[1], x[2]>> /\ published[x] = 1
  /\ x[1] # Cost!Daily => /\ x[1] \in Cost!Targets /\ Cost!Day(x[1]).state = "complete"
                     /\ x[2] = Cost!Between(x[1][2], x[1][2])
  /\ x[1] = Cost!Daily => x[2].until \in Nat /\ x[2].until <= checkpoint.last.until
ImportsFit ==
  /\ \A x \in DOMAIN published : Imported(x)
  /\ \A x, y \in DOMAIN published :
       x[1] = Cost!Daily /\ y[1] = Cost!Daily /\ x[2].until = y[2].until => x = y

CostInv ==
  /\ costActive \in BOOLEAN /\ today \in 1..LastDay
  /\ cooling \subseteq Cost!Targets \cup {Cost!Daily}
  /\ BackfillsFit /\ CheckpointFits /\ WorkersFit
  /\ LeaseFits /\ ClaimFits /\ WorkFits /\ OldOnesFailed /\ ImportsFit

-----------------------------------------------------------------------------
LEMMA TargetsOf ==
  ASSUME BackfillsFit, NEW c \in Cost!Targets
  PROVE  /\ c[1] \in 1..Len(backfills) /\ c[1] \in DOMAIN backfills /\ c[2] \in 1..LastDay
         /\ c = <<c[1], c[2]>> /\ IsBackfill(backfills[c[1]])
         /\ c[2] \in DOMAIN backfills[c[1]].days
         /\ Cost!Day(c) \in DayRow /\ c # Cost!Daily
<1>1. /\ c \in (DOMAIN backfills) \X (1..LastDay) /\ c[2] \in DOMAIN backfills[c[1]].days
      /\ DOMAIN backfills = 1..Len(backfills) /\ Len(backfills) \in Nat
  BY LenProperties DEF Cost!Targets, BackfillsFit
<1>2. IsBackfill(backfills[c[1]])
  BY <1>1 DEF BackfillsFit
<1>3. c[1] # 0
  BY <1>1
<1> QED
  BY <1>1, <1>2, <1>3 DEF IsBackfill, Cost!Day, Cost!Daily

\* A row of a backfill is written.
LEMMA SetDayWrites ==
  ASSUME BackfillsFit, NEW c \in Cost!Targets, NEW row \in DayRow,
         backfills' = Cost!SetDay(c, row)
  PROVE  /\ BackfillsFit' /\ Cost!Targets' = Cost!Targets
         /\ \A b \in Cost!Targets : Cost!Day(b)' = IF b = c THEN row ELSE Cost!Day(b)
<1> DEFINE n == c[1]
           d == c[2]
           new == [backfills[n] EXCEPT !.days = [backfills[n].days EXCEPT ![d] = row]]
<1>1. /\ n \in DOMAIN backfills /\ d \in 1..LastDay /\ IsBackfill(backfills[n])
      /\ d \in DOMAIN backfills[n].days /\ c = <<n, d>>
      /\ DOMAIN backfills = 1..Len(backfills)
      /\ \A b \in DOMAIN backfills : IsBackfill(backfills[b])
  BY TargetsOf, LenProperties DEF BackfillsFit
<1>2. backfills' = [backfills EXCEPT ![n] = new]
  BY <1>1 DEF Cost!SetDay
<1>3. /\ new = [days |-> [backfills[n].days EXCEPT ![d] = row],
                refreshed |-> backfills[n].refreshed]
      /\ new.days = [backfills[n].days EXCEPT ![d] = row]
  BY <1>1 DEF IsBackfill
<1>4. /\ DOMAIN new.days = DOMAIN backfills[n].days
      /\ new.days = [x \in DOMAIN backfills[n].days |->
                       IF x = d THEN row ELSE backfills[n].days[x]]
  BY <1>3
<1>5. IsBackfill(new)
  <2>1. new = [days |-> new.days, refreshed |-> new.refreshed]
    BY <1>3
  <2>2. \A x \in DOMAIN new.days : new.days[x] \in DayRow
    BY <1>1, <1>4 DEF IsBackfill
  <2>3. /\ DOMAIN new.days \subseteq 1..LastDay
        /\ new.days = [x \in DOMAIN new.days |-> new.days[x]]
    BY <1>1, <1>4 DEF IsBackfill
  <2> HIDE DEF new
  <2> QED
    BY <2>1, <2>2, <2>3 DEF IsBackfill
<1> HIDE DEF new, n, d
<1>6. /\ DOMAIN backfills' = DOMAIN backfills /\ backfills'[n] = new
      /\ \A b \in DOMAIN backfills : b # n => backfills'[b] = backfills[b]
      /\ \E S : backfills' \in Seq(S)
  <2>1. PICK S : backfills \in Seq(S)
    BY DEF BackfillsFit
  <2>2. backfills \in Seq(S \cup {new}) /\ new \in S \cup {new} /\ n \in 1..Len(backfills)
    BY <1>1, <2>1
  <2>3. backfills' \in Seq(S \cup {new})
    BY <1>2, <2>2, ExceptSeq
  <2> QED
    BY <1>1, <1>2, <2>3
<1>8. BackfillsFit'
  <2>1. \A b \in DOMAIN backfills' : IsBackfill(backfills'[b])
    BY <1>1, <1>5, <1>6
  <2> QED
    BY <1>6, <2>1 DEF BackfillsFit, IsBackfill, DayRow
<1>9. \A b \in DOMAIN backfills : DOMAIN backfills'[b].days = DOMAIN backfills[b].days
  BY <1>4, <1>6
<1>10. Cost!Targets' = Cost!Targets
  BY <1>6, <1>9 DEF Cost!Targets
<1>11. ASSUME NEW b \in Cost!Targets
       PROVE  Cost!Day(b)' = IF b = c THEN row ELSE Cost!Day(b)
  <2>1. b[1] \in DOMAIN backfills /\ b[2] \in DOMAIN backfills[b[1]].days /\ b = <<b[1], b[2]>>
    BY TargetsOf
  <2>2. CASE b[1] = n
    BY <1>1, <1>4, <1>6, <2>1, <2>2 DEF Cost!Day
  <2>3. CASE b[1] # n
    BY <1>1, <1>6, <2>1, <2>3 DEF Cost!Day
  <2> QED
    BY <2>2, <2>3
<1> QED
  BY <1>8, <1>10, <1>11

\* What has failed or is complete stays so, and the checkpoint does not go back.
LEMMA ImportsStand ==
  ASSUME CostInv, UNCHANGED published, Cost!Targets' = Cost!Targets,
         checkpoint'.last.until \in Nat, checkpoint.last.until <= checkpoint'.last.until,
         \A b \in Cost!Targets : Cost!Day(b).state \in {"failed", "complete"} =>
                            Cost!Day(b)'.state = Cost!Day(b).state
  PROVE  OldOnesFailed' /\ ImportsFit'
<1>1. OldOnesFailed'
  BY DEF CostInv, OldOnesFailed
<1>2. ASSUME NEW x \in DOMAIN published
      PROVE  Imported(x)'
  <2>1. Imported(x)
    BY DEF CostInv, ImportsFit
  <2>2. x[1] # Cost!Daily => /\ x[1] \in Cost!Targets' /\ Cost!Day(x[1])'.state = "complete"
                        /\ x[2] = Cost!Between(x[1][2], x[1][2])
    BY <2>1 DEF Imported
  <2>3. x[1] = Cost!Daily => x[2].until \in Nat /\ x[2].until <= checkpoint'.last.until
    <3>1. checkpoint.last.until \in Nat
      BY DEF CostInv, CheckpointFits, IsRange
    <3> QED
      BY <2>1, <3>1 DEF Imported
  <2> QED
    BY <2>1, <2>2, <2>3 DEF Imported
<1>3. ImportsFit'
  BY <1>2 DEF CostInv, ImportsFit
<1> QED
  BY <1>1, <1>3

\* A step that claims nothing and publishes nothing: the lease stays with what it
\* is on, or ends.
LEMMA StepStands ==
  ASSUME CostInv, NEW w,
         costActive' \in BOOLEAN, today' \in 1..LastDay,
         cooling' \subseteq Cost!Targets \cup {Cost!Daily},
         BackfillsFit', CheckpointFits', WorkersFit', Cost!Targets' = Cost!Targets,
         checkpoint'.last = checkpoint.last, UNCHANGED published,
         \A b \in Cost!Targets : Cost!Day(b).state \in {"failed", "complete"} =>
                            Cost!Day(b)'.state = Cost!Day(b).state,
         \A x \in Workers : x # w => worker'[x] = worker[x],
         w \in Workers => worker'[w].step # "acquire",
         \/ /\ lease' = lease
            /\ lease.live => /\ checkpoint'.pending = checkpoint.pending
                             /\ checkpoint'.state = checkpoint.state
                             /\ lease.day \in Cost!Targets => Cost!Day(lease.day)' = Cost!Day(lease.day)
         \/ lease' = Cost!Free \/ lease' = [lease EXCEPT !.live = FALSE]
  PROVE  CostInv'
<1>1. checkpoint.last.until \in Nat
  BY DEF CostInv, CheckpointFits, IsRange
<1>2. OldOnesFailed' /\ ImportsFit'
  BY <1>1, ImportsStand
<1>3. CASE lease' = Cost!Free \/ lease' = [lease EXCEPT !.live = FALSE]
  <2>1. LeaseFits' /\ ~lease'.live
    <3>1. CASE lease' = Cost!Free
      BY <3>1 DEF LeaseFits, Cost!Free, Cost!Daily
    <3>2. CASE lease' = [lease EXCEPT !.live = FALSE]
      BY <3>2 DEF CostInv, LeaseFits
    <3> QED
      BY <1>3, <3>1, <3>2
  <2> QED
    BY <1>2, <2>1 DEF CostInv, ClaimFits, WorkFits
<1>4. CASE /\ lease' = lease
           /\ lease.live => /\ checkpoint'.pending = checkpoint.pending
                            /\ checkpoint'.state = checkpoint.state
                            /\ lease.day \in Cost!Targets => Cost!Day(lease.day)' = Cost!Day(lease.day)
  <2>1. LeaseFits'
    BY <1>4 DEF CostInv, LeaseFits
  <2>2. ClaimFits'
    <3>1. lease.live /\ lease.day # Cost!Daily => Cost!Day(lease.day)'.state = "processing"
      BY <1>4 DEF CostInv, LeaseFits, ClaimFits
    <3>2. lease.live /\ lease.day = Cost!Daily =>
            /\ checkpoint'.state = "processing"
            /\ checkpoint'.pending.until > checkpoint'.last.until
      BY <1>4 DEF CostInv, ClaimFits
    <3> QED
      BY <1>4, <3>1, <3>2 DEF ClaimFits, Cost!Day
  <2>3. WorkFits'
    BY <1>4 DEF CostInv, WorkFits, WorkersFit
  <2> QED
    BY <1>2, <2>1, <2>2, <2>3 DEF CostInv
<1> QED
  BY <1>3, <1>4

\* A worker that has nothing more to acquire.
LEMMA EndsStep ==
  ASSUME CostInv, NEW w \in Workers, NEW step \in {"idle", "refresh"},
         \/ worker' = [worker EXCEPT ![w] = Cost!Idle] /\ step = "idle"
         \/ worker[w] = Cost!Idle /\ worker' = [worker EXCEPT ![w].step = "refresh"]
              /\ step = "refresh"
  PROVE  /\ WorkersFit' /\ worker'[w].step # "acquire"
         /\ \A x \in Workers : x # w => worker'[x] = worker[x]
<1>1. /\ DOMAIN worker = Workers
      /\ \A x \in Workers : worker[x].step \in {"idle", "refresh", "acquire"}
  BY DEF CostInv, WorkersFit
<1>2. Cost!Idle.step = "idle" /\ [Cost!Idle EXCEPT !.step = "refresh"].step = "refresh"
  BY DEF Cost!Idle
<1>3. /\ DOMAIN worker' = Workers /\ \A x \in Workers : x # w => worker'[x] = worker[x]
      /\ worker'[w] = Cost!Idle \/ worker'[w] = [Cost!Idle EXCEPT !.step = "refresh"]
  BY <1>1
<1> HIDE DEF Cost!Idle
<1> QED
  BY <1>1, <1>2, <1>3 DEF WorkersFit

\* The clock, and a worker that only looks or gives up.
LEMMA QuietStep ==
  ASSUME Cost!CostAssumption, CostInv,
         \/ Cost!Expire \/ Cost!NextDay \/ \E c \in cooling : Cost!Cool(c)
         \/ \E w \in Workers : Cost!NoBackfill(w) \/ Cost!Abandon(w)
  PROVE  CostInv'
<1>1. /\ costActive \in BOOLEAN /\ today \in 1..LastDay
      /\ cooling \subseteq Cost!Targets \cup {Cost!Daily}
      /\ BackfillsFit /\ CheckpointFits /\ WorkersFit /\ LastDay \in Nat
  BY DEF CostInv, Cost!CostAssumption
<1>2. UNCHANGED <<costActive, checkpoint, backfills, published>>
  BY DEF Cost!Expire, Cost!NextDay, Cost!Cool, Cost!NoBackfill, Cost!Abandon
<1>3. /\ BackfillsFit' /\ Cost!Targets' = Cost!Targets
      /\ \A b \in Cost!Targets : Cost!Day(b)' = Cost!Day(b)
  BY <1>1, <1>2 DEF BackfillsFit, IsBackfill, DayRow, Cost!Targets, Cost!Day
<1>4. /\ today' \in 1..LastDay /\ cooling' \subseteq Cost!Targets \cup {Cost!Daily}
      /\ today <= today'
  BY <1>1 DEF Cost!Expire, Cost!NextDay, Cost!Cool, Cost!NoBackfill, Cost!Abandon
<1>5. CheckpointFits'
  <2>1. checkpoint.pending # Cost!NoRange => checkpoint.pending.until <= today'
    BY <1>1, <1>4 DEF CheckpointFits, IsRange
  <2> QED
    BY <1>1, <1>2, <2>1 DEF CheckpointFits, IsRange
<1>6. CASE Cost!Expire \/ Cost!NextDay \/ \E c \in cooling : Cost!Cool(c)
  <2>1. worker' = worker /\ (lease' = lease \/ lease' = [lease EXCEPT !.live = FALSE])
    BY <1>6 DEF Cost!Expire, Cost!NextDay, Cost!Cool
  <2>2. WorkersFit'
    BY <1>1, <2>1 DEF WorkersFit
  <2>3. Cost!None \notin Workers
    BY DEF Cost!CostAssumption
  <2> QED
    BY <1>1, <1>2, <1>3, <1>4, <1>5, <2>1, <2>2, <2>3, StepStands
<1>7. ASSUME NEW w \in Workers, Cost!NoBackfill(w) \/ Cost!Abandon(w)
      PROVE  CostInv'
  <2>1. /\ lease' = lease
        /\ \/ worker' = [worker EXCEPT ![w] = Cost!Idle]
           \/ worker[w] = Cost!Idle /\ worker' = [worker EXCEPT ![w].step = "refresh"]
    BY <1>7 DEF Cost!NoBackfill, Cost!Abandon, Cost!Returns
  <2>2. /\ WorkersFit' /\ worker'[w].step # "acquire"
        /\ \A x \in Workers : x # w => worker'[x] = worker[x]
    <3>1. "idle" \in {"idle", "refresh"} /\ "refresh" \in {"idle", "refresh"}
      OBVIOUS
    <3> QED
      BY <2>1, <3>1, EndsStep
  <2> QED
    BY <1>1, <1>2, <1>3, <1>4, <1>5, <2>1, <2>2, StepStands
<1> QED
  BY <1>6, <1>7

\* A day that is not to be acquired ends.
LEMMA EndDayStep ==
  ASSUME Cost!CostAssumption, CostInv, NEW w \in Workers, NEW c \in Cost!Targets,
         Cost!EndDay(w, c)
  PROVE  CostInv'
<1> DEFINE row == [Cost!Day(c) EXCEPT !.state =
                     IF Cost!Day(c).attempts >= CostAttempts THEN "failed" ELSE "skipped"]
<1>1. /\ costActive \in BOOLEAN /\ today \in 1..LastDay
      /\ cooling \subseteq Cost!Targets \cup {Cost!Daily}
      /\ BackfillsFit /\ CheckpointFits
  BY DEF CostInv
<1>2. /\ UNCHANGED <<costActive, today, checkpoint, cooling, published>>
      /\ worker[w] = Cost!Idle /\ worker' = [worker EXCEPT ![w].step = "refresh"]
      /\ backfills' = Cost!SetDay(c, row) /\ (lease' = lease \/ lease' = Cost!Free)
      /\ Cost!LeaseFree /\ Cost!Day(c).state \in Cost!Open
  BY DEF Cost!EndDay, Cost!First, Cost!Due
<1>3. row \in DayRow
  BY <1>1, TargetsOf DEF DayRow, Cost!DayStates
<1> HIDE DEF row
<1>4. /\ BackfillsFit' /\ Cost!Targets' = Cost!Targets
      /\ \A b \in Cost!Targets : Cost!Day(b)' = IF b = c THEN row ELSE Cost!Day(b)
  BY <1>1, <1>2, <1>3, SetDayWrites
<1>5. \A b \in Cost!Targets : Cost!Day(b).state \in {"failed", "complete"} =>
                         Cost!Day(b)'.state = Cost!Day(b).state
  BY <1>2, <1>4 DEF Cost!Open
<1>6. /\ WorkersFit' /\ worker'[w].step # "acquire"
      /\ \A x \in Workers : x # w => worker'[x] = worker[x]
  BY <1>2, EndsStep
<1>7. CheckpointFits'
  BY <1>1, <1>2 DEF CheckpointFits, IsRange
<1>8. ~lease.live
  BY <1>2 DEF Cost!LeaseFree, CostInv, LeaseFits
<1> QED
  BY <1>1, <1>2, <1>4, <1>5, <1>6, <1>7, <1>8, StepStands

\* There is no range to refresh, or its last attempt was killed.
LEMMA NoRefreshStep ==
  ASSUME Cost!CostAssumption, CostInv, NEW w \in Workers, Cost!NoRefresh(w)
  PROVE  CostInv'
<1>1. /\ costActive \in BOOLEAN /\ today \in 1..LastDay
      /\ cooling \subseteq Cost!Targets \cup {Cost!Daily}
      /\ BackfillsFit /\ CheckpointFits
  BY DEF CostInv
<1>2. /\ UNCHANGED <<costActive, today, backfills, cooling, published>>
      /\ worker' = [worker EXCEPT ![w] = Cost!Idle]
      /\ \/ lease' = Cost!Free /\ checkpoint' = [checkpoint EXCEPT !.state = "failed"]
         \/ lease' = lease /\ checkpoint' = checkpoint
  BY DEF Cost!NoRefresh
<1>3. /\ BackfillsFit' /\ Cost!Targets' = Cost!Targets
      /\ \A b \in Cost!Targets : Cost!Day(b)' = Cost!Day(b)
  BY <1>1, <1>2 DEF BackfillsFit, IsBackfill, DayRow, Cost!Targets, Cost!Day
<1>4. CheckpointFits' /\ checkpoint'.last = checkpoint.last
  BY <1>1, <1>2 DEF CheckpointFits, IsRange
<1>5. /\ WorkersFit' /\ worker'[w].step # "acquire"
      /\ \A x \in Workers : x # w => worker'[x] = worker[x]
  BY <1>2, EndsStep
<1> QED
  BY <1>1, <1>2, <1>3, <1>4, <1>5, StepStands

\* What the holder of a live lease acquires.
LEMMA HolderAcquires ==
  ASSUME CostInv, NEW w \in Workers, Cost!Returns(w), Cost!Holds(w)
  PROVE  /\ Cost!Target(w) = lease.day /\ lease.day \in Cost!Targets \cup {Cost!Daily}
         /\ worker[w].range = IF lease.day = Cost!Daily THEN checkpoint.pending
                              ELSE Cost!Between(lease.day[2], lease.day[2])
         /\ lease.day # Cost!Daily => lease.day \in Cost!Targets /\ Cost!Day(lease.day).state = "processing"
         /\ lease.day = Cost!Daily => checkpoint.pending.until > checkpoint.last.until
  BY DEF CostInv, Cost!Returns, Cost!Holds, Cost!Target, WorkFits, LeaseFits, ClaimFits

LEMMA FailStep ==
  ASSUME Cost!CostAssumption, CostInv, NEW w \in Workers, NEW transient \in BOOLEAN,
         Cost!Fail(w, transient), NEW c, c = Cost!Target(w)
  PROVE  CostInv'
<1>1. /\ costActive \in BOOLEAN /\ today \in 1..LastDay
      /\ cooling \subseteq Cost!Targets \cup {Cost!Daily}
      /\ BackfillsFit /\ CheckpointFits
  BY DEF CostInv
<1>2. PICK state \in {"retry", "failed"} :
        /\ IF c = Cost!Daily
           THEN checkpoint' = [checkpoint EXCEPT !.state = state] /\ backfills' = backfills
           ELSE /\ backfills' = Cost!SetDay(c, [Cost!Day(c) EXCEPT !.state = state])
                /\ checkpoint' = checkpoint
        /\ cooling' = cooling \cup (IF state = "retry" THEN {c} ELSE {})
        /\ UNCHANGED <<costActive, today, published>> /\ lease' = Cost!Free
        /\ Cost!Returns(w) /\ Cost!Holds(w) /\ worker' = [worker EXCEPT ![w] = Cost!Idle]
  <2>1. ASSUME NEW b \in BOOLEAN
        PROVE  (IF b THEN "retry" ELSE "failed") \in {"retry", "failed"}
    OBVIOUS
  <2> QED
    BY DEF Cost!Fail, Cost!Returns
<1>3. /\ c \in Cost!Targets \cup {Cost!Daily}
      /\ c # Cost!Daily => c \in Cost!Targets /\ Cost!Day(c).state = "processing"
  BY <1>2, HolderAcquires
<1>4. /\ BackfillsFit' /\ Cost!Targets' = Cost!Targets
      /\ \A b \in Cost!Targets : Cost!Day(b).state \in {"failed", "complete"} =>
                            Cost!Day(b)'.state = Cost!Day(b).state
  <2>1. CASE c = Cost!Daily
    BY <1>1, <1>2, <2>1 DEF BackfillsFit, IsBackfill, DayRow, Cost!Targets, Cost!Day
  <2>2. CASE c # Cost!Daily
    <3> DEFINE row == [Cost!Day(c) EXCEPT !.state = state]
    <3>1. row \in DayRow
      BY <1>1, <1>3, <2>2, TargetsOf DEF DayRow, Cost!DayStates
    <3> HIDE DEF row
    <3>2. /\ BackfillsFit' /\ Cost!Targets' = Cost!Targets
          /\ \A b \in Cost!Targets : Cost!Day(b)' = IF b = c THEN row ELSE Cost!Day(b)
      BY <1>1, <1>2, <1>3, <2>2, <3>1, SetDayWrites DEF row
    <3> QED
      BY <1>3, <2>2, <3>2
  <2> QED
    BY <2>1, <2>2
<1>5. CheckpointFits' /\ checkpoint'.last = checkpoint.last
  <2>1. CASE c = Cost!Daily
    BY <1>1, <1>2, <2>1 DEF CheckpointFits, IsRange
  <2>2. CASE c # Cost!Daily
    BY <1>1, <1>2, <2>2 DEF CheckpointFits, IsRange
  <2> QED
    BY <2>1, <2>2
<1>6. /\ WorkersFit' /\ worker'[w].step # "acquire"
      /\ \A x \in Workers : x # w => worker'[x] = worker[x]
  BY <1>2, EndsStep
<1>7. cooling' \subseteq Cost!Targets \cup {Cost!Daily}
  BY <1>1, <1>2, <1>3
<1> QED
  BY <1>1, <1>2, <1>4, <1>5, <1>6, <1>7, StepStands

LEMMA DisableStep ==
  ASSUME Cost!CostAssumption, CostInv, Cost!Disable
  PROVE  CostInv'
<1> DEFINE Ended(d) == IF d.state \in Cost!Open THEN [d EXCEPT !.state = "stopped"] ELSE d
           After(b) == [backfills[b] EXCEPT !.days = [d \in DOMAIN @ |-> Ended(@[d])]]
<1>1. /\ costActive \in BOOLEAN /\ today \in 1..LastDay
      /\ cooling \subseteq Cost!Targets \cup {Cost!Daily}
      /\ BackfillsFit /\ CheckpointFits /\ WorkersFit /\ Cost!None \notin Workers
  BY DEF CostInv, Cost!CostAssumption
<1>2. /\ UNCHANGED <<today, cooling, worker, published>> /\ costActive' = FALSE
      /\ lease' = Cost!Free
      /\ checkpoint' = [checkpoint EXCEPT !.state = "stopped"]
      /\ backfills' = [b \in DOMAIN backfills |-> After(b)]
  BY DEF Cost!Disable
<1>3. ASSUME NEW b \in DOMAIN backfills
      PROVE  /\ IsBackfill(After(b)) /\ DOMAIN After(b).days = DOMAIN backfills[b].days
             /\ \A d \in DOMAIN backfills[b].days :
                  After(b).days[d] = Ended(backfills[b].days[d])
  <2>1. /\ backfills[b] = [days |-> backfills[b].days, refreshed |-> backfills[b].refreshed]
        /\ \A d \in DOMAIN backfills[b].days : backfills[b].days[d] \in DayRow
        /\ DOMAIN backfills[b].days \subseteq 1..LastDay
    BY <1>1 DEF BackfillsFit, IsBackfill
  <2>2. After(b) = [days |-> [d \in DOMAIN backfills[b].days |-> Ended(backfills[b].days[d])],
                    refreshed |-> backfills[b].refreshed]
    BY <2>1
  <2>3. \A d \in DayRow : Ended(d) \in DayRow
    BY DEF DayRow, Cost!DayStates
  <2> HIDE DEF After, Ended
  <2>4. /\ After(b).days = [d \in DOMAIN backfills[b].days |-> Ended(backfills[b].days[d])]
        /\ After(b) = [days |-> After(b).days, refreshed |-> After(b).refreshed]
    BY <2>2
  <2> QED
    BY <2>1, <2>3, <2>4 DEF IsBackfill
<1>4. \E S : backfills' \in Seq(S)
  <2>1. PICK S : backfills \in Seq(S)
    BY <1>1 DEF BackfillsFit
  <2>2. DOMAIN backfills = 1..Len(backfills) /\ Len(backfills) \in Nat
    BY <2>1, LenProperties
  <2> HIDE DEF After
  <2>3. backfills' \in [1..Len(backfills) -> {After(b) : b \in DOMAIN backfills}]
    BY <1>2, <2>2
  <2> QED
    BY <2>2, <2>3, SeqDef
<1> HIDE DEF After, Ended
<1>5. BackfillsFit'
  BY <1>2, <1>3, <1>4 DEF BackfillsFit, IsBackfill, DayRow
<1>6. Cost!Targets' = Cost!Targets
  BY <1>2, <1>3 DEF Cost!Targets
<1>7. \A b \in Cost!Targets : Cost!Day(b).state \in {"failed", "complete"} =>
                         Cost!Day(b)'.state = Cost!Day(b).state
  <2> SUFFICES ASSUME NEW b \in Cost!Targets, Cost!Day(b).state \in {"failed", "complete"}
               PROVE  Cost!Day(b)' = Cost!Day(b)
    OBVIOUS
  <2>1. b[1] \in DOMAIN backfills /\ b[2] \in DOMAIN backfills[b[1]].days
    BY <1>1, TargetsOf
  <2> QED
    BY <1>2, <1>3, <2>1 DEF Cost!Day, Cost!Open, Ended
<1>8. /\ CheckpointFits' /\ checkpoint'.last = checkpoint.last /\ WorkersFit'
      /\ costActive' \in BOOLEAN
  BY <1>1, <1>2 DEF CheckpointFits, IsRange, WorkersFit
<1> QED
  BY <1>1, <1>2, <1>5, <1>6, <1>7, <1>8, StepStands

\* A claim takes the lease for its day or range.
LEMMA ClaimBackfillStep ==
  ASSUME Cost!CostAssumption, CostInv, NEW w \in Workers, NEW c \in Cost!Targets,
         Cost!ClaimBackfill(w, c)
  PROVE  CostInv'
<1> DEFINE row == [state |-> "processing", attempts |-> Cost!Day(c).attempts + 1]
           claim == [step |-> "acquire", target |-> c, range |-> Cost!Between(c[2], c[2]),
                   attempts |-> Cost!Day(c).attempts + 1]
<1>1. /\ costActive \in BOOLEAN /\ today \in 1..LastDay
      /\ cooling \subseteq Cost!Targets \cup {Cost!Daily}
      /\ BackfillsFit /\ CheckpointFits /\ WorkersFit /\ w # Cost!None
      /\ CostAttempts \in Nat
  BY DEF CostInv, Cost!CostAssumption
<1>2. /\ UNCHANGED <<costActive, today, checkpoint, cooling, published>>
      /\ worker' = [worker EXCEPT ![w] = claim]
      /\ lease' = [holder |-> w, live |-> TRUE, day |-> c]
      /\ backfills' = Cost!SetDay(c, row)
      /\ Cost!Day(c).attempts < CostAttempts /\ Cost!Day(c).state \in Cost!Open
  BY DEF Cost!ClaimBackfill, Cost!Claim, Cost!First, Cost!Due
<1>3. row \in DayRow /\ c # Cost!Daily
  <2>1. Cost!Day(c).attempts \in 0..CostAttempts /\ c # Cost!Daily
    BY <1>1, TargetsOf DEF DayRow
  <2> QED
    BY <1>1, <1>2, <2>1 DEF DayRow, Cost!DayStates
<1>4. /\ claim.step = "acquire" /\ claim.target = c /\ claim.range = Cost!Between(c[2], c[2])
      /\ row.state = "processing"
  OBVIOUS
<1> HIDE DEF row, claim
<1>5. /\ BackfillsFit' /\ Cost!Targets' = Cost!Targets
      /\ \A b \in Cost!Targets : Cost!Day(b)' = IF b = c THEN row ELSE Cost!Day(b)
  BY <1>1, <1>2, <1>3, SetDayWrites
<1>6. OldOnesFailed' /\ ImportsFit'
  <2>1. \A b \in Cost!Targets : Cost!Day(b).state \in {"failed", "complete"} =>
                           Cost!Day(b)'.state = Cost!Day(b).state
    BY <1>2, <1>5 DEF Cost!Open
  <2>2. checkpoint.last.until \in Nat /\ checkpoint'.last.until = checkpoint.last.until
    BY <1>1, <1>2 DEF CheckpointFits, IsRange
  <2> QED
    BY <1>2, <1>5, <2>1, <2>2, ImportsStand
<1>7. /\ DOMAIN worker' = Workers /\ worker'[w] = claim
      /\ \A x \in Workers : x # w => worker'[x] = worker[x]
  BY <1>1, <1>2 DEF WorkersFit
<1>8. WorkersFit' /\ CheckpointFits'
  BY <1>1, <1>2, <1>4, <1>7 DEF WorkersFit, CheckpointFits, IsRange
<1>9. lease'.holder = w /\ lease'.live = TRUE /\ lease'.day = c
  BY <1>2
<1>10. LeaseFits'
  BY <1>1, <1>2, <1>5, <1>9 DEF LeaseFits
<1>11. ClaimFits'
  <2>1. Cost!Day(c)'.state = "processing"
    BY <1>4, <1>5
  <2>2. Cost!Day(lease.day)' = Cost!Day(c)'
    BY <1>9 DEF Cost!Day
  <2> QED
    BY <1>3, <1>9, <2>1, <2>2 DEF ClaimFits, Cost!Daily
<1>12. WorkFits'
  BY <1>3, <1>4, <1>7, <1>9 DEF WorkFits, Cost!Daily
<1> QED
  BY <1>1, <1>2, <1>5, <1>6, <1>8, <1>10, <1>11, <1>12 DEF CostInv, Cost!Daily

LEMMA ClaimRefreshStep ==
  ASSUME Cost!CostAssumption, CostInv, NEW w \in Workers, Cost!ClaimRefresh(w)
  PROVE  CostInv'
<1>1. /\ costActive \in BOOLEAN /\ today \in 1..LastDay
      /\ cooling \subseteq Cost!Targets \cup {Cost!Daily}
      /\ BackfillsFit /\ CheckpointFits /\ WorkersFit /\ w # Cost!None
      /\ CostAttempts \in Nat \ {0} /\ LastDay \in Nat
  BY DEF CostInv, Cost!CostAssumption
<1>2. PICK range, attempts :
        /\ range = Cost!NextRange /\ range.until > checkpoint.last.until
        /\ attempts = IF checkpoint.pending # Cost!NoRange THEN checkpoint.attempts + 1 ELSE 1
        /\ checkpoint.pending # Cost!NoRange => checkpoint.attempts < CostAttempts
        /\ checkpoint' = [checkpoint EXCEPT !.state = "processing", !.pending = range,
                            !.attempts = attempts]
        /\ worker' = [worker EXCEPT ![w] = [step |-> "acquire", target |-> Cost!Daily,
                                            range |-> range, attempts |-> attempts]]
        /\ lease' = [holder |-> w, live |-> TRUE, day |-> Cost!Daily]
        /\ UNCHANGED <<costActive, today, backfills, cooling, published>>
  BY DEF Cost!ClaimRefresh, Cost!Claim, Cost!Refreshable
<1>3. IsRange(range) /\ range.until <= today
  <2>1. CASE checkpoint.pending # Cost!NoRange
    BY <1>1, <1>2, <2>1 DEF Cost!NextRange, CheckpointFits
  <2>2. CASE checkpoint.pending = Cost!NoRange
    BY <1>1, <1>2, <2>2 DEF Cost!NextRange, IsRange, Cost!Between
  <2> QED
    BY <2>1, <2>2
<1>4. attempts \in 0..CostAttempts
  BY <1>1, <1>2 DEF CheckpointFits
<1>5. /\ BackfillsFit' /\ Cost!Targets' = Cost!Targets
      /\ \A b \in Cost!Targets : Cost!Day(b)' = Cost!Day(b)
  BY <1>1, <1>2 DEF BackfillsFit, IsBackfill, DayRow, Cost!Targets, Cost!Day
<1>6. /\ checkpoint'.last = checkpoint.last /\ checkpoint'.pending = range
      /\ checkpoint'.state = "processing" /\ checkpoint'.attempts = attempts
      /\ checkpoint' = [state |-> checkpoint'.state, pending |-> checkpoint'.pending,
                        attempts |-> checkpoint'.attempts, last |-> checkpoint'.last]
  BY <1>1, <1>2 DEF CheckpointFits
<1>7. CheckpointFits'
  BY <1>1, <1>2, <1>3, <1>4, <1>6 DEF CheckpointFits, IsRange
<1>8. OldOnesFailed' /\ ImportsFit'
  <2>1. checkpoint.last.until \in Nat
    BY <1>1 DEF CheckpointFits, IsRange
  <2> QED
    BY <1>2, <1>5, <1>6, <2>1, ImportsStand
<1>9. /\ DOMAIN worker' = Workers /\ worker'[w].step = "acquire" /\ worker'[w].range = range
      /\ worker'[w].target = Cost!Daily
      /\ \A x \in Workers : x # w => worker'[x] = worker[x]
  BY <1>1, <1>2 DEF WorkersFit
<1>10. WorkersFit'
  BY <1>1, <1>9 DEF WorkersFit
<1>11. /\ lease'.holder = w /\ lease'.live = TRUE /\ lease'.day = Cost!Daily
       /\ lease' = [holder |-> lease'.holder, live |-> lease'.live, day |-> lease'.day]
  BY <1>2
<1>12. LeaseFits' /\ ClaimFits' /\ WorkFits'
  <2>1. LeaseFits'
    BY <1>1, <1>11 DEF LeaseFits, Cost!Daily
  <2>2. ClaimFits'
    BY <1>2, <1>6, <1>11 DEF ClaimFits, Cost!Daily
  <2>3. WorkFits'
    BY <1>6, <1>9, <1>11 DEF WorkFits, Cost!Daily
  <2> QED
    BY <2>1, <2>2, <2>3
<1> QED
  BY <1>1, <1>2, <1>5, <1>7, <1>8, <1>10, <1>12 DEF CostInv, Cost!Daily

\* A backfill's row, when the daily range is refreshed.
LEMMA RefreshOne ==
  ASSUME NEW r, NEW days, NEW refreshed, r = [days |-> days, refreshed |-> refreshed]
  PROVE  [r EXCEPT !.refreshed = TRUE] = [days |-> days, refreshed |-> TRUE]
<1> DEFINE yes == TRUE
<1>1. [[days |-> days, refreshed |-> refreshed] EXCEPT !.refreshed = yes]
      = [days |-> days, refreshed |-> yes]
  <2> HIDE DEF yes
  <2> QED
    OBVIOUS
<1> QED
  BY <1>1, Zenon

LEMMA CompleteStep ==
  ASSUME Cost!CostAssumption, CostInv, NEW w \in Workers, Cost!Complete(w), NEW c,
         c = Cost!Target(w),
         NEW x, x = <<c, worker[w].range>>
  PROVE  CostInv'
<1>1. /\ costActive \in BOOLEAN /\ today \in 1..LastDay
      /\ cooling \subseteq Cost!Targets \cup {Cost!Daily}
      /\ BackfillsFit /\ CheckpointFits /\ WorkersFit /\ ImportsFit /\ OldOnesFailed
      /\ CostAttempts \in Nat
  BY DEF CostInv, Cost!CostAssumption
<1>2. /\ UNCHANGED <<costActive, today, cooling>> /\ lease' = Cost!Free
      /\ published' = Cost!(+)(published, Cost!SetToBag({x}))
      /\ worker' = [worker EXCEPT ![w] = Cost!Idle] /\ Cost!Returns(w) /\ Cost!Holds(w)
  BY DEF Cost!Complete, Cost!Returns
<1>3. /\ c = lease.day /\ c \in Cost!Targets \cup {Cost!Daily}
      /\ worker[w].range = IF c = Cost!Daily THEN checkpoint.pending ELSE Cost!Between(c[2], c[2])
      /\ c # Cost!Daily => c \in Cost!Targets /\ Cost!Day(c).state = "processing"
      /\ c = Cost!Daily => checkpoint.pending.until > checkpoint.last.until
  BY <1>2, HolderAcquires
<1>4. IsRange(checkpoint.pending) /\ IsRange(checkpoint.last)
  BY <1>1 DEF CheckpointFits
<1>5. x \notin DOMAIN published
  <2> SUFFICES ASSUME x \in DOMAIN published
               PROVE  FALSE
    OBVIOUS
  <2>1. Imported(x) /\ x[1] = c /\ x[2] = worker[w].range
    BY <1>1 DEF ImportsFit
  <2>2. CASE c = Cost!Daily
    BY <1>3, <1>4, <2>1, <2>2 DEF Imported, IsRange
  <2>3. CASE c # Cost!Daily
    BY <1>3, <2>1, <2>3 DEF Imported
  <2> QED
    BY <2>2, <2>3
<1>6. /\ DOMAIN published' = DOMAIN published \cup {x}
      /\ \A y \in DOMAIN published' : published'[y] = 1
  <2>1. \A y \in DOMAIN published : published[y] = 1
    BY <1>1 DEF ImportsFit, Imported
  <2> DEFINE p == Cost!(+)(published, Cost!SetToBag({x}))
  <2>2. DOMAIN p = DOMAIN published \cup {x} /\ \A y \in DOMAIN p : p[y] = 1
    BY <1>5, <2>1 DEF Cost!(+), Cost!SetToBag, Cost!BagIn, Cost!BagToSet
  <2> QED
    BY <1>2, <2>2
<1>7. /\ WorkersFit' /\ worker'[w].step # "acquire"
      /\ \A v \in Workers : v # w => worker'[v] = worker[v]
  BY <1>2, EndsStep
<1>8. LeaseFits' /\ ClaimFits' /\ WorkFits'
  <2>1. LeaseFits' /\ ~lease'.live
    BY <1>2 DEF LeaseFits, Cost!Free, Cost!Daily
  <2> QED
    BY <2>1 DEF ClaimFits, WorkFits
<1>9. ASSUME NEW y \in DOMAIN published, Cost!Targets' = Cost!Targets,
             checkpoint'.last.until \in Nat, checkpoint.last.until <= checkpoint'.last.until,
             \A b \in Cost!Targets : Cost!Day(b).state = "complete" => Cost!Day(b)'.state = "complete"
      PROVE  Imported(y)'
  <2>1. Imported(y)
    BY <1>1 DEF ImportsFit
  <2>2. published'[y] = 1 /\ checkpoint.last.until \in Nat
    BY <1>4, <1>6 DEF IsRange
  <2>3. y[1] = Cost!Daily => y[2].until \in Nat /\ y[2].until <= checkpoint'.last.until
    BY <1>9, <2>1, <2>2 DEF Imported
  <2>4. y[1] # Cost!Daily => /\ y[1] \in Cost!Targets' /\ Cost!Day(y[1])'.state = "complete"
                        /\ y[2] = Cost!Between(y[1][2], y[1][2])
    BY <1>9, <2>1 DEF Imported
  <2> QED
    BY <2>1, <2>2, <2>3, <2>4 DEF Imported
<1>10. CASE c = Cost!Daily
  <2> DEFINE Refreshed(b) == [backfills[b] EXCEPT !.refreshed = TRUE]
  <2>1. /\ checkpoint' = [state |-> "idle", pending |-> Cost!NoRange, attempts |-> 0,
                          last |-> checkpoint.pending]
        /\ backfills' = [b \in DOMAIN backfills |-> Refreshed(b)]
    BY <1>3, <1>10 DEF Cost!Complete
  <2>2. \A b \in DOMAIN backfills :
          /\ Refreshed(b).days = backfills[b].days
          /\ Refreshed(b) = [days |-> Refreshed(b).days, refreshed |-> Refreshed(b).refreshed]
    <3> SUFFICES ASSUME NEW b \in DOMAIN backfills
                 PROVE  /\ Refreshed(b).days = backfills[b].days
                        /\ Refreshed(b) = [days |-> Refreshed(b).days,
                                            refreshed |-> Refreshed(b).refreshed]
      OBVIOUS
    <3>0. IsBackfill(backfills[b])
      BY <1>1 DEF BackfillsFit
    <3>1. PICK days, refreshed : backfills[b] = [days |-> days, refreshed |-> refreshed]
      BY <3>0 DEF IsBackfill
    <3>2. [backfills[b] EXCEPT !.refreshed = TRUE] = [days |-> days, refreshed |-> TRUE]
      BY <3>1, RefreshOne
    <3> QED
      BY <3>1, <3>2
  <2>3. \E S : backfills' \in Seq(S)
    <3>1. PICK S : backfills \in Seq(S)
      BY <1>1 DEF BackfillsFit
    <3>2. DOMAIN backfills = 1..Len(backfills) /\ Len(backfills) \in Nat
      BY <3>1, LenProperties
    <3> HIDE DEF Refreshed
    <3>3. backfills' \in [1..Len(backfills) -> {Refreshed(b) : b \in DOMAIN backfills}]
      BY <2>1, <3>2
    <3> QED
      BY <3>2, <3>3, SeqDef
  <2> HIDE DEF Refreshed
  <2>4. BackfillsFit'
    <3>1. \A b \in DOMAIN backfills : IsBackfill(backfills'[b])
      BY <1>1, <2>1, <2>2 DEF BackfillsFit, IsBackfill
    <3> QED
      BY <2>1, <2>3, <3>1 DEF BackfillsFit, IsBackfill, DayRow
  <2>5. Cost!Targets' = Cost!Targets
    BY <2>1, <2>2 DEF Cost!Targets
  <2>6. \A b \in Cost!Targets : Cost!Day(b)' = Cost!Day(b)
    <3> SUFFICES ASSUME NEW b \in Cost!Targets
                 PROVE  Cost!Day(b)' = Cost!Day(b)
      OBVIOUS
    <3>1. b[1] \in DOMAIN backfills
      BY <1>1, TargetsOf
    <3> QED
      BY <2>1, <2>2, <3>1 DEF Cost!Day
  <2>7. checkpoint'.last = checkpoint.pending /\ checkpoint'.pending = Cost!NoRange
    BY <2>1
  <2>8. CheckpointFits'
    <3>1. IsRange(Cost!NoRange)
      BY DEF Cost!NoRange, IsRange, Cost!Between
    <3> QED
      BY <1>1, <1>4, <2>1, <2>7, <3>1 DEF CheckpointFits, IsRange
  <2>9. OldOnesFailed'
    BY <1>1, <2>5, <2>6 DEF OldOnesFailed
  <2>10. /\ checkpoint'.last.until \in Nat /\ checkpoint.last.until <= checkpoint'.last.until
         /\ checkpoint.last.until < checkpoint'.last.until
    BY <1>3, <1>4, <1>10, <2>7 DEF IsRange
  <2>11. Imported(x)'
    <3>1. x[1] = Cost!Daily /\ x = <<x[1], x[2]>> /\ x[2] = checkpoint.pending
      BY <1>3, <1>10
    <3>2. published'[x] = 1 /\ x[2].until \in Nat /\ x[2].until <= checkpoint'.last.until
      BY <1>4, <1>6, <2>7, <3>1 DEF IsRange
    <3> QED
      BY <3>1, <3>2 DEF Imported
  <2>12. ImportsFit'
    <3>1. \A y \in DOMAIN published : Imported(y)'
      BY <1>9, <2>5, <2>6, <2>10
    <3>2. \A y \in DOMAIN published : y[1] = Cost!Daily => y[2].until # x[2].until
      <4> SUFFICES ASSUME NEW y \in DOMAIN published, y[1] = Cost!Daily
                   PROVE  y[2].until # x[2].until
        OBVIOUS
      <4>1. y[2].until \in Nat /\ y[2].until <= checkpoint.last.until
        BY <1>1 DEF ImportsFit, Imported
      <4>2. x[2].until = checkpoint'.last.until /\ checkpoint.last.until \in Nat
        BY <1>3, <1>4, <1>10, <2>7 DEF IsRange
      <4> QED
        BY <2>10, <4>1, <4>2
    <3> QED
      BY <1>1, <1>6, <2>11, <3>1, <3>2 DEF ImportsFit
  <2> QED
    BY <1>1, <1>2, <1>7, <1>8, <2>4, <2>5, <2>8, <2>9, <2>12 DEF CostInv, Cost!Daily
<1>11. CASE c # Cost!Daily
  <2> DEFINE row == [Cost!Day(c) EXCEPT !.state = "complete"]
  <2>1. c \in Cost!Targets /\ Cost!Day(c).state = "processing"
    BY <1>3, <1>11
  <2>2. backfills' = Cost!SetDay(c, row) /\ checkpoint' = checkpoint
    BY <1>11 DEF Cost!Complete
  <2>3. row \in DayRow /\ row.state = "complete"
    BY <1>1, <2>1, TargetsOf DEF DayRow, Cost!DayStates
  <2> HIDE DEF row
  <2>4. /\ BackfillsFit' /\ Cost!Targets' = Cost!Targets
        /\ \A b \in Cost!Targets : Cost!Day(b)' = IF b = c THEN row ELSE Cost!Day(b)
    BY <1>1, <2>1, <2>2, <2>3, SetDayWrites
  <2>5. CheckpointFits'
    BY <1>1, <1>2, <2>2 DEF CheckpointFits, IsRange
  <2>6. OldOnesFailed'
    BY <1>1, <2>1, <2>4 DEF OldOnesFailed
  <2>7. checkpoint'.last.until \in Nat /\ checkpoint.last.until <= checkpoint'.last.until
    BY <1>4, <2>2 DEF IsRange
  <2>8. Imported(x)'
    BY <1>3, <1>6, <1>11, <2>1, <2>3, <2>4 DEF Imported, Cost!Daily
  <2>9. ImportsFit'
    <3>1. \A y \in DOMAIN published : Imported(y)'
      BY <1>9, <2>1, <2>3, <2>4, <2>7
    <3>2. x[1] # Cost!Daily
      BY <1>11
    <3> QED
      BY <1>1, <1>6, <2>8, <3>1, <3>2 DEF ImportsFit, Cost!Daily
  <2> QED
    BY <1>1, <1>2, <1>7, <1>8, <2>4, <2>5, <2>6, <2>9 DEF CostInv, Cost!Daily
<1> QED
  BY <1>10, <1>11

\* A date is planned again when the newest row for it has failed, and the one
\* before that had.
LEMMA ConfirmStep ==
  ASSUME Cost!CostAssumption, CostInv, NEW dates \in SUBSET (1..today),
         NEW retried \in 0..Len(backfills), NEW refreshed \in BOOLEAN,
         Cost!Confirm(dates, retried, refreshed)
  PROVE  CostInv'
<1> DEFINE new == [days |-> [d \in dates |-> [state |-> "queued", attempts |-> 0]],
                   refreshed |-> refreshed]
           n == Len(backfills)
<1>1. /\ costActive \in BOOLEAN /\ today \in 1..LastDay
      /\ cooling \subseteq Cost!Targets \cup {Cost!Daily}
      /\ BackfillsFit /\ CheckpointFits /\ WorkersFit /\ ImportsFit /\ OldOnesFailed
      /\ LeaseFits /\ ClaimFits /\ WorkFits
      /\ CostAttempts \in Nat /\ LastDay \in Nat
  BY DEF CostInv, Cost!CostAssumption
<1>2. /\ backfills' = Append(backfills, new) /\ \A d \in dates : Cost!Eligible(d)
      /\ UNCHANGED <<costActive, today, checkpoint, lease, cooling, worker, published>>
  BY DEF Cost!Confirm
<1>3. IsBackfill(new) /\ new.days = [d \in dates |-> [state |-> "queued", attempts |-> 0]]
  <2>1. [state |-> "queued", attempts |-> 0] \in DayRow
    BY <1>1 DEF DayRow, Cost!DayStates
  <2>2. dates \subseteq 1..LastDay
    BY <1>1
  <2> QED
    BY <2>1, <2>2 DEF IsBackfill
<1> HIDE DEF new
<1>4. /\ n \in Nat /\ DOMAIN backfills = 1..n /\ DOMAIN backfills' = 1..(n + 1)
      /\ \A b \in 1..n : backfills'[b] = backfills[b]
      /\ backfills'[n + 1] = new /\ \E S : backfills' \in Seq(S)
  <2>1. PICK S : backfills \in Seq(S)
    BY <1>1 DEF BackfillsFit
  <2>2. backfills \in Seq(S \cup {new}) /\ new \in S \cup {new}
    BY <2>1
  <2>3. /\ backfills' \in Seq(S \cup {new}) /\ Len(backfills') = n + 1
        /\ \A b \in 1..n : backfills'[b] = backfills[b]
        /\ backfills'[n + 1] = new
    BY <1>2, <2>2, AppendProperties
  <2>4. DOMAIN backfills = 1..n /\ n \in Nat /\ DOMAIN backfills' = 1..Len(backfills')
    BY <2>2, <2>3, LenProperties
  <2> QED
    BY <2>3, <2>4
<1>5. BackfillsFit'
  <2>1. \A b \in DOMAIN backfills' : IsBackfill(backfills'[b])
    <3> SUFFICES ASSUME NEW b \in DOMAIN backfills'
                 PROVE  IsBackfill(backfills'[b])
      OBVIOUS
    <3>1. b \in 1..n \/ b = n + 1
      BY <1>4
    <3> QED
      BY <1>1, <1>3, <1>4, <3>1 DEF BackfillsFit
  <2> QED
    BY <1>4, <2>1 DEF BackfillsFit, IsBackfill, DayRow
<1> HIDE DEF n
<1>6. /\ Cost!Targets \subseteq Cost!Targets'
      /\ \A b \in Cost!Targets : b[1] \in 1..n /\ b[1] \in Nat /\ Cost!Day(b)' = Cost!Day(b)
      /\ \A b \in Cost!Targets' \ Cost!Targets : b[1] = n + 1 /\ b[2] \in dates
  <2>1. ASSUME NEW b \in Cost!Targets
        PROVE  /\ b[1] \in 1..n /\ b[1] \in Nat
               /\ Cost!Day(b)' = Cost!Day(b) /\ b \in Cost!Targets'
    <3>1. b[1] \in 1..n /\ b[1] \in Nat /\ b \in (1..n) \X (1..LastDay)
          /\ b[2] \in DOMAIN backfills[b[1]].days
      BY <1>4 DEF Cost!Targets
    <3>2. backfills'[b[1]] = backfills[b[1]] /\ b[1] \in 1..(n + 1)
      BY <1>4, <3>1
    <3> QED
      BY <1>4, <3>1, <3>2 DEF Cost!Targets, Cost!Day
  <2>2. ASSUME NEW b \in Cost!Targets' \ Cost!Targets
        PROVE  b[1] = n + 1 /\ b[2] \in dates
    <3>1. b \in (1..(n + 1)) \X (1..LastDay) /\ b[2] \in DOMAIN backfills'[b[1]].days
      BY <1>4 DEF Cost!Targets
    <3>2. b[1] \notin 1..n
      BY <1>4, <3>1 DEF Cost!Targets
    <3>3. b[1] = n + 1
      BY <1>4, <3>1, <3>2
    <3> QED
      BY <1>3, <1>4, <3>1, <3>3
  <2> QED
    BY <2>1, <2>2
<1>7. ASSUME NEW b \in Cost!Targets, b[2] \in dates
      PROVE  Cost!Day(b).state = "failed"
  <2> DEFINE d == b[2]
             Rows == {c[1] : c \in {e \in Cost!Targets : e[2] = d}}
  <2>1. Rows \subseteq 1..n /\ Rows \in SUBSET Nat /\ b[1] \in Rows /\ Rows # {}
    BY <1>6
  <2>2. IsFiniteSet(Rows)
    <3>1. 1 \in Int /\ n \in Int
      BY <1>4
    <3>2. IsFiniteSet(1..n)
      BY <3>1, FS_Interval
    <3> QED
      BY <2>1, <3>2, FS_Subset
  <2>3. Cost!Max(Rows) \in Rows /\ \A r \in Rows : r <= Cost!Max(Rows)
    BY <2>1, <2>2, CostGreatest
  <2>4. PICK m \in Cost!Targets : m[2] = d /\ \A c \in Cost!Targets : c[2] = d => c[1] <= m[1]
    BY <2>3
  <2>5. m \in Cost!Newest(d)
    BY <2>4 DEF Cost!Newest
  <2>6. Cost!Day(m).state = "failed"
    BY <1>2, <1>7, <2>5 DEF Cost!Eligible
  <2>7. CASE b[1] = m[1]
    <3>1. b = <<b[1], b[2]>> /\ m = <<m[1], m[2]>>
      BY <1>1, TargetsOf
    <3> QED
      BY <2>4, <2>6, <2>7, <3>1
  <2>8. CASE b[1] # m[1]
    <3>1. b[1] < m[1]
      BY <1>6, <2>4, <2>8
    <3> QED
      BY <1>1, <2>4, <3>1 DEF OldOnesFailed
  <2> QED
    BY <2>7, <2>8
<1>8. OldOnesFailed'
  <2> SUFFICES ASSUME NEW b \in Cost!Targets', NEW c \in Cost!Targets', b[2] = c[2], b[1] < c[1]
               PROVE  Cost!Day(b)'.state = "failed"
    BY DEF OldOnesFailed
  <2>1. CASE c \in Cost!Targets
    <3>1. b \in Cost!Targets
      BY <1>4, <1>6, <2>1
    <3> QED
      BY <1>1, <1>6, <2>1, <3>1 DEF OldOnesFailed
  <2>2. CASE c \notin Cost!Targets
    <3>1. c[1] = n + 1 /\ c[2] \in dates
      BY <1>6, <2>2
    <3>2. b \in Cost!Targets
      BY <1>4, <1>6, <3>1
    <3> QED
      BY <1>6, <1>7, <3>1, <3>2
  <2> QED
    BY <2>1, <2>2
<1>9. ImportsFit'
  <2>1. ASSUME NEW x \in DOMAIN published
        PROVE  Imported(x)'
    <3>1. Imported(x)
      BY <1>1 DEF ImportsFit
    <3>2. x[1] # Cost!Daily => x[1] \in Cost!Targets' /\ Cost!Day(x[1])'.state = "complete"
      BY <1>6, <3>1 DEF Imported
    <3> QED
      BY <1>2, <3>1, <3>2 DEF Imported
  <2> QED
    BY <1>1, <1>2, <2>1 DEF ImportsFit
<1>10. LeaseFits' /\ WorkFits' /\ CheckpointFits' /\ WorkersFit'
  BY <1>1, <1>2, <1>6 DEF LeaseFits, WorkFits, CheckpointFits, IsRange, WorkersFit
<1>11. ClaimFits'
  <2>1. PICK e : e = lease.day
    OBVIOUS
  <2>2. lease'.day = e /\ lease'.live = lease.live /\ checkpoint' = checkpoint
    BY <1>2, <2>1
  <2>3. lease.live /\ e # Cost!Daily => e \in Cost!Targets /\ Cost!Day(e).state = "processing"
    BY <1>1, <2>1 DEF ClaimFits, LeaseFits
  <2>4. lease.live /\ e # Cost!Daily => Cost!Day(e)'.state = "processing"
    BY <1>6, <2>3
  <2>5. (lease.live /\ lease.day # Cost!Daily => Cost!Day(lease.day).state = "processing")'
    BY <2>2, <2>4 DEF Cost!Day
  <2> QED
    BY <1>1, <1>2, <2>2, <2>5 DEF ClaimFits
<1> QED
  BY <1>1, <1>2, <1>5, <1>6, <1>8, <1>9, <1>10, <1>11 DEF CostInv

LEMMA CostInit == ASSUME Cost!CostAssumption, Cost!Init PROVE CostInv
<1>1. /\ backfills = <<>> /\ DOMAIN backfills = {} /\ Cost!Targets = {}
      /\ \E S : backfills \in Seq(S)
  BY EmptySeq DEF Cost!Init, Cost!Targets
<1>2. /\ worker = [w \in Workers |-> Cost!Idle] /\ Cost!Idle.step = "idle"
      /\ lease = Cost!Free /\ Cost!Free.live = FALSE /\ Cost!Free.holder = Cost!None
      /\ Cost!Free.day = Cost!Daily
      /\ Cost!Free = [holder |-> Cost!Free.holder, live |-> Cost!Free.live, day |-> Cost!Free.day]
  BY DEF Cost!Init, Cost!Idle, Cost!Free, Cost!Daily
<1>3. BackfillsFit /\ WorkersFit
  BY <1>1, <1>2 DEF BackfillsFit, WorkersFit
<1>4. IsRange(Cost!NoRange)
  BY DEF IsRange, Cost!NoRange, Cost!Between
<1>5. CheckpointFits
  BY <1>4 DEF Cost!Init, CheckpointFits, Cost!CostAssumption
<1>6. LeaseFits /\ ClaimFits /\ WorkFits
  BY <1>2 DEF LeaseFits, ClaimFits, WorkFits
<1>7. DOMAIN published = {}
  BY DEF Cost!Init, Cost!EmptyBag, Cost!SetToBag
<1>8. OldOnesFailed /\ ImportsFit
  BY <1>1, <1>7 DEF OldOnesFailed, ImportsFit
<1>9. /\ costActive \in BOOLEAN /\ today \in 1..LastDay
      /\ cooling \subseteq Cost!Targets \cup {Cost!Daily}
  BY DEF Cost!Init, Cost!CostAssumption
<1> QED
  BY <1>3, <1>5, <1>6, <1>8, <1>9 DEF CostInv

LEMMA CostNext == ASSUME Cost!CostAssumption, CostInv, [Cost!Next]_(Cost!vars) PROVE CostInv'
<1>1. CASE UNCHANGED Cost!vars
  BY <1>1 DEF Cost!vars, CostInv, BackfillsFit, IsBackfill, DayRow, CheckpointFits, IsRange,
              WorkersFit, LeaseFits, ClaimFits, WorkFits, OldOnesFailed, ImportsFit, Imported,
              Cost!Targets, Cost!Day
<1>2. ASSUME NEW w \in Workers, NEW c \in Cost!Targets,
             Cost!ClaimBackfill(w, c) \/ Cost!EndDay(w, c)
      PROVE  CostInv'
  BY <1>2, ClaimBackfillStep, EndDayStep
<1>3. ASSUME NEW w \in Workers, Cost!ClaimRefresh(w) \/ Cost!NoRefresh(w) \/ Cost!Complete(w)
      PROVE  CostInv'
  BY <1>3, ClaimRefreshStep, NoRefreshStep, CompleteStep
<1>4. ASSUME NEW w \in Workers, NEW transient \in BOOLEAN, Cost!Fail(w, transient)
      PROVE  CostInv'
  BY <1>4, FailStep
<1>5. ASSUME \/ Cost!Expire \/ Cost!NextDay \/ \E c \in cooling : Cost!Cool(c)
             \/ \E w \in Workers : Cost!NoBackfill(w) \/ Cost!Abandon(w)
      PROVE  CostInv'
  BY <1>5, QuietStep
<1>6. ASSUME NEW dates \in SUBSET (1..today), NEW retried \in 0..Len(backfills),
             NEW refreshed \in BOOLEAN, Cost!Confirm(dates, retried, refreshed)
      PROVE  CostInv'
  BY <1>6, ConfirmStep
<1>7. CASE Cost!Disable
  BY <1>7, DisableStep
<1> QED
  BY <1>1, <1>2, <1>3, <1>4, <1>5, <1>6, <1>7 DEF Cost!Next, Cost!Step

\* No date is imported twice by backfills, and no daily range ends twice on the
\* same day, however the claims overlap, expire and are tried again.
THEOREM CostsArePublishedOnce ==
  ASSUME Cost!CostAssumption
  PROVE  Cost!Spec => []PublishedOnce
<1>1. CostInv => Cost!TypeOK
  <2> SUFFICES ASSUME CostInv
               PROVE  Cost!TypeOK
    OBVIOUS
  <2>1. \A c \in Cost!Targets :
          Cost!Day(c).state \in Cost!DayStates /\ Cost!Day(c).attempts \in 0..CostAttempts
    BY TargetsOf DEF CostInv, DayRow
  <2> QED
    BY <2>1 DEF CostInv, Cost!TypeOK, CheckpointFits, WorkersFit, LeaseFits
<1>2. CostInv => Cost!PublishedOnce
  <2> SUFFICES ASSUME CostInv, NEW x \in DOMAIN published, NEW y \in DOMAIN published,
                      x[1] = Cost!Daily <=> y[1] = Cost!Daily, x[2].until = y[2].until
               PROVE  x = y /\ published[x] = 1
    BY DEF Cost!PublishedOnce, Cost!BagToSet
  <2>1. Imported(x) /\ Imported(y)
    BY DEF CostInv, ImportsFit
  <2>2. CASE x[1] = Cost!Daily
    BY <2>1, <2>2 DEF CostInv, ImportsFit, Imported
  <2>3. CASE x[1] # Cost!Daily
    <3>1. /\ x[1] \in Cost!Targets /\ y[1] \in Cost!Targets /\ x[1][2] = y[1][2]
          /\ Cost!Day(x[1]).state = "complete" /\ Cost!Day(y[1]).state = "complete"
      BY <2>1, <2>3 DEF Imported, Cost!Between
    <3>2. ~(x[1][1] < y[1][1]) /\ ~(y[1][1] < x[1][1])
      BY <3>1 DEF CostInv, OldOnesFailed
    <3>3. /\ x[1][1] \in Nat /\ y[1][1] \in Nat
          /\ x[1] = <<x[1][1], x[1][2]>> /\ y[1] = <<y[1][1], y[1][2]>>
      <4>1. \E S : backfills \in Seq(S)
        BY DEF CostInv, BackfillsFit
      <4>2. Len(backfills) \in Nat
        BY <4>1, LenProperties
      <4> QED
        BY <3>1, <4>2, TargetsOf DEF CostInv
    <3>4. x[1] = y[1] /\ x[2] = y[2]
      BY <2>1, <2>3, <3>1, <3>2, <3>3 DEF Imported
    <3> QED
      BY <2>1, <3>4 DEF Imported
  <2> QED
    BY <2>2, <2>3
<1>3. CostInv => PublishedOnce
  BY <1>1, <1>2 DEF PublishedOnce
<1> QED
  BY <1>3, CostInit, CostNext, PTL DEF Cost!Spec

-----------------------------------------------------------------------------
(* The other jobs of WorkerJobs: what BulkExport_proofs and                *)
(* GoogleConversion_proofs show, of the jobs as they are composed there.   *)

\* Neither a webhook nor an export sends an event of a subject whose deletion is
\* recognized: both recognize under the locks that a request holds.
THEOREM JobsKeepInside ==
  ASSUME WebhookAssumption, Bulk!BulkAssumption
  PROVE  Spec /\ Bulk!Spec => []NothingLeaves
<1>1. Spec => []TypeOK
  BY WebhookTypes
<1>2. Spec => []NothingLeavesAfterRecognition
  <2>1. KeysAreDistinct
    BY DEF WebhookAssumption
  <2> QED
    BY <2>1, NoRequestAfterRecognition
<1>3. Bulk!Spec => []Bulk!TypeOK
  BY Bulk!BulkTypes
<1>4. Bulk!Spec => []Bulk!NothingLeaves
  BY Bulk!ExportKeepsInside
<1>5. TypeOK /\ NothingLeavesAfterRecognition /\ Bulk!TypeOK /\ Bulk!NothingLeaves
        => NothingLeaves
  BY DEF NothingLeaves
<1> QED
  BY <1>1, <1>2, <1>3, <1>4, <1>5, PTL

\* The storage has what the cursor of an export has passed, whatever attempts
\* failed, died or landed late.
THEOREM ExportsAreStored ==
  ASSUME Bulk!BulkAssumption
  PROVE  Bulk!Spec => []PassedIsStored
BY Bulk!CheckpointFollowsStorage, PTL DEF PassedIsStored

\* A conversion has one history in the outbox and the ledger, and its bodies
\* follow its row (processGoogleConversionDeliveries).
THEOREM ConversionsAreAccountedFor ==
  ASSUME Google!OutboxAssumption
  PROVE  Google!Spec => []RowsAreAccountedFor
<1>1. Google!Spec => [](Google!TypeOK /\ Google!RowsAreAccountedFor)
  BY Google!OutboxIsAccountedFor
<1>2. Google!TypeOK /\ Google!RowsAreAccountedFor => RowsAreAccountedFor
  BY DEF RowsAreAccountedFor
<1> QED
  BY <1>1, <1>2, PTL
=============================================================================
