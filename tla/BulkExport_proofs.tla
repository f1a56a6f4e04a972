------------------------- MODULE BulkExport_proofs -------------------------
(* No request goes out with an event of a subject whose deletion is recognized, *)
(* for any order of events, any subjects and any bound.                         *)
(*                                                                              *)
(* The property speaks of the request that is out only.  What makes it          *)
(* inductive is that nothing pending holds an event of a deleted subject: a     *)
(* recognition suppresses all that is pending, and a batch is discovered from   *)
(* its read to its insert with the lock that the recognition waits for.         *)
(*                                                                              *)
(* And the storage holds what the checkpoint has passed, by what a batch covers *)
(* from its discovery on; at the end, types.                                    *)
EXTENDS BulkExport, FiniteSetTheorems, TLAPS

\* The fields the argument reads are there.
HasFields(b) == {"events", "before", "after", "state"} \subseteq DOMAIN b

BatchesOK ==
  /\ \E S : batches \in Seq(S)
  /\ \A i \in DOMAIN batches : HasFields(batches[i])

PendingClean == \A i \in Pending : \A s \in withdrawn : ~Holds(i, s)

TxClean ==
  /\ tx = NoTx \/ tx.kind \in {"discover", "send"}
  /\ tx.kind = "discover" =>
       /\ HasFields(tx.batch)
       /\ tx.batch.state \in {"queued", "retry"}
       /\ \A e \in tx.batch.events : SubjectOf[e] \notin withdrawn
  /\ tx.kind = "send" => tx.batch \in Pending

IInv == BatchesOK /\ PendingClean /\ TxClean

-----------------------------------------------------------------------------
\* A batch appended, and a batch rewritten at its place, leave a sequence.
LEMMA AppendKeeps ==
  ASSUME BatchesOK, NEW b, HasFields(b), batches' = Append(batches, b)
  PROVE  /\ BatchesOK'
         /\ DOMAIN batches' = DOMAIN batches \cup {Len(batches) + 1}
         /\ \A i \in DOMAIN batches : batches'[i] = batches[i]
         /\ batches'[Len(batches) + 1] = b
<1>1. PICK S : batches \in Seq(S)
  BY DEF BatchesOK
<1>2. batches \in Seq(S \cup {b}) /\ b \in S \cup {b}
  BY <1>1
<1>3. batches' \in Seq(S \cup {b})
  BY <1>2
<1>4. /\ DOMAIN batches' = DOMAIN batches \cup {Len(batches) + 1}
      /\ \A i \in DOMAIN batches : batches'[i] = batches[i]
      /\ batches'[Len(batches) + 1] = b
  BY <1>2
<1> QED
  BY <1>3, <1>4 DEF BatchesOK

LEMMA RewriteKeeps ==
  ASSUME BatchesOK,
         batches' = [i \in DOMAIN batches |-> batches'[i]],
         \A i \in DOMAIN batches : HasFields(batches'[i])
  PROVE  BatchesOK' /\ DOMAIN batches' = DOMAIN batches
<1>1. PICK S : batches \in Seq(S)
  BY DEF BatchesOK
<1> DEFINE T == {batches'[i] : i \in DOMAIN batches}
<1>2. DOMAIN batches = 1..Len(batches) /\ Len(batches) \in Nat
  BY <1>1
<1>3. DOMAIN batches' = 1..Len(batches)
  BY <1>2
<1>4. batches' \in [1..Len(batches) -> T]
  BY <1>2
<1>5. batches' \in Seq(T)
  BY <1>2, <1>4
<1> QED
  BY <1>3, <1>2, <1>5 DEF BatchesOK

\* A rewriting that keeps the events and makes nothing pending leaves what is
\* pending clean.
LEMMA FewerPendingStayClean ==
  ASSUME BatchesOK, PendingClean, withdrawn' = withdrawn,
         batches' = [i \in DOMAIN batches |-> batches'[i]],
         \A i \in DOMAIN batches :
           /\ HasFields(batches'[i])
           /\ batches'[i].events = batches[i].events
           /\ batches'[i].state \in {"queued", "retry"} => i \in Pending
  PROVE  BatchesOK' /\ PendingClean'
<1>1. BatchesOK' /\ DOMAIN batches' = DOMAIN batches
  BY RewriteKeeps
<1>2. \A i \in Pending' : i \in DOMAIN batches /\ i \in Pending
  BY <1>1 DEF Pending
<1> QED
  BY <1>1, <1>2 DEF PendingClean, Holds

\* One batch settled: its events stay, and it is pending again only if it was.
LEMMA SettleKeeps ==
  ASSUME BatchesOK, PendingClean, withdrawn' = withdrawn,
         NEW i, NEW b, HasFields(b),
         i \in DOMAIN batches => b.events = batches[i].events,
         b.state \in {"queued", "retry"} => i \in Pending,
         batches' = [batches EXCEPT ![i] = b]
  PROVE  BatchesOK' /\ PendingClean'
<1>1. PICK S : batches \in Seq(S)
  BY DEF BatchesOK
<1>2. /\ batches' = [j \in DOMAIN batches |-> batches'[j]]
      /\ \A j \in DOMAIN batches :
           batches'[j] = IF j = i THEN b ELSE batches[j]
  BY <1>1
<1> QED
  BY <1>2, FewerPendingStayClean DEF BatchesOK, Pending

\* What an attempt, and a purge, leave of a batch.
LEMMA AttemptedKeeps ==
  ASSUME NEW b, HasFields(b), NEW state
  PROVE  /\ HasFields(Attempted(b, state))
         /\ Attempted(b, state).events = b.events
         /\ Attempted(b, state).before = b.before
         /\ Attempted(b, state).after = b.after
         /\ Attempted(b, state).state = state
BY DEF HasFields, Attempted

LEMMA PurgedKeeps ==
  ASSUME NEW b, HasFields(b), NEW heard
  PROVE  /\ HasFields(Purged(b, heard))
         /\ Purged(b, heard).events = b.events
         /\ Purged(b, heard).before = b.before
         /\ Purged(b, heard).after = b.after
         /\ Purged(b, heard).state = b.state
BY DEF HasFields, Purged

\* After a suppression nothing is pending.
LEMMA SuppressedIsNotPending ==
  ASSUME BatchesOK, NEW heard, batches' = Suppressed(heard)
  PROVE  BatchesOK' /\ Pending' = {}
<1>1. /\ batches' = [i \in DOMAIN batches |-> batches'[i]]
      /\ \A i \in DOMAIN batches :
           batches'[i] = IF i \in Pending
             THEN Purged([batches[i] EXCEPT !.state = "suppressed"], heard)
             ELSE batches[i]
  BY DEF Suppressed
<1>2. ASSUME NEW i \in DOMAIN batches
      PROVE  /\ HasFields(batches'[i])
             /\ batches'[i].state \notin {"queued", "retry"}
  <2>1. HasFields(batches[i])
    BY DEF BatchesOK
  <2>2. CASE i \in Pending
    <3> DEFINE b == [batches[i] EXCEPT !.state = "suppressed"]
    <3>1. HasFields(b) /\ b.state = "suppressed"
      BY <2>1 DEF HasFields
    <3>2. batches'[i] = Purged(b, heard)
      BY <1>1, <2>2
    <3> HIDE DEF b
    <3> QED
      BY <3>1, <3>2, PurgedKeeps
  <2>3. CASE i \notin Pending
    BY <1>1, <2>1, <2>3 DEF Pending
  <2> QED
    BY <2>2, <2>3
<1>3. BatchesOK' /\ DOMAIN batches' = DOMAIN batches
  BY <1>1, <1>2, RewriteKeeps
<1> QED
  BY <1>2, <1>3 DEF Pending

-----------------------------------------------------------------------------
LEMMA Initially ==
  Init => IInv
<1> SUFFICES ASSUME Init
             PROVE  IInv
  OBVIOUS
<1>1. batches \in Seq({}) /\ DOMAIN batches = {}
  BY DEF Init
<1>2. tx = NoTx /\ tx.kind \notin {"discover", "send"}
  BY DEF Init, NoTx
<1> QED
  BY <1>1, <1>2 DEF IInv, BatchesOK, PendingClean, TxClean, Pending

\* What Discover reads is clean: the candidates are filtered by the deletions.
LEMMA NextRowsClean ==
  /\ HasFields(NextRows)
  /\ NextRows.state = "queued"
  /\ \A e \in NextRows.events : SubjectOf[e] \notin withdrawn
BY DEF NextRows, HasFields, Least, Candidates

\* The batch of an open discovery, recorded in any state, keeps the invariant.
LEMMA DiscoverEndsKeeps ==
  ASSUME IInv, NEW b, DiscoverEnds(b), HasFields(b),
         b.events = tx.batch.events
  PROVE  IInv'
<1>1. BatchesOK /\ withdrawn' = withdrawn /\ batches' = Append(batches, b)
  BY DEF IInv, DiscoverEnds, subjects
<1>2. /\ BatchesOK'
      /\ DOMAIN batches' = DOMAIN batches \cup {Len(batches) + 1}
      /\ \A i \in DOMAIN batches : batches'[i] = batches[i]
      /\ batches'[Len(batches) + 1] = b
  BY <1>1, AppendKeeps
<1>3. PendingClean'
  <2> SUFFICES ASSUME NEW i \in Pending', NEW s \in withdrawn
               PROVE  ~Holds(i, s)'
    BY <1>1 DEF PendingClean
  <2>1. CASE i \in DOMAIN batches
    BY <2>1, <1>2 DEF IInv, PendingClean, Pending, Holds
  <2>2. CASE i = Len(batches) + 1
    BY <2>2, <1>2 DEF IInv, TxClean, DiscoverEnds, Holds
  <2> QED
    BY <2>1, <2>2, <1>2 DEF Pending
<1>4. TxClean'
  BY DEF DiscoverEnds, TxClean, NoTx
<1> QED
  BY <1>2, <1>3, <1>4 DEF IInv

\* Every step keeps the invariant.
LEMMA Step ==
  ASSUME IInv, [Next]_vars
  PROVE  IInv'
<1> USE DEF IInv
<1>1. ASSUME UNCHANGED <<batches, tx, withdrawn>>
      PROVE  IInv'
  BY <1>1 DEF BatchesOK, PendingClean, TxClean, Pending, Holds
<1>2. ASSUME NEW e \in AllEvents, Project(e)
      PROVE  IInv'
  BY <1>1, <1>2 DEF Project, subjects
<1>3. ASSUME NEW s \in Subjects, Recognize(s)
      PROVE  IInv'
  <2>1. BatchesOK' /\ Pending' = {}
    BY <1>3, SuppressedIsNotPending DEF Recognize
  <2> QED
    BY <1>3, <2>1 DEF Recognize, PendingClean, TxClean, NoTx
<1>4. ASSUME Discover
      PROVE  IInv'
  <2>1. UNCHANGED <<batches, withdrawn>>
    BY <1>4 DEF Discover, subjects
  <2>2. tx' = [kind |-> "discover", batch |-> NextRows]
    BY <1>4 DEF Discover
  <2>3. TxClean'
    <3> DEFINE rows == NextRows
    <3>1. /\ HasFields(rows)
          /\ rows.state = "queued"
          /\ \A e \in rows.events : SubjectOf[e] \notin withdrawn
          /\ tx' = [kind |-> "discover", batch |-> rows]
      BY <2>2, NextRowsClean
    <3> HIDE DEF rows
    <3> QED
      BY <3>1, <2>1 DEF TxClean, HasFields
  <2> QED
    BY <2>1, <2>3 DEF BatchesOK, PendingClean, Pending, Holds
<1>5. ASSUME DiscoverCommits
      PROVE  IInv'
  BY <1>5, DiscoverEndsKeeps DEF DiscoverCommits, DiscoverEnds, TxClean
<1>6. ASSUME DiscoverUnheard
      PROVE  IInv'
  <2> DEFINE b == [tx.batch EXCEPT !.body = FALSE]
  <2>1. HasFields(b) /\ b.events = tx.batch.events
    BY <1>6 DEF DiscoverUnheard, TxClean, HasFields
  <2>2. DiscoverEnds(b)
    BY <1>6 DEF DiscoverUnheard
  <2> HIDE DEF b
  <2> QED
    BY <2>1, <2>2, DiscoverEndsKeeps
<1>7. ASSUME DiscoverDies
      PROVE  IInv'
  <2> DEFINE b == [tx.batch EXCEPT !.state = "unrecorded"]
  <2>1. HasFields(b) /\ b.events = tx.batch.events
    BY <1>7 DEF DiscoverDies, TxClean, HasFields
  <2>2. DiscoverEnds(b)
    BY <1>7 DEF DiscoverDies
  <2> HIDE DEF b
  <2> QED
    BY <2>1, <2>2, DiscoverEndsKeeps
<1>8. ASSUME NEW i \in DOMAIN batches, BodyMissing(i)
      PROVE  IInv'
  <2>1. HasFields(batches[i]) /\ i \in Pending /\ tx = NoTx /\ tx' = NoTx
    BY <1>8 DEF BodyMissing, Due, BatchesOK, NoTx
  <2>2. BatchesOK' /\ PendingClean'
    BY <1>8, <2>1, AttemptedKeeps, SettleKeeps DEF BodyMissing, subjects
  <2> QED
    BY <2>1, <2>2 DEF TxClean, NoTx
<1>9. ASSUME NEW i \in DOMAIN batches, Send(i)
      PROVE  IInv'
  <2>1. UNCHANGED <<batches, withdrawn>> /\ i \in Pending
    BY <1>9 DEF Send, Due, subjects
  <2>2. TxClean'
    BY <1>9, <2>1 DEF Send, TxClean, Pending
  <2> QED
    BY <2>1, <2>2 DEF BatchesOK, PendingClean, Pending, Holds
<1>10. ASSUME NEW i \in DOMAIN batches, Land(i)
       PROVE  IInv'
  BY <1>1, <1>10 DEF Land, subjects
<1>11. ASSUME NEW i \in DOMAIN batches, NEW b, NEW cursor,
              Settle(i, b, cursor), HasFields(b),
              b.events = batches[i].events
       PROVE  IInv'
  <2>1. i \in Pending /\ tx' = NoTx /\ withdrawn' = withdrawn
    BY <1>11 DEF Settle, TxClean, subjects
  <2>2. BatchesOK' /\ PendingClean'
    BY <1>11, <2>1, SettleKeeps DEF Settle
  <2> QED
    BY <2>1, <2>2 DEF TxClean, NoTx
<1>12. ASSUME NEW i \in DOMAIN batches, NEW heard \in BOOLEAN,
              Confirmed(i, heard)
       PROVE  IInv'
  <2> DEFINE b == Purged(Attempted(batches[i], "succeeded"), heard)
  <2>1. HasFields(b) /\ b.events = batches[i].events
    BY AttemptedKeeps, PurgedKeeps DEF BatchesOK
  <2>2. Settle(i, b, batches[i].after)
    BY <1>12 DEF Confirmed
  <2> HIDE DEF b
  <2> QED
    BY <2>1, <2>2, <1>11
<1>13. ASSUME NEW i \in DOMAIN batches, Rejected(i)
       PROVE  IInv'
  <2> DEFINE a == Attempted(batches[i], "retry")
             b == [a EXCEPT !.rejectedBy = tx.with]
  <2>1. HasFields(a) /\ a.events = batches[i].events
    BY AttemptedKeeps DEF BatchesOK
  <2>2. Settle(i, b, checkpoint)
    BY <1>13 DEF Rejected
  <2> HIDE DEF a
  <2>3. HasFields(b) /\ b.events = batches[i].events
    BY <2>1 DEF HasFields
  <2> HIDE DEF b
  <2> QED
    BY <2>2, <2>3, <1>11
<1>14. ASSUME NEW i \in DOMAIN batches, Retried(i)
       PROVE  IInv'
  <2> DEFINE b == Attempted(batches[i], "retry")
  <2>1. HasFields(b) /\ b.events = batches[i].events
    BY AttemptedKeeps DEF BatchesOK
  <2>2. Settle(i, b, checkpoint)
    BY <1>14 DEF Retried
  <2> HIDE DEF b
  <2> QED
    BY <2>1, <2>2, <1>11
<1>15. ASSUME NEW i \in DOMAIN batches, Failed(i)
       PROVE  IInv'
  <2> DEFINE a == Attempted(batches[i], "failed")
             b == Purged(a, TRUE)
  <2>1. HasFields(a) /\ a.events = batches[i].events
    BY AttemptedKeeps DEF BatchesOK
  <2>3. HasFields(b) /\ b.events = a.events
    BY <2>1 DEF HasFields, Purged
  <2>2. Settle(i, b, checkpoint)
    BY <1>15 DEF Failed
  <2> HIDE DEF a, b
  <2> QED
    BY <2>1, <2>2, <2>3, <1>11
<1>16. ASSUME SendDies
       PROVE  IInv'
  BY <1>16 DEF SendDies, subjects, BatchesOK, PendingClean, TxClean, Pending,
       Holds, NoTx
<1>17. ASSUME Rotate
       PROVE  IInv'
  <2>1. withdrawn' = withdrawn /\ tx' = tx /\ tx = NoTx
    BY <1>17 DEF Rotate, subjects
  <2>2. /\ batches' = [i \in DOMAIN batches |-> batches'[i]]
        /\ \A i \in DOMAIN batches : batches'[i] =
             IF Paused(i) THEN [batches[i] EXCEPT !.rejectedBy = -1]
                          ELSE batches[i]
    BY <1>17 DEF Rotate
  <2>3. \A i \in DOMAIN batches :
          /\ HasFields(batches'[i])
          /\ batches'[i].events = batches[i].events
          /\ batches'[i].state = batches[i].state
    BY <2>2 DEF BatchesOK, HasFields
  <2>4. BatchesOK' /\ PendingClean'
    BY <2>1, <2>2, <2>3, FewerPendingStayClean DEF Pending
  <2> QED
    BY <2>1, <2>4 DEF TxClean, NoTx
<1>18. ASSUME NEW heard \in BOOLEAN, Disable(heard)
       PROVE  IInv'
  <2>1. BatchesOK' /\ Pending' = {}
    BY <1>18, SuppressedIsNotPending DEF Disable
  <2> QED
    BY <1>18, <2>1 DEF Disable, PendingClean, TxClean, NoTx
<1>19. CASE UNCHANGED vars
  BY <1>1, <1>19 DEF vars, subjects
<1> QED
  BY <1>2, <1>3, <1>4, <1>5, <1>6, <1>7, <1>8, <1>9, <1>10, <1>12, <1>13,
     <1>14, <1>15, <1>16, <1>17, <1>18, <1>19 DEF Next

\* No request goes out, and none is waited for, with an event of a subject
\* whose deletion is recognized: the lock of the destination is held from the
\* read of the candidates to the storage's answer.
THEOREM ExportKeepsInside == Spec => []NothingLeaves
<1>1. Init => IInv
  BY Initially
<1>2. IInv /\ [Next]_vars => IInv'
  BY Step
<1>3. IInv => NothingLeaves
  BY DEF IInv, TxClean, PendingClean, NothingLeaves
<1> QED
  BY <1>1, <1>2, <1>3, PTL DEF Spec

-----------------------------------------------------------------------------
(* The checkpoint moves past an event only with the object that holds it.      *)
(*                                                                             *)
(* The property speaks of the objects that are stored; a step that moves the   *)
(* checkpoint does it with a batch that was discovered long before.  What      *)
(* carries it there: of the events that are in time, a batch that is pending,  *)
(* or open, has each between its cursors (Covers), for the page is a prefix of *)
(* the candidates, and whatever is projected behind it is late.                *)

Cursor == [event : Nat, deletion : Nat]

Covers(b) ==
  \A e \in projected \ late :
    b.before.event < e /\ e <= b.after.event /\ SubjectOf[e] \notin withdrawn =>
      e \in b.events

HasCursors(b) == b.before \in Cursor /\ b.after \in Cursor

PassInv ==
  /\ projected \subseteq AllEvents /\ deletions \in Seq(Subjects)
  /\ checkpoint \in Cursor
  /\ \A i \in DOMAIN batches : HasCursors(batches[i])
  /\ stored \cup flying \subseteq DOMAIN batches
  /\ \A i \in Pending : Covers(batches[i])
  /\ tx.kind = "discover" => HasCursors(tx.batch) /\ Covers(tx.batch)
  /\ PassedIsStored

LEMMA InitiallyPassed == Init => PassInv
<1> SUFFICES ASSUME Init
             PROVE  PassInv
  OBVIOUS
<1>1. batches = <<>> /\ DOMAIN batches = {} /\ Pending = {} /\ deletions \in Seq(Subjects)
  BY DEF Init, Pending
<1>2. tx = NoTx /\ tx.kind # "discover"
  BY DEF Init, NoTx
<1> QED
  BY <1>1, <1>2 DEF Init, PassInv, Cursor, PassedIsStored

\* A finite set of numbers that is not empty has a greatest one: the smallest of the
\* sets of what is above some member is empty.
LEMMA GreatestOfMany ==
  ASSUME NEW S \in SUBSET Nat, IsFiniteSet(S), S # {}
  PROVE  Max(S) \in S /\ \A q \in S : q <= Max(S)
<1> DEFINE Above(o) == {q \in S : o < q}
           F == {Above(o) : o \in S}
           R == StrictSubsetOrdering(S)
<1>1. IsWellFoundedOn(R, FiniteSubsetsOf(S))
  BY FS_StrictSubsetOrderingWellFounded
<1>2. F \subseteq FiniteSubsetsOf(S) /\ F # {}
  <2>1. \A T \in SUBSET S : T \in FiniteSubsetsOf(S)
    BY FS_Subset DEF FiniteSubsetsOf
  <2> QED
    BY <2>1
<1>3. PICK x \in F : \A y \in F : ~(<<y, x>> \in R)
  BY <1>1, <1>2, WFMin
<1>4. PICK m \in S : x = Above(m)
  BY <1>3
<1>5. ASSUME NEW q \in S, ~(q <= m)
      PROVE  FALSE
  <2>1. m < q /\ ~(q < q) /\ \A r \in S : q < r => m < r
    <3>1. q \in Nat /\ m \in Nat /\ m < q
      BY <1>5
    <3>2. ASSUME NEW r \in S, q < r PROVE m < r
      <4>1. r \in Nat
        OBVIOUS
      <4> QED
        BY <3>1, <3>2, <4>1
    <3> QED
      BY <3>1, <3>2
  <2>2. Above(q) \subseteq Above(m) /\ q \in Above(m) /\ q \notin Above(q)
    BY <2>1
  <2>3. <<Above(q), Above(m)>> \in R
    BY <2>2 DEF StrictSubsetOrdering
  <2> QED
    BY <1>3, <1>4, <2>3
<1>6. \E a \in S : \A q \in S : a >= q
  <2>1. \A q \in S : m >= q
    <3> SUFFICES ASSUME NEW q \in S
                 PROVE  m >= q
      OBVIOUS
    <3>1. q \in Nat /\ m \in Nat
      OBVIOUS
    <3> QED
      BY <1>5, <3>1
  <2> QED
    BY <2>1
<1>7. Max(S) \in S /\ \A q \in S : Max(S) >= q
  BY <1>6 DEF Max
<1> QED
  <2> SUFFICES ASSUME NEW q \in S
               PROVE  q <= Max(S)
    BY <1>7
  <2>1. q \in Nat /\ Max(S) \in Nat
    BY <1>7
  <2> QED
    BY <1>7, <2>1

\* The least n of a finite set are all of it up to the last one of them.
LEMMA LeastIsAPrefix ==
  ASSUME NEW S \in SUBSET Nat, IsFiniteSet(S), NEW n \in Int,
         NEW e \in S, NEW l \in Least(n, S), e <= l
  PROVE  e \in Least(n, S)
<1> DEFINE Upto(o) == {d \in S : d <= o}
<1>1. l \in S /\ Cardinality(Upto(l)) <= n
  BY DEF Least
<1>2. Upto(e) \subseteq Upto(l)
  <2> SUFFICES ASSUME NEW d \in S, d <= e
               PROVE  d <= l
    OBVIOUS
  <2>1. d \in Nat /\ e \in Nat /\ l \in Nat
    BY <1>1
  <2> QED
    BY <2>1
<1>3. IsFiniteSet(Upto(l)) /\ IsFiniteSet(Upto(e))
  BY FS_Subset
<1> HIDE DEF Upto
<1>4. /\ Cardinality(Upto(e)) \in Nat /\ Cardinality(Upto(l)) \in Nat
      /\ Cardinality(Upto(e)) <= Cardinality(Upto(l))
  BY <1>2, <1>3, FS_Subset, FS_CardinalityType
<1>5. Cardinality(Upto(e)) <= n
  BY <1>1, <1>4
<1> QED
  BY <1>5 DEF Least, Upto

\* A discovered batch has every candidate up to its cursor.
LEMMA NextRowsCover ==
  ASSUME BulkAssumption, PassInv
  PROVE  HasCursors(NextRows) /\ Covers(NextRows) /\ NextRows.before = checkpoint
<1> DEFINE fresh == (checkpoint.deletion + 1)..Len(deletions)
           notices == Least(MaximumRows, fresh)
           events == Least(MaximumRows - Cardinality(notices), Candidates)
           event == Greatest(events, checkpoint.event)
           deletion == Greatest(notices, checkpoint.deletion)
<1>1. checkpoint \in Cursor /\ checkpoint.event \in Nat /\ checkpoint.deletion \in Nat
      /\ Len(deletions) \in Nat
  BY DEF PassInv, Cursor
<1>2. fresh \in SUBSET Nat /\ IsFiniteSet(fresh)
  <2>1. checkpoint.deletion + 1 \in Int /\ Len(deletions) \in Int
    BY <1>1
  <2>2. IsFiniteSet(fresh)
    BY <2>1, FS_Interval
  <2> QED
    BY <1>1, <2>2
<1>3. notices \in SUBSET fresh /\ IsFiniteSet(notices) /\ Cardinality(notices) \in Nat
  BY <1>2, FS_Subset, FS_CardinalityType DEF Least
<1>4. Candidates \in SUBSET Nat /\ IsFiniteSet(Candidates)
  <2>1. LastEvent \in Int /\ 1 \in Int
    BY DEF BulkAssumption
  <2>2. IsFiniteSet(1..LastEvent)
    BY <2>1, FS_Interval
  <2>3. projected \subseteq 1..LastEvent
    BY DEF PassInv, AllEvents
  <2>4. Candidates \subseteq projected
    BY DEF Candidates
  <2>5. Candidates \in SUBSET (1..LastEvent)
    BY <2>3, <2>4
  <2>6. IsFiniteSet(Candidates)
    BY <2>2, <2>5, FS_Subset
  <2> QED
    BY <2>1, <2>3, <2>4, <2>6
<1>5. MaximumRows - Cardinality(notices) \in Int
  BY <1>3 DEF BulkAssumption
<1>6. events \in SUBSET Candidates /\ IsFiniteSet(events)
  BY <1>4, FS_Subset DEF Least
<1>7. deletion \in Nat
  <2>1. CASE notices = {}
    BY <1>1, <2>1 DEF Greatest
  <2>2. CASE notices # {}
    <3>1. notices \in SUBSET Nat
      BY <1>2, <1>3
    <3>2. Max(notices) \in notices
      BY <1>3, <2>2, <3>1, GreatestOfMany
    <3> QED
      BY <2>2, <3>1, <3>2 DEF Greatest
  <2> QED
    BY <2>1, <2>2
<1>8. event \in Nat /\ (events = {} => event = checkpoint.event)
      /\ (events # {} => event \in events)
  <2>1. CASE events = {}
    BY <1>1, <2>1 DEF Greatest
  <2>2. CASE events # {}
    <3>1. events \in SUBSET Nat
      BY <1>4, <1>6
    <3>2. Max(events) \in events
      BY <1>6, <2>2, <3>1, GreatestOfMany
    <3> QED
      BY <2>2, <3>1, <3>2 DEF Greatest
  <2> QED
    BY <2>1, <2>2
<1>9. ASSUME NEW e \in projected \ late, checkpoint.event < e, e <= event,
             SubjectOf[e] \notin withdrawn
      PROVE  e \in events
  <2>1. e \in Nat
    BY DEF PassInv, AllEvents
  <2>2. e \in Candidates
    BY <1>1, <1>9, <2>1 DEF Candidates
  <2>3. events # {}
    BY <1>1, <1>8, <1>9, <2>1
  <2>4. event \in events
    BY <1>8, <2>3
  <2> HIDE DEF event
  <2>5. event \in Least(MaximumRows - Cardinality(notices), Candidates)
    BY <2>4
  <2> QED
    BY <1>4, <1>5, <1>9, <2>2, <2>5, LeastIsAPrefix
<1>10. /\ NextRows.before = checkpoint /\ NextRows.events = events
       /\ NextRows.after = [event |-> event, deletion |-> deletion]
  BY DEF NextRows
<1> HIDE DEF events, event, deletion
<1>11. NextRows.after \in Cursor /\ NextRows.after.event = event
  BY <1>7, <1>8, <1>10 DEF Cursor
<1> QED
  BY <1>1, <1>9, <1>10, <1>11 DEF HasCursors, Covers

-----------------------------------------------------------------------------
\* A step that ends or rewrites batches, but keeps their rows' contents.
LEMMA RowsStay ==
  ASSUME PassInv, DOMAIN batches' = DOMAIN batches,
         \A i \in DOMAIN batches : /\ batches'[i].events = batches[i].events
                                   /\ batches'[i].before = batches[i].before
                                   /\ batches'[i].after = batches[i].after,
         Pending' \subseteq Pending,
         UNCHANGED <<projected, late, checkpoint>>,
         withdrawn \subseteq withdrawn', deletions' \in Seq(Subjects),
         stored \subseteq stored', stored' \cup flying' \subseteq DOMAIN batches,
         tx' = tx \/ tx'.kind # "discover"
  PROVE  PassInv'
<1>1. \A i \in DOMAIN batches' : HasCursors(batches'[i])
  BY DEF PassInv, HasCursors
<1>2. \A i \in Pending' : Covers(batches[i])'
  BY DEF PassInv, Covers, Pending
<1>3. (tx.kind = "discover" => HasCursors(tx.batch) /\ Covers(tx.batch))'
  BY DEF PassInv, Covers, HasCursors
<1>4. PassedIsStored'
  BY DEF PassInv, PassedIsStored
<1> QED
  BY <1>1, <1>2, <1>3, <1>4 DEF PassInv, HasCursors

\* The same, where one row, or none, is rewritten.
LEMMA RowSettles ==
  ASSUME IInv, IInv', PassInv, NEW i \in DOMAIN batches, NEW b,
         batches' = [batches EXCEPT ![i] = b], i \in Pending,
         b.events = batches[i].events, b.before = batches[i].before,
         b.after = batches[i].after,
         UNCHANGED <<projected, late, checkpoint, withdrawn, deletions, stored>>,
         flying' \subseteq flying, tx' = NoTx
  PROVE  PassInv'
<1>1. PICK S : batches \in Seq(S)
  BY DEF IInv, BatchesOK
<1>2. /\ DOMAIN batches' = DOMAIN batches
      /\ \A j \in DOMAIN batches : batches'[j] = IF j = i THEN b ELSE batches[j]
  BY <1>1
<1>3. Pending' \subseteq Pending
  BY <1>2 DEF Pending
<1>4. stored' \cup flying' \subseteq DOMAIN batches /\ deletions' \in Seq(Subjects)
  BY DEF PassInv
<1> QED
  BY <1>2, <1>3, <1>4, RowsStay DEF NoTx

\* The batch of an open discovery, recorded in any state.
LEMMA DiscoverEndsCovers ==
  ASSUME IInv, IInv', PassInv, NEW b, DiscoverEnds(b), HasFields(b),
         b.events = tx.batch.events, b.before = tx.batch.before, b.after = tx.batch.after
  PROVE  PassInv'
<1>1. /\ BatchesOK /\ batches' = Append(batches, b)
      /\ UNCHANGED <<projected, late, checkpoint, withdrawn, deletions, stored, flying>>
      /\ tx.kind = "discover" /\ tx' = NoTx
  BY DEF IInv, DiscoverEnds, subjects, facts, destination, network
<1>2. /\ DOMAIN batches' = DOMAIN batches \cup {Len(batches) + 1}
      /\ \A i \in DOMAIN batches : batches'[i] = batches[i]
      /\ batches'[Len(batches) + 1] = b
  BY <1>1, AppendKeeps
<1>3. HasCursors(b) /\ Covers(b)
  BY <1>1 DEF PassInv, HasCursors, Covers
<1>4. \A i \in DOMAIN batches' : HasCursors(batches'[i])
  BY <1>2, <1>3 DEF PassInv, HasCursors
<1>5. ASSUME NEW i \in Pending' PROVE Covers(batches[i])'
  <2>1. CASE i \in DOMAIN batches
    BY <1>1, <1>2, <1>5, <2>1 DEF PassInv, Covers, Pending
  <2>2. CASE i = Len(batches) + 1
    BY <1>1, <1>2, <1>3, <2>2 DEF Covers
  <2> QED
    BY <1>2, <1>5, <2>1, <2>2 DEF Pending
<1>6. PassedIsStored'
  BY <1>1, <1>2 DEF PassInv, PassedIsStored
<1> QED
  BY <1>1, <1>2, <1>4, <1>5, <1>6 DEF PassInv, NoTx, HasCursors

\* The checkpoint moves over a batch's events, which the storage now has.
LEMMA ConfirmedCovers ==
  ASSUME BulkAssumption, IInv, IInv', PassInv, NEW i \in DOMAIN batches,
         NEW heard \in BOOLEAN, Confirmed(i, heard)
  PROVE  PassInv'
<1> DEFINE a == Attempted(batches[i], "succeeded")
           b == Purged(a, heard)
<1>1. HasFields(a) /\ a.events = batches[i].events /\ a.before = batches[i].before
      /\ a.after = batches[i].after
  BY AttemptedKeeps DEF IInv, BatchesOK
<1> HIDE DEF a
<1>2. HasFields(b) /\ b.events = batches[i].events /\ b.before = batches[i].before
      /\ b.after = batches[i].after
  BY <1>1, PurgedKeeps
<1>3. batches' = [batches EXCEPT ![i] = b]
  BY DEF Confirmed, Settle, a
<1> HIDE DEF b
<1>4. /\ checkpoint = batches[i].before /\ checkpoint' = batches[i].after /\ i \in stored
      /\ UNCHANGED <<projected, late, withdrawn, deletions, stored, flying>>
      /\ tx' = NoTx /\ i \in Pending
  BY DEF Confirmed, Settle, subjects, facts, IInv, TxClean
<1>5. PICK S : batches \in Seq(S)
  BY DEF IInv, BatchesOK
<1>6. /\ DOMAIN batches' = DOMAIN batches
      /\ \A j \in DOMAIN batches : batches'[j] = IF j = i THEN b ELSE batches[j]
  BY <1>3, <1>5
<1>7. Pending' \subseteq Pending
  BY <1>4, <1>6 DEF Pending
<1>8. \A j \in DOMAIN batches : /\ batches'[j].events = batches[j].events
                                /\ batches'[j].before = batches[j].before
                                /\ batches'[j].after = batches[j].after
  BY <1>2, <1>6
<1>9. ASSUME NEW e \in projected \ late, e <= checkpoint'.event, SubjectOf[e] \notin withdrawn
      PROVE  \E j \in stored : e \in batches[j].events
  <2>1. checkpoint.event \in Nat /\ e \in Nat
    BY DEF PassInv, Cursor, AllEvents
  <2>2. CASE e <= checkpoint.event
    BY <1>9, <2>2 DEF PassInv, PassedIsStored
  <2>3. CASE checkpoint.event < e
    BY <1>4, <1>9, <2>3 DEF PassInv, Covers
  <2> QED
    BY <2>1, <2>2, <2>3
<1>10. PassedIsStored'
  <2>1. stored \subseteq DOMAIN batches
    BY DEF PassInv
  <2> SUFFICES ASSUME NEW e \in projected \ late, e <= checkpoint'.event,
                      SubjectOf[e] \notin withdrawn
               PROVE  \E j \in stored : e \in batches'[j].events
    BY <1>4 DEF PassedIsStored
  <2>2. PICK j \in stored : e \in batches[j].events
    BY <1>9
  <2> QED
    BY <1>8, <2>1, <2>2
<1>11. \A j \in DOMAIN batches' : HasCursors(batches'[j])
  BY <1>6, <1>8 DEF PassInv, HasCursors
<1>12. \A j \in Pending' : Covers(batches[j])'
  BY <1>4, <1>6, <1>7, <1>8 DEF PassInv, Covers, Pending
<1>13. checkpoint' \in Cursor
  BY <1>4 DEF PassInv, HasCursors
<1> QED
  BY <1>4, <1>6, <1>10, <1>11, <1>12, <1>13 DEF PassInv, NoTx, HasCursors

\* Suppression keeps what the batches hold.
LEMMA SuppressedStay ==
  ASSUME IInv, IInv', PassInv, NEW heard, batches' = Suppressed(heard),
         UNCHANGED <<projected, late, checkpoint, stored, flying>>,
         withdrawn \subseteq withdrawn', deletions' \in Seq(Subjects),
         tx' = tx
  PROVE  PassInv'
<1>1. BatchesOK /\ Pending' = {}
  BY SuppressedIsNotPending DEF IInv
<1>2. /\ DOMAIN batches' = DOMAIN batches
      /\ \A i \in DOMAIN batches :
           batches'[i] = IF i \in Pending
             THEN Purged([batches[i] EXCEPT !.state = "suppressed"], heard)
             ELSE batches[i]
  BY DEF Suppressed
<1>3. ASSUME NEW i \in DOMAIN batches
      PROVE  /\ batches'[i].events = batches[i].events
             /\ batches'[i].before = batches[i].before
             /\ batches'[i].after = batches[i].after
  <2>1. HasFields(batches[i])
    BY <1>1 DEF BatchesOK
  <2>2. CASE i \in Pending
    <3> DEFINE b == [batches[i] EXCEPT !.state = "suppressed"]
    <3>1. /\ HasFields(b) /\ b.events = batches[i].events
          /\ b.before = batches[i].before /\ b.after = batches[i].after
      BY <2>1 DEF HasFields
    <3>2. batches'[i] = Purged(b, heard)
      BY <1>2, <2>2
    <3> HIDE DEF b
    <3> QED
      BY <3>1, <3>2, PurgedKeeps
  <2>3. CASE i \notin Pending
    BY <1>2, <2>3
  <2> QED
    BY <2>2, <2>3
<1>4. stored' \cup flying' \subseteq DOMAIN batches
  BY DEF PassInv
<1> QED
  BY <1>1, <1>2, <1>3, <1>4, RowsStay

LEMMA PassStep ==
  ASSUME BulkAssumption, IInv, IInv', PassInv, [Next]_vars
  PROVE  PassInv'
<1>1. ASSUME UNCHANGED <<batches, projected, late, checkpoint, withdrawn, deletions>>,
             stored \subseteq stored', stored' \cup flying' \subseteq DOMAIN batches,
             tx' = tx \/ tx'.kind # "discover"
      PROVE  PassInv'
  <2>1. Pending' = Pending /\ deletions' \in Seq(Subjects)
    BY <1>1 DEF Pending, PassInv
  <2> QED
    BY <1>1, <2>1, RowsStay
<1>2. ASSUME NEW e \in AllEvents, Project(e)
      PROVE  PassInv'
  <2>1. /\ UNCHANGED <<batches, checkpoint, withdrawn, deletions, stored, flying, tx>>
        /\ projected' = projected \cup {e} /\ late \subseteq late'
        /\ Pending' = Pending
    BY <1>2 DEF Project, subjects, destination, network, Pending
  <2>2. \A d \in projected' \ late' : d \in projected \ late \/ d = e
    BY <2>1
  <2>3. e \notin late' => /\ ~(e <= checkpoint.event)
                          /\ \A i \in Pending : ~(e <= batches[i].after.event)
                          /\ tx.kind = "discover" => ~(e <= tx.batch.after.event)
    BY <1>2 DEF Project
  <2>4. \A i \in Pending : Covers(batches[i])'
    BY <2>1, <2>2, <2>3 DEF PassInv, Covers
  <2>5. (tx.kind = "discover" => HasCursors(tx.batch) /\ Covers(tx.batch))'
    BY <2>1, <2>2, <2>3 DEF PassInv, Covers, HasCursors
  <2>6. PassedIsStored'
    BY <2>1, <2>2, <2>3 DEF PassInv, PassedIsStored
  <2> QED
    BY <2>1, <2>4, <2>5, <2>6 DEF PassInv, HasCursors
<1>3. ASSUME NEW s \in Subjects, Recognize(s)
      PROVE  PassInv'
  <2>1. /\ batches' = Suppressed(TRUE) /\ withdrawn \subseteq withdrawn' /\ tx' = tx
        /\ UNCHANGED <<projected, late, checkpoint, stored, flying>>
        /\ deletions' \in Seq(Subjects)
    BY <1>3 DEF Recognize, facts, destination, network, PassInv
  <2> QED
    BY <2>1, SuppressedStay
<1>4. ASSUME NEW heard \in BOOLEAN, Disable(heard)
      PROVE  PassInv'
  <2>1. /\ batches' = Suppressed(heard) /\ withdrawn \subseteq withdrawn' /\ tx' = tx
        /\ UNCHANGED <<projected, late, checkpoint, stored, flying>>
        /\ deletions' \in Seq(Subjects)
    BY <1>4 DEF Disable, facts, subjects, network, PassInv
  <2> QED
    BY <2>1, SuppressedStay
<1>5. ASSUME Discover
      PROVE  PassInv'
  <2> DEFINE rows == NextRows
  <2>1. HasCursors(rows) /\ Covers(rows)
    BY NextRowsCover
  <2>2. /\ tx' = [kind |-> "discover", batch |-> rows]
        /\ UNCHANGED <<batches, projected, late, checkpoint, withdrawn, deletions>>
        /\ UNCHANGED <<stored, flying>>
    BY <1>5 DEF Discover, facts, subjects, destination, network
  <2> HIDE DEF rows
  <2>3. tx'.batch = rows
    BY <2>2
  <2>4. HasCursors(tx.batch)' /\ Covers(tx.batch)'
    BY <2>1, <2>2, <2>3 DEF HasCursors, Covers
  <2>5. \A i \in Pending' : Covers(batches[i])'
    BY <2>2 DEF PassInv, Covers, Pending
  <2>6. PassedIsStored'
    BY <2>2 DEF PassInv, PassedIsStored
  <2>7. /\ projected' \subseteq AllEvents /\ deletions' \in Seq(Subjects)
        /\ checkpoint' \in Cursor
        /\ \A i \in DOMAIN batches' : HasCursors(batches'[i])
        /\ stored' \cup flying' \subseteq DOMAIN batches'
    BY <2>2 DEF PassInv, HasCursors
  <2> QED
    BY <2>4, <2>5, <2>6, <2>7 DEF PassInv
<1>6. ASSUME DiscoverCommits \/ DiscoverUnheard \/ DiscoverDies
      PROVE  PassInv'
  <2>1. HasFields(tx.batch)
    BY <1>6 DEF DiscoverCommits, DiscoverUnheard, DiscoverDies, DiscoverEnds, IInv, TxClean
  <2>2. CASE DiscoverCommits
    BY <2>1, <2>2, DiscoverEndsCovers DEF DiscoverCommits
  <2>3. CASE DiscoverUnheard
    <3> DEFINE b == [tx.batch EXCEPT !.body = FALSE]
    <3>1. /\ HasFields(b) /\ b.events = tx.batch.events
          /\ b.before = tx.batch.before /\ b.after = tx.batch.after
      BY <2>1 DEF HasFields
    <3>2. DiscoverEnds(b)
      BY <2>3 DEF DiscoverUnheard
    <3> HIDE DEF b
    <3> QED
      BY <3>1, <3>2, DiscoverEndsCovers
  <2>4. CASE DiscoverDies
    <3> DEFINE b == [tx.batch EXCEPT !.state = "unrecorded"]
    <3>1. /\ HasFields(b) /\ b.events = tx.batch.events
          /\ b.before = tx.batch.before /\ b.after = tx.batch.after
      BY <2>1 DEF HasFields
    <3>2. DiscoverEnds(b)
      BY <2>4 DEF DiscoverDies
    <3> HIDE DEF b
    <3> QED
      BY <3>1, <3>2, DiscoverEndsCovers
  <2> QED
    BY <1>6, <2>2, <2>3, <2>4
<1>7. ASSUME NEW i \in DOMAIN batches, BodyMissing(i)
      PROVE  PassInv'
  <2> DEFINE b == Attempted(batches[i], "failed")
  <2>1. /\ b.events = batches[i].events /\ b.before = batches[i].before
        /\ b.after = batches[i].after
    BY AttemptedKeeps DEF IInv, BatchesOK
  <2>2. /\ batches' = [batches EXCEPT ![i] = b] /\ i \in Pending
        /\ UNCHANGED <<projected, late, checkpoint, withdrawn, deletions, stored, flying>>
        /\ tx' = NoTx
    BY <1>7 DEF BodyMissing, Due, facts, subjects, destination, network
  <2> HIDE DEF b
  <2> QED
    BY <2>1, <2>2, RowSettles
<1>8. ASSUME NEW i \in DOMAIN batches, Send(i) \/ Land(i)
      PROVE  PassInv'
  <2>1. /\ UNCHANGED <<batches, projected, late, checkpoint, withdrawn, deletions>>
        /\ stored \subseteq stored'
        /\ stored' \cup flying' \subseteq stored \cup flying \cup {i}
        /\ tx' = tx \/ tx'.kind # "discover"
    BY <1>8 DEF Send, Land, facts, subjects, destination
  <2>2. stored' \cup flying' \subseteq DOMAIN batches
    BY <2>1 DEF PassInv
  <2> QED
    BY <1>1, <2>1, <2>2
<1>9. ASSUME NEW i \in DOMAIN batches, NEW b, Settle(i, b, checkpoint),
             b.events = batches[i].events, b.before = batches[i].before,
             b.after = batches[i].after, flying' \subseteq flying
      PROVE  PassInv'
  <2>1. /\ batches' = [batches EXCEPT ![i] = b] /\ i \in Pending
        /\ UNCHANGED <<projected, late, checkpoint, withdrawn, deletions, stored>>
        /\ tx' = NoTx
    BY <1>9 DEF Settle, IInv, TxClean, facts, subjects
  <2> QED
    BY <1>9, <2>1, RowSettles
<1>10. ASSUME NEW i \in DOMAIN batches, Rejected(i)
       PROVE  PassInv'
  <2> DEFINE a == Attempted(batches[i], "retry")
             b == [a EXCEPT !.rejectedBy = tx.with]
  <2>1. /\ HasFields(a) /\ a.events = batches[i].events /\ a.before = batches[i].before
        /\ a.after = batches[i].after
    BY AttemptedKeeps DEF IInv, BatchesOK
  <2>2. Settle(i, b, checkpoint) /\ flying' \subseteq flying
    BY <1>10 DEF Rejected
  <2> HIDE DEF a
  <2>3. b.events = a.events /\ b.before = a.before /\ b.after = a.after
    BY <2>1 DEF HasFields
  <2> HIDE DEF b
  <2> QED
    BY <2>1, <2>2, <2>3, <1>9
<1>11. ASSUME NEW i \in DOMAIN batches, Retried(i)
       PROVE  PassInv'
  <2> DEFINE b == Attempted(batches[i], "retry")
  <2>1. /\ b.events = batches[i].events /\ b.before = batches[i].before
        /\ b.after = batches[i].after
    BY AttemptedKeeps DEF IInv, BatchesOK
  <2>2. Settle(i, b, checkpoint) /\ flying' \subseteq flying
    BY <1>11 DEF Retried
  <2> HIDE DEF b
  <2> QED
    BY <2>1, <2>2, <1>9
<1>12. ASSUME NEW i \in DOMAIN batches, Failed(i)
       PROVE  PassInv'
  <2> DEFINE a == Attempted(batches[i], "failed")
             b == Purged(a, TRUE)
  <2>1. /\ HasFields(a) /\ a.events = batches[i].events /\ a.before = batches[i].before
        /\ a.after = batches[i].after
    BY AttemptedKeeps DEF IInv, BatchesOK
  <2>2. Settle(i, b, checkpoint) /\ flying' \subseteq flying
    BY <1>12 DEF Failed
  <2> HIDE DEF a
  <2>3. b.events = a.events /\ b.before = a.before /\ b.after = a.after
    BY <2>1, PurgedKeeps
  <2> HIDE DEF b
  <2> QED
    BY <2>1, <2>2, <2>3, <1>9
<1>13. ASSUME SendDies
       PROVE  PassInv'
  <2>1. /\ UNCHANGED <<batches, projected, late, checkpoint, withdrawn, deletions>>
        /\ UNCHANGED <<stored, flying>> /\ tx' = NoTx
    BY <1>13 DEF SendDies, facts, subjects, destination, network
  <2>2. tx'.kind # "discover" /\ stored' \cup flying' \subseteq DOMAIN batches
    BY <2>1 DEF NoTx, PassInv
  <2> QED
    BY <1>1, <2>1, <2>2
<1>14. ASSUME Rotate
       PROVE  PassInv'
  <2>1. /\ UNCHANGED <<projected, late, checkpoint, withdrawn, deletions, stored, flying, tx>>
        /\ DOMAIN batches' = DOMAIN batches
        /\ \A i \in DOMAIN batches : batches'[i] =
             IF Paused(i) THEN [batches[i] EXCEPT !.rejectedBy = -1]
                          ELSE batches[i]
    BY <1>14 DEF Rotate, facts, subjects, network
  <2>2. \A i \in DOMAIN batches : /\ batches'[i].events = batches[i].events
                                  /\ batches'[i].before = batches[i].before
                                  /\ batches'[i].after = batches[i].after
                                  /\ batches'[i].state = batches[i].state
    BY <2>1 DEF IInv, BatchesOK, HasFields
  <2>3. Pending' \subseteq Pending
    BY <2>1, <2>2 DEF Pending
  <2>4. deletions' \in Seq(Subjects) /\ stored' \cup flying' \subseteq DOMAIN batches
    BY <2>1 DEF PassInv
  <2> QED
    BY <2>1, <2>2, <2>3, <2>4, RowsStay
<1>15. CASE UNCHANGED vars
  BY <1>1, <1>15 DEF vars, facts, subjects, destination, network, PassInv
<1> QED
  BY <1>2, <1>3, <1>4, <1>5, <1>6, <1>7, <1>8, <1>10, <1>11, <1>12, <1>13, <1>14,
     <1>15, ConfirmedCovers DEF Next

(* The checkpoint moves past an event only with the object that holds it: an   *)
(* event that was there when its range was exported, and whose subject was     *)
(* never deleted, is stored once the cursor is behind it, whatever attempts    *)
(* failed, died or landed late (discoverOperatorBulkExports and                *)
(* processOperatorBulkExports).                                                *)
THEOREM CheckpointFollowsStorage ==
  ASSUME BulkAssumption
  PROVE  Spec => []PassedIsStored
<1>1. Init => IInv /\ PassInv
  BY Initially, InitiallyPassed
<1>2. IInv /\ PassInv /\ [Next]_vars => (IInv /\ PassInv)'
  BY Step, PassStep
<1>3. IInv /\ PassInv => PassedIsStored
  BY DEF PassInv
<1> QED
  BY <1>1, <1>2, <1>3, PTL DEF Spec

-----------------------------------------------------------------------------
(* Types.  A batch that is discovered has its cursors among the events there *)
(* are, and what an attempt makes of it is a batch.                          *)

\* Types, and that of an open transaction.
TypeInv ==
  /\ TypeOK
  /\ tx = NoTx \/ tx.kind \in {"discover", "send"}
  /\ tx.kind = "discover" => tx.batch \in Batches
  /\ tx.kind = "send" => tx.batch \in DOMAIN batches /\ tx.with \in Nat

LEMMA RewrittenBatches ==
  ASSUME batches \in Seq(Batches),
         batches' = [i \in DOMAIN batches |-> batches'[i]],
         \A i \in DOMAIN batches : batches'[i] \in Batches
  PROVE  batches' \in Seq(Batches) /\ DOMAIN batches' = DOMAIN batches
<1>1. DOMAIN batches = 1..Len(batches) /\ Len(batches) \in Nat
  OBVIOUS
<1>2. batches' \in [1..Len(batches) -> Batches]
  BY <1>1
<1> QED
  BY <1>1, <1>2

\* What becomes of a batch is a batch.
LEMMA ChangedBatches ==
  ASSUME NEW b \in Batches
  PROVE  /\ \A heard \in BOOLEAN : Purged(b, heard) \in Batches
         /\ \A state \in {"retry", "succeeded", "failed"} :
              Attempted(b, state) \in Batches
         /\ [b EXCEPT !.state = "suppressed"] \in Batches
         /\ [b EXCEPT !.state = "unrecorded"] \in Batches
         /\ [b EXCEPT !.body = FALSE] \in Batches
         /\ \A r \in Nat \cup {-1} : [b EXCEPT !.rejectedBy = r] \in Batches
<1>1. /\ b.body \in BOOLEAN /\ b.attempts \in 0..32
      /\ b.rejectedBy \in Nat \cup {-1} /\ -1 \in Nat \cup {-1}
  BY DEF Batches
<1>2. Min({b.attempts + 1, 32}) \in 0..32
  <2> DEFINE S == {b.attempts + 1, 32}
  <2>1. \E x \in S : \A y \in S : x <= y
    BY <1>1
  <2>2. Min(S) \in S
    BY <2>1 DEF Min
  <2>3. \A x \in S : x \in Nat
    BY <1>1
  <2>4. CASE b.attempts + 1 <= 32
    BY <1>1, <2>2, <2>4
  <2>5. CASE ~(b.attempts + 1 <= 32)
    <3>1. b.attempts + 1 = 33
      BY <1>1, <2>5
    <3>2. 32 <= 33 /\ ~(33 <= 32)
      OBVIOUS
    <3>3. Min({33, 32}) = 32
      <4>1. \E x \in {33, 32} : \A y \in {33, 32} : x <= y
        OBVIOUS
      <4>2. Min({33, 32}) \in {33, 32} /\ \A y \in {33, 32} : Min({33, 32}) <= y
        BY <4>1 DEF Min
      <4> QED
        BY <4>2
    <3> QED
      BY <3>1, <3>3
  <2> QED
    BY <2>4, <2>5
<1>3. ASSUME NEW heard \in BOOLEAN
      PROVE  Purged(b, heard) \in Batches
  <2>1. (~heard /\ b.body) \in BOOLEAN
    OBVIOUS
  <2>2. \A y \in BOOLEAN : [b EXCEPT !.body = y] \in Batches
    BY DEF Batches
  <2> DEFINE y == ~heard /\ b.body
  <2>3. Purged(b, heard) = [b EXCEPT !.body = y]
    BY DEF Purged
  <2> HIDE DEF y
  <2> QED
    BY <2>1, <2>2, <2>3 DEF y
<1>4. ASSUME NEW state \in {"retry", "succeeded", "failed"}
      PROVE  Attempted(b, state) \in Batches
  <2> DEFINE n == Min({b.attempts + 1, 32})
  <2>1. Attempted(b, state) =
          [b EXCEPT !.state = state, !.attempts = n, !.rejectedBy = -1]
    BY DEF Attempted
  <2> HIDE DEF n
  <2>2. n \in 0..32
    BY <1>2 DEF n
  <2> QED
    BY <1>1, <2>1, <2>2 DEF Batches
<1>5. /\ [b EXCEPT !.state = "suppressed"] \in Batches
      /\ [b EXCEPT !.state = "unrecorded"] \in Batches
      /\ [b EXCEPT !.body = FALSE] \in Batches
      /\ \A r \in Nat \cup {-1} : [b EXCEPT !.rejectedBy = r] \in Batches
  BY DEF Batches
<1> QED
  BY <1>3, <1>4, <1>5

\* A new batch, its cursors among the events and the deletions there are.
LEMMA NextRowsAreABatch ==
  ASSUME BulkAssumption, TypeOK, PassInv
  PROVE  NextRows \in Batches
<1> DEFINE fresh == (checkpoint.deletion + 1)..Len(deletions)
           notices == Least(MaximumRows, fresh)
           events == Least(MaximumRows - Cardinality(notices), Candidates)
           event == Greatest(events, checkpoint.event)
           deletion == Greatest(notices, checkpoint.deletion)
<1>1. /\ checkpoint \in Cursors /\ checkpoint.event \in 0..LastEvent
      /\ checkpoint.deletion \in Nat /\ Len(deletions) \in Nat /\ LastEvent \in Nat
  BY DEF TypeOK, Cursors, BulkAssumption
<1>2. fresh \in SUBSET (Nat \ {0})
  <2>1. \A n \in fresh : n \in Int /\ checkpoint.deletion + 1 <= n
    BY <1>1
  <2> QED
    BY <1>1, <2>1
<1>3. notices \in SUBSET (Nat \ {0})
  BY <1>2 DEF Least
<1>4. events \in SUBSET AllEvents
  BY DEF Least, Candidates, TypeOK
<1>5. HasCursors(NextRows)
  BY NextRowsCover
<1>6. event \in 0..LastEvent
  <2>1. CASE events = {}
    BY <1>1, <2>1 DEF Greatest
  <2>2. CASE events # {}
    <3>1. IsFiniteSet(1..LastEvent)
      BY <1>1, FS_Interval
    <3>2. IsFiniteSet(events) /\ events \in SUBSET Nat
      <4>1. events \in SUBSET (1..LastEvent)
        BY <1>4 DEF AllEvents
      <4> HIDE DEF events
      <4>2. \A e \in events : e \in Nat
        BY <1>1, <4>1
      <4> QED
        BY <3>1, <4>1, <4>2, FS_Subset
    <3>3. Max(events) \in events
      BY <2>2, <3>2, GreatestOfMany
    <3>4. Max(events) \in 1..LastEvent
      BY <1>4, <3>3 DEF AllEvents
    <3> QED
      BY <2>2, <3>4 DEF Greatest
  <2> QED
    BY <2>1, <2>2
<1>7. NextRows = [events |-> events, notices |-> notices, before |-> checkpoint,
                  after |-> [event |-> event, deletion |-> deletion],
                  state |-> "queued", attempts |-> 0, rejectedBy |-> -1, body |-> TRUE]
  BY DEF NextRows
<1> HIDE DEF events, notices, event, deletion
<1>8. deletion \in Nat
  BY <1>5, <1>7 DEF HasCursors, Cursor
<1>9. [event |-> event, deletion |-> deletion] \in Cursors
  BY <1>6, <1>8 DEF Cursors
<1> QED
  BY <1>1, <1>3, <1>4, <1>7, <1>9 DEF Batches

LEMMA RestIsTyped ==
  ASSUME TypeInv, batches' \in Seq(Batches), DOMAIN batches \subseteq DOMAIN batches',
         checkpoint' \in Cursors, UNCHANGED <<facts, withdrawn, deletions>>,
         active' \in BOOLEAN, revision' \in 0..MaxRevisions,
         tx' = NoTx \/ tx' = tx,
         flying' \cup stored' \subseteq DOMAIN batches, faults' \in 0..MaxFaults
  PROVE  TypeInv'
<1>1. TypeOK'
  BY DEF TypeInv, TypeOK, NoTx, facts
<1> QED
  BY <1>1 DEF TypeInv, NoTx

LEMMA TypesStep ==
  ASSUME BulkAssumption, PassInv, TypeInv, [Next]_vars
  PROVE  TypeInv'
<1>0. /\ MaxFaults \in Nat /\ faults \in 0..MaxFaults /\ batches \in Seq(Batches)
      /\ \A i \in DOMAIN batches : batches[i] \in Batches
      /\ Pending \subseteq DOMAIN batches
      /\ checkpoint \in Cursors /\ active \in BOOLEAN /\ revision \in 0..MaxRevisions
      /\ revision \in Nat
      /\ flying \cup stored \subseteq DOMAIN batches
  BY DEF BulkAssumption, TypeInv, TypeOK, Pending
<1>f. ASSUME NEW n \in {0, 1}, Faulting(n) PROVE faults' \in 0..MaxFaults
  BY <1>0, <1>f DEF Faulting
<1> USE DEF facts, subjects, destination, network
<1>s. ASSUME NEW heard \in BOOLEAN, batches' = Suppressed(heard)
      PROVE  batches' \in Seq(Batches) /\ DOMAIN batches' = DOMAIN batches
  <2>1. \A i \in DOMAIN batches : Suppressed(heard)[i] \in Batches
    BY <1>0, ChangedBatches DEF Suppressed
  <2>2. Suppressed(heard) = [i \in DOMAIN batches |-> Suppressed(heard)[i]]
    BY DEF Suppressed
  <2> QED
    BY <1>0, <1>s, <2>1, <2>2, RewrittenBatches
<1>o. ASSUME NEW i \in DOMAIN batches, NEW b \in Batches,
             batches' = [batches EXCEPT ![i] = b]
      PROVE  batches' \in Seq(Batches) /\ DOMAIN batches' = DOMAIN batches
  <2>1. \A j \in DOMAIN batches : batches'[j] \in Batches
    BY <1>0, <1>o
  <2>2. batches' = [j \in DOMAIN batches |-> batches'[j]]
    BY <1>o
  <2> QED
    BY <1>0, <2>1, <2>2, RewrittenBatches
<1>a. ASSUME NEW b \in Batches, batches' = Append(batches, b)
      PROVE  batches' \in Seq(Batches) /\ DOMAIN batches \subseteq DOMAIN batches'
  BY <1>0, <1>a
<1>1. ASSUME NEW e \in AllEvents, Project(e)
      PROVE  TypeInv'
  BY <1>1 DEF Project, TypeInv, TypeOK
<1>2. ASSUME NEW s \in Subjects, Recognize(s)
      PROVE  TypeInv'
  <2>1. batches' \in Seq(Batches) /\ DOMAIN batches' = DOMAIN batches
    BY <1>2, <1>s DEF Recognize
  <2>2. withdrawn' \subseteq Subjects /\ deletions' \in Seq(Subjects)
    BY <1>2 DEF Recognize, TypeInv, TypeOK
  <2> QED
    BY <1>2, <2>1, <2>2 DEF Recognize, TypeInv, TypeOK
<1>3. ASSUME Discover
      PROVE  TypeInv'
  <2>1. NextRows \in Batches
    BY NextRowsAreABatch DEF TypeInv
  <2> QED
    BY <1>3, <2>1 DEF Discover, TypeInv, TypeOK, NoTx
<1>4. ASSUME DiscoverCommits \/ DiscoverUnheard \/ DiscoverDies
      PROVE  TypeInv'
  <2>1. tx.batch \in Batches
    BY <1>4 DEF DiscoverCommits, DiscoverUnheard, DiscoverDies, DiscoverEnds, TypeInv
  <2>2. faults' \in 0..MaxFaults
    BY <1>0, <1>4, <1>f DEF DiscoverCommits, DiscoverUnheard, DiscoverDies
  <2>3. PICK b \in Batches : DiscoverEnds(b)
    BY <1>4, <2>1, ChangedBatches DEF DiscoverCommits, DiscoverUnheard, DiscoverDies
  <2> QED
    BY <1>0, <1>a, <2>2, <2>3, RestIsTyped DEF DiscoverEnds
<1>5. ASSUME NEW i \in DOMAIN batches, BodyMissing(i)
      PROVE  TypeInv'
  <2>1. PICK b \in Batches : batches' = [batches EXCEPT ![i] = b]
    BY <1>0, <1>5, ChangedBatches DEF BodyMissing
  <2>2. batches' \in Seq(Batches) /\ DOMAIN batches' = DOMAIN batches
    BY <1>o, <2>1
  <2> QED
    BY <1>0, <1>5, <2>2, RestIsTyped DEF BodyMissing
<1>6. ASSUME NEW i \in DOMAIN batches, Send(i)
      PROVE  TypeInv'
  BY <1>0, <1>6 DEF Send, TypeInv, TypeOK, NoTx
<1>7. ASSUME NEW i \in DOMAIN batches, Land(i)
      PROVE  TypeInv'
  BY <1>0, <1>7, RestIsTyped DEF Land
<1>8. ASSUME NEW i \in DOMAIN batches, NEW heard \in BOOLEAN,
             Confirmed(i, heard) \/ Rejected(i) \/ Retried(i) \/ Failed(i)
      PROVE  TypeInv'
  <2>1. \A state \in {"retry", "succeeded", "failed"} :
          Attempted(batches[i], state) \in Batches
    BY <1>0, ChangedBatches
  <2>2. tx.kind = "send" => tx.with \in Nat
    BY DEF TypeInv
  <2>3. batches[i].after \in Cursors
    BY <1>0 DEF Batches
  <2>4. PICK b \in Batches, c \in Cursors : Settle(i, b, c)
    <3>1. CASE Confirmed(i, heard)
      BY <2>1, <2>3, <3>1, ChangedBatches DEF Confirmed
    <3>2. CASE Rejected(i)
      <4>1. tx.with \in Nat \cup {-1}
        BY <2>2, <3>2 DEF Rejected, Settle
      <4>2. [Attempted(batches[i], "retry") EXCEPT !.rejectedBy = tx.with] \in Batches
        BY <2>1, <4>1, ChangedBatches
      <4> QED
        BY <1>0, <3>2, <4>2 DEF Rejected
    <3>3. CASE Retried(i)
      BY <1>0, <2>1, <3>3 DEF Retried
    <3>4. CASE Failed(i)
      BY <1>0, <2>1, <3>4, ChangedBatches DEF Failed
    <3> QED
      BY <1>8, <3>1, <3>2, <3>3, <3>4
  <2>5. faults' \in 0..MaxFaults
    BY <1>8, <1>f DEF Confirmed, Rejected, Retried, Failed
  <2>6. flying' \subseteq flying
    BY <1>8 DEF Confirmed, Rejected, Retried, Failed
  <2>7. batches' \in Seq(Batches) /\ DOMAIN batches' = DOMAIN batches
    BY <1>o, <2>4 DEF Settle
  <2> QED
    BY <1>0, <2>4, <2>5, <2>6, <2>7, RestIsTyped DEF Settle
<1>9. ASSUME SendDies
      PROVE  TypeInv'
  BY <1>0, <1>9, <1>f, RestIsTyped DEF SendDies
<1>10. ASSUME Rotate
       PROVE  TypeInv'
  <2>1. \A i \in DOMAIN batches : batches'[i] \in Batches
    <3> SUFFICES ASSUME NEW i \in DOMAIN batches
                 PROVE  batches'[i] \in Batches
      OBVIOUS
    <3>1. batches'[i] = IF Paused(i) THEN [batches[i] EXCEPT !.rejectedBy = -1]
                        ELSE batches[i]
      BY <1>10 DEF Rotate
    <3>2. -1 \in Nat \cup {-1}
      OBVIOUS
    <3>3. [batches[i] EXCEPT !.rejectedBy = -1] \in Batches
      BY <1>0, <3>2, ChangedBatches
    <3> QED
      BY <1>0, <3>1, <3>3
  <2>2. batches' = [i \in DOMAIN batches |-> batches'[i]]
    BY <1>10 DEF Rotate
  <2>3. batches' \in Seq(Batches) /\ DOMAIN batches' = DOMAIN batches
    BY <1>0, <2>1, <2>2, RewrittenBatches
  <2>4. revision' \in 0..MaxRevisions
    BY <1>0, <1>10 DEF Rotate, BulkAssumption
  <2> QED
    BY <1>0, <1>10, <2>3, <2>4, RestIsTyped DEF Rotate
<1>11. ASSUME NEW heard \in BOOLEAN, Disable(heard)
       PROVE  TypeInv'
  <2>1. batches' \in Seq(Batches) /\ DOMAIN batches' = DOMAIN batches
    BY <1>11, <1>s DEF Disable
  <2>2. faults' \in 0..MaxFaults
    BY <1>11, <1>f DEF Disable
  <2> QED
    BY <1>0, <1>11, <2>1, <2>2, RestIsTyped DEF Disable
<1>12. CASE UNCHANGED vars
  BY <1>12 DEF vars, TypeInv, TypeOK
<1> QED
  BY <1>1, <1>2, <1>3, <1>4, <1>5, <1>6, <1>7, <1>8, <1>9, <1>10, <1>11, <1>12 DEF Next

\* Types, for any events and bounds: attempts stop counting at 32.
THEOREM BulkTypes ==
  ASSUME BulkAssumption
  PROVE  Spec => []TypeOK
<1>1. Init => IInv /\ PassInv /\ TypeInv
  <2>1. Init => TypeInv
    <3> SUFFICES ASSUME Init
                 PROVE  TypeInv
      OBVIOUS
    <3>1. batches = <<>> /\ batches \in Seq(Batches) /\ deletions \in Seq(Subjects)
      BY DEF Init
    <3>2. checkpoint \in Cursors
      BY DEF Init, Cursors, BulkAssumption
    <3>3. tx = NoTx /\ tx.kind = "none"
      BY DEF Init, NoTx
    <3>4. faults \in 0..MaxFaults /\ revision \in 0..MaxRevisions
      BY DEF Init, BulkAssumption
    <3> QED
      BY <3>1, <3>2, <3>3, <3>4 DEF Init, TypeInv, TypeOK
  <2> QED
    BY <2>1, Initially, InitiallyPassed
<1>2. IInv /\ PassInv /\ TypeInv /\ [Next]_vars => (IInv /\ PassInv /\ TypeInv)'
  BY Step, PassStep, TypesStep
<1>3. TypeInv => TypeOK
  BY DEF TypeInv
<1> QED
  BY <1>1, <1>2, <1>3, PTL DEF Spec
=============================================================================
