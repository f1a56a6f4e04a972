------------------------ MODULE AdServicesLookup_proofs ------------------------
(* For any workers and claims, whoever crashes and whichever answers are lost:  *)
(* deletion covers the result, a lookup with a result is never queued, and no   *)
(* response is left in the store that nobody refers to.                         *)
(*                                                                              *)
(* All three rest on what a COMMIT in flight can count on until it lands: its   *)
(* cycle is current, its row is queued under its claim and has no result, and   *)
(* the record is not deleted (SentHolds).  It can, because the row lock and the *)
(* barrier that the completion took (LockHolds) stay with the transaction, not  *)
(* with the worker, and because a worker that queues reads under the fence      *)
(* under which it inserts (QueueingHolds).                                      *)
EXTENDS AdServicesLookup, TLAPS

HoldsRow(w) == at[w] \in {"locked", "written"} \/ inFlight[w] # None

\* A worker past its claim remembers one.
ClaimIsKnown ==
  \A w \in Worker : at[w] \notin {"idle", "queueing"} => mine[w].claim # None

OneHoldsRow ==
  \A v, w \in Worker : HoldsRow(v) /\ HoldsRow(w) => v = w

LockHolds ==
  \A w \in Worker : at[w] \in {"locked", "written"} =>
    /\ row.queued /\ row.claim = mine[w].claim
    /\ source = "available"

SentHolds ==
  \A w \in Worker : inFlight[w] # None =>
    /\ owner = w
    /\ row.queued /\ row.claim = inFlight[w]
    /\ source = "available"
    /\ at[w] \in {"committing", "purging", "idle"}
    /\ at[w] = "committing" => mine[w].claim = inFlight[w]

QueueingHolds ==
  \A w \in Worker : at[w] = "queueing" =>
    /\ source = "available"
    /\ owner = w => result = None

IInv ==
  /\ TypeOK /\ ClaimIsKnown /\ OneHoldsRow /\ LockHolds /\ SentHolds /\ QueueingHolds
  /\ DeletionCoversResult /\ NoPoisonedLookup /\ NoStrayResponse

RowType == [queued : BOOLEAN, attempts : 0..MaxAttempts, due : BOOLEAN,
            claim : Claim \cup {None}, live : BOOLEAN]
Memory == [claim : Claim \cup {None}, attempts : 0..MaxAttempts, aged : BOOLEAN]

\* The constant rows and the empty memory are what they should be.
LEMMA Shapes ==
  /\ NoRow \in RowType /\ ~NoRow.queued
  /\ NewRow \in RowType
  /\ Nothing \in Memory /\ Nothing.claim = None
<1>1. NoRow \in RowType /\ ~NoRow.queued
  BY DEF NoRow, RowType, MaxAttempts
<1>2. \A r \in RowType : [r EXCEPT !.queued = TRUE] \in RowType
  BY DEF RowType
<1>3. \A r \in RowType : [r EXCEPT !.due = TRUE] \in RowType
  BY DEF RowType
<1>4. NewRow \in RowType
  BY <1>1, <1>2, <1>3 DEF NewRow
<1>5. Nothing \in Memory /\ Nothing.claim = None
  BY DEF Nothing, Memory, MaxAttempts
<1> QED
  BY <1>1, <1>4, <1>5

LEMMA Initially == Init => IInv
<1> SUFFICES ASSUME Init
             PROVE  IInv
  OBVIOUS
<1>1. row \in RowType /\ Nothing \in Memory
  BY Shapes DEF Init
<1>2. TypeOK
  BY <1>1 DEF Init, TypeOK, Places, RowType, Memory
<1>3. \A w \in Worker : at[w] = "idle" /\ inFlight[w] = None
  BY DEF Init
<1>4. result = None /\ stored = {}
  BY DEF Init
<1> QED
  BY <1>2, <1>3, <1>4 DEF IInv, ClaimIsKnown, OneHoldsRow, HoldsRow, LockHolds, SentHolds,
     QueueingHolds, DeletionCoversResult, NoPoisonedLookup, NoStrayResponse

\* While a worker holds the row, the barrier is not free.
LEMMA BarrierCoversRow ==
  ASSUME NEW w \in Worker, HoldsRow(w)
  PROVE  RowLocked /\ ~BarrierFree
BY DEF HoldsRow, RowLocked, BarrierFree, HoldsBarrier

\* A lookup that a COMMIT in flight completes has no result.
LEMMA SentHasNoResult ==
  ASSUME IInv, NEW w \in Worker, inFlight[w] # None
  PROVE  result = None
BY DEF IInv, SentHolds, NoPoisonedLookup

-----------------------------------------------------------------------------
\* Time, the purges and a new cycle.
LEMMA SurroundingsKeep ==
  ASSUME IInv,
         \/ BecomesDue \/ TokenAges \/ LeaseExpires \/ PurgeToken \/ PurgeDoomed
         \/ UNCHANGED vars
  PROVE  IInv'
<1>1. /\ UNCHANGED <<owner, source, result, doomed, inFlight, at, mine, orphaned>>
      /\ stored' \subseteq stored
      /\ row'.queued = row.queued /\ row'.claim = row.claim
      /\ TypeOK'
  BY DEF BecomesDue, TokenAges, LeaseExpires, PurgeToken, PurgeDoomed, vars, IInv, TypeOK
<1> QED
  BY <1>1 DEF IInv, ClaimIsKnown, OneHoldsRow, HoldsRow, LockHolds, SentHolds,
     QueueingHolds, DeletionCoversResult, NoPoisonedLookup, NoStrayResponse

LEMMA TakeoverKeeps ==
  ASSUME IInv, NEW w \in Worker, Takeover(w)
  PROVE  IInv'
<1>1. TypeOK'
  BY DEF Takeover, IInv, TypeOK
<1>2. \A v \in Worker : inFlight[v] = None
  BY DEF Takeover, IInv, SentHolds
<1> QED
  BY <1>1, <1>2 DEF Takeover, IInv, ClaimIsKnown, OneHoldsRow, HoldsRow, LockHolds,
     SentHolds, QueueingHolds, DeletionCoversResult, NoPoisonedLookup, NoStrayResponse

\* Recognition meets no completion and no queueing: the barrier is free.
LEMMA RecognizeKeeps ==
  ASSUME IInv, Recognize
  PROVE  IInv'
<1>1. \A w \in Worker :
        ~HoldsRow(w) /\ at[w] # "queueing" /\ at[w] \notin {"locked", "written"}
                     /\ inFlight[w] = None
  BY DEF Recognize, BarrierFree, HoldsBarrier, HoldsRow
<1>2. TypeOK'
  BY Shapes DEF Recognize, IInv, TypeOK, RowType
<1>3. DeletionCoversResult' /\ NoPoisonedLookup'
  BY Shapes DEF Recognize, IInv, TypeOK, DeletionCoversResult, NoPoisonedLookup
<1> QED
  BY <1>1, <1>2, <1>3 DEF Recognize, IInv, ClaimIsKnown, OneHoldsRow, HoldsRow, LockHolds,
     SentHolds, QueueingHolds, NoStrayResponse

-----------------------------------------------------------------------------
Bystander == {"idle", "claimed", "asking", "completing", "rescheduling", "dropping",
              "queueing"}

(* A worker that neither holds the row nor answers for a response moves on, or *)
(* leaves; the row may change as long as its holder's claim stays on it.       *)
LEMMA MoveKeeps ==
  ASSUME IInv, NEW w \in Worker, at[w] \in Bystander,
         NEW s \in Bystander, at' = [at EXCEPT ![w] = s],
         NEW m \in Memory,
         mine' = [mine EXCEPT ![w] = m],
         s \notin {"idle", "queueing"} => m.claim # None /\ inFlight[w] = None,
         s = "queueing" => /\ source = "available" /\ result = None
                           /\ inFlight[w] = None,
         UNCHANGED <<owner, source, aged, token, result, stored, doomed, inFlight, orphaned>>,
         row' \in RowType,
         RowLocked => row' = row,
         row'.queued => result = None
  PROVE  IInv'
<1>1. TypeOK'
  BY DEF IInv, TypeOK, Places, Bystander, RowType, Memory
<1>2. \A v \in Worker : at'[v] = IF v = w THEN s ELSE at[v]
  BY DEF IInv, TypeOK
<1>3. \A v \in Worker : mine'[v] = IF v = w THEN m ELSE mine[v]
  BY DEF IInv, TypeOK
<1>4. \A v \in Worker : HoldsRow(v)' <=> HoldsRow(v)
  BY <1>2 DEF HoldsRow, Bystander
<1>5. \A v \in Worker : HoldsRow(v) => row' = row
  BY BarrierCoversRow
<1>6. ClaimIsKnown' /\ OneHoldsRow'
  BY <1>2, <1>3, <1>4 DEF IInv, ClaimIsKnown, OneHoldsRow
<1>7. LockHolds' /\ SentHolds'
  BY <1>2, <1>3, <1>4, <1>5 DEF IInv, LockHolds, SentHolds, HoldsRow, Bystander
<1>8. QueueingHolds' /\ DeletionCoversResult' /\ NoPoisonedLookup'
  BY <1>2 DEF IInv, QueueingHolds, DeletionCoversResult, NoPoisonedLookup
<1>9. NoStrayResponse'
  BY <1>2, <1>3 DEF IInv, NoStrayResponse, Bystander
<1> QED
  BY <1>1, <1>6, <1>7, <1>8, <1>9 DEF IInv

\* The claim goes on a row that nobody holds.
LEMMA TakeClaimKeeps ==
  ASSUME IInv, NEW w \in Worker, ClaimLookup(w) \/ ClaimUnheard(w)
  PROVE  IInv'
<1>0. at[w] = "idle"
  BY DEF ClaimLookup, ClaimUnheard, TakeClaim
<1>1. PICK c \in Claim, seenAged \in BOOLEAN :
        /\ TakeClaim(w, c, seenAged)
        /\ \/ /\ at' = [at EXCEPT ![w] = "claimed"]
              /\ mine' = [mine EXCEPT ![w] =
                    [claim |-> c, attempts |-> row.attempts, aged |-> seenAged]]
           \/ UNCHANGED <<at, mine>>
  BY DEF ClaimLookup, ClaimUnheard, Goto
<1>2. /\ row' \in RowType
      /\ row'.queued = row.queued
      /\ row.attempts \in 0..MaxAttempts
  BY <1>1 DEF TakeClaim, IInv, TypeOK, RowType
<1>3. /\ ~RowLocked /\ inFlight[w] = None /\ result = None
      /\ UNCHANGED <<owner, source, aged, token, result, stored, doomed, inFlight, orphaned>>
  BY <1>1 DEF TakeClaim, Claimable, RowLocked, IInv, NoPoisonedLookup
<1>4. c # None
  BY BoundAssumptions
<1>5. CASE at' = [at EXCEPT ![w] = "claimed"] /\
           mine' = [mine EXCEPT ![w] =
                    [claim |-> c, attempts |-> row.attempts, aged |-> seenAged]]
  <2> DEFINE m == [claim |-> c, attempts |-> row.attempts, aged |-> seenAged]
  <2>1. m \in Memory /\ m.claim # None
    BY <1>2, <1>4 DEF Memory
  <2>2. "claimed" \in Bystander /\ "idle" \in Bystander
    BY DEF Bystander
  <2> HIDE DEF m
  <2> QED
    BY <1>0, <1>2, <1>3, <1>5, <2>1, <2>2, MoveKeeps DEF m
<1>6. CASE UNCHANGED <<at, mine>>
  <2>1. /\ at' = [at EXCEPT ![w] = "idle"] /\ mine' = [mine EXCEPT ![w] = mine[w]]
        /\ mine[w] \in Memory
    BY <1>0, <1>6 DEF IInv, TypeOK, Memory
  <2>2. "idle" \in Bystander
    BY DEF Bystander
  <2> QED
    BY <1>0, <1>2, <1>3, <2>1, <2>2, MoveKeeps
<1> QED
  BY <1>1, <1>5, <1>6

\* From the claim to the answer, and what throws on the way.
LEMMA AskingKeeps ==
  ASSUME IInv, NEW w \in Worker, Asking(w) \/ Throws(w)
  PROVE  IInv'
<1>1. /\ UNCHANGED <<owner, source, row, aged, token, result, stored, doomed, inFlight,
                     orphaned>>
      /\ at[w] \in Bystander
  BY DEF Asking, Throws, TokenExpired, RateLimited, ReadToken, FinalAnswer, NotFound,
     TransientAnswer, Bystander
<1>2. row' \in RowType /\ (row'.queued => result = None) /\ mine[w] \in Memory
  BY <1>1 DEF IInv, TypeOK, RowType, Memory, NoPoisonedLookup
<1>3. CASE Throws(w)
  <2>1. at' = [at EXCEPT ![w] = "idle"] /\ mine' = [mine EXCEPT ![w] = Nothing]
    BY <1>3 DEF Throws, Leave
  <2> QED
    BY <1>1, <1>2, <2>1, Shapes, MoveKeeps DEF Bystander
<1>4. CASE Asking(w)
  <2>1. /\ at[w] \in {"claimed", "asking"}
        /\ mine[w].claim # None /\ inFlight[w] = None
    BY <1>4 DEF Asking, TokenExpired, RateLimited, ReadToken, FinalAnswer, NotFound,
       TransientAnswer, IInv, ClaimIsKnown, SentHolds
  <2>2. \E s \in {"completing", "rescheduling", "asking", "dropping"} :
          at' = [at EXCEPT ![w] = s]
    BY <1>4 DEF Asking, TokenExpired, RateLimited, ReadToken, FinalAnswer, NotFound,
       TransientAnswer, Goto
  <2>3. \E m \in Memory : m.claim # None /\ mine' = [mine EXCEPT ![w] = m]
    <3>1. CASE UNCHANGED mine
      BY <1>2, <2>1, <3>1 DEF IInv, TypeOK
    <3>2. CASE NotFound(w) /\ mine' # mine
      <4>1. /\ mine[w].attempts + 1 < MaxAttempts
            /\ mine' = [mine EXCEPT ![w].attempts = mine[w].attempts + 1]
        BY <1>2, <3>2 DEF NotFound, Memory, MaxAttempts
      <4> DEFINE m == [mine[w] EXCEPT !.attempts = mine[w].attempts + 1]
      <4>2. m \in Memory /\ m.claim # None
        BY <1>2, <2>1, <4>1 DEF Memory, MaxAttempts
      <4>3. mine' = [mine EXCEPT ![w] = m]
        BY <4>1 DEF IInv, TypeOK
      <4> QED
        BY <4>2, <4>3
    <3>3. CASE TransientAnswer(w)
      <4> DEFINE n == IF mine[w].attempts + 1 =< MaxAttempts
                      THEN mine[w].attempts + 1 ELSE MaxAttempts
                 m == [mine[w] EXCEPT !.attempts = n]
      <4>1. n \in 0..MaxAttempts
        BY <1>2 DEF Memory, MaxAttempts
      <4>2. m \in Memory /\ m.claim # None
        BY <1>2, <2>1, <4>1 DEF Memory
      <4>3. mine' = [mine EXCEPT ![w] = m]
        BY <3>3 DEF TransientAnswer, IInv, TypeOK
      <4> QED
        BY <4>2, <4>3
    <3> QED
      BY <1>4, <3>1, <3>2, <3>3 DEF Asking, TokenExpired, RateLimited, ReadToken, FinalAnswer
  <2>4. {"completing", "rescheduling", "asking", "dropping"}
           \subseteq Bystander \ {"idle", "queueing"}
    BY DEF Bystander
  <2> QED
    BY <1>1, <1>2, <2>1, <2>2, <2>3, <2>4, MoveKeeps
<1> QED
  BY <1>3, <1>4

\* What else ends a claim or queues a lookup waits until nobody holds the row.
LEMMA LeavingKeeps ==
  ASSUME IInv, NEW w \in Worker,
         Reschedule(w) \/ DropUnavailableToken(w) \/ QueueInserts(w)
  PROVE  IInv'
<1>1. /\ UNCHANGED <<owner, source, aged, token, result, stored, doomed, inFlight, orphaned>>
      /\ at[w] \in Bystander /\ ~RowLocked
      /\ at' = [at EXCEPT ![w] = "idle"] /\ mine' = [mine EXCEPT ![w] = Nothing]
  BY DEF Reschedule, DropUnavailableToken, QueueInserts, Leave, Bystander
<1>2. row \in RowType /\ mine[w] \in Memory /\ (row.queued => result = None)
  BY DEF IInv, TypeOK, RowType, Memory, NoPoisonedLookup
<1>3. row' \in RowType
  <2>1. CASE Reschedule(w)
    <3>1. \A r \in RowType, n \in 0..MaxAttempts :
            [r EXCEPT !.attempts = n, !.due = FALSE] \in RowType
      BY DEF RowType
    <3>2. mine[w].attempts \in 0..MaxAttempts
      BY <1>2 DEF Memory
    <3> QED
      BY <1>2, <2>1, <3>1, <3>2, Shapes DEF Reschedule
  <2>2. CASE DropUnavailableToken(w) \/ QueueInserts(w)
    BY <1>2, <2>2, Shapes DEF DropUnavailableToken, QueueInserts
  <2> QED
    BY <2>1, <2>2
<1>4. row'.queued => result = None
  <2>1. CASE Reschedule(w)
    BY <1>2, <2>1 DEF Reschedule, OwnsClaim
  <2>2. CASE DropUnavailableToken(w)
    BY <1>2, <2>2, Shapes DEF DropUnavailableToken
  <2>3. CASE QueueInserts(w)
    BY <1>2, <2>3 DEF QueueInserts, Fenced, IInv, QueueingHolds
  <2> QED
    BY <2>1, <2>2, <2>3
<1>5. "idle" \in Bystander
  BY DEF Bystander
<1> QED
  BY <1>1, <1>3, <1>4, <1>5, Shapes, MoveKeeps

LEMMA QueueReadsKeeps ==
  ASSUME IInv, NEW w \in Worker, QueueReads(w)
  PROVE  IInv'
<1>1. /\ at' = [at EXCEPT ![w] = "queueing"] /\ mine' = [mine EXCEPT ![w] = mine[w]]
      /\ at[w] = "idle" /\ inFlight[w] = None
      /\ source = "available" /\ result = None
      /\ mine[w] \in Memory /\ row' \in RowType /\ row' = row
  BY DEF QueueReads, Goto, IInv, TypeOK, Memory, RowType
<1>2. "idle" \in Bystander /\ "queueing" \in Bystander
  BY DEF Bystander
<1> QED
  BY <1>1, <1>2, MoveKeeps DEF QueueReads

-----------------------------------------------------------------------------
(* The completion. *)

LEMMA LockCompletionKeeps ==
  ASSUME IInv, NEW w \in Worker, LockCompletion(w)
  PROVE  IInv'
<1>0. /\ at[w] = "completing" /\ ~RowLocked /\ inFlight[w] = None
      /\ UNCHANGED <<owner, source, row, aged, token, result, stored, doomed, inFlight,
                     orphaned>>
  BY DEF LockCompletion, RowLocked
<1>1. CASE ~MayComplete(w)
  <2>1. at' = [at EXCEPT ![w] = "idle"] /\ mine' = [mine EXCEPT ![w] = Nothing]
    BY <1>1 DEF LockCompletion, Leave
  <2>2. row' \in RowType /\ (row'.queued => result = None)
    BY <1>0 DEF IInv, TypeOK, RowType, NoPoisonedLookup
  <2>3. "completing" \in Bystander /\ "idle" \in Bystander
    BY DEF Bystander
  <2> QED
    BY <1>0, <2>1, <2>2, <2>3, Shapes, MoveKeeps
<1>2. CASE MayComplete(w)
  <2>1. at' = [at EXCEPT ![w] = "locked"] /\ mine' = mine
    BY <1>2 DEF LockCompletion, Goto
  <2>2. \A v \in Worker : ~HoldsRow(v)
    BY <1>0, BarrierCoversRow
  <2>3. \A v \in Worker : at'[v] = IF v = w THEN "locked" ELSE at[v]
    BY <2>1 DEF IInv, TypeOK
  <2>4. TypeOK'
    BY <1>0, <2>1 DEF IInv, TypeOK, Places
  <2>5. OneHoldsRow' /\ LockHolds' /\ SentHolds'
    BY <1>0, <1>2, <2>1, <2>2, <2>3 DEF OneHoldsRow, LockHolds, SentHolds, HoldsRow,
       MayComplete, OwnsClaim
  <2>6. NoStrayResponse' /\ ClaimIsKnown' /\ QueueingHolds'
    BY <1>0, <2>1, <2>3 DEF IInv, NoStrayResponse, ClaimIsKnown, QueueingHolds
  <2> QED
    BY <1>0, <2>4, <2>5, <2>6 DEF IInv, DeletionCoversResult, NoPoisonedLookup
<1> QED
  BY <1>1, <1>2

LEMMA WriteResponseKeeps ==
  ASSUME IInv, NEW w \in Worker, WriteResponse(w)
  PROVE  IInv'
<1>1. /\ at[w] = "locked" /\ stored' = stored \cup {mine[w].claim}
      /\ mine[w].claim \in Claim
      /\ UNCHANGED <<owner, source, row, aged, token, result, doomed, inFlight, mine,
                     orphaned>>
      /\ at' = [at EXCEPT ![w] = "written"]
  BY DEF WriteResponse, Goto, IInv, ClaimIsKnown, TypeOK
<1>2. \A v \in Worker : at'[v] = IF v = w THEN "written" ELSE at[v]
  BY <1>1 DEF IInv, TypeOK
<1>3. TypeOK'
  BY <1>1 DEF IInv, TypeOK, Places
<1>4. NoStrayResponse'
  BY <1>1, <1>2 DEF IInv, NoStrayResponse
<1> QED
  BY <1>1, <1>2, <1>3, <1>4 DEF IInv, ClaimIsKnown, OneHoldsRow, HoldsRow, LockHolds,
     SentHolds, QueueingHolds, DeletionCoversResult, NoPoisonedLookup

LEMMA SendCommitKeeps ==
  ASSUME IInv, NEW w \in Worker, SendCommit(w)
  PROVE  IInv'
<1>1. /\ at[w] = "written" /\ owner = w /\ mine[w].claim \in Claim
      /\ UNCHANGED <<owner, source, row, aged, token, result, stored, doomed, mine, orphaned>>
      /\ at' = [at EXCEPT ![w] = "committing"]
      /\ inFlight' = [inFlight EXCEPT ![w] = mine[w].claim]
  BY DEF SendCommit, Goto, Fenced, IInv, ClaimIsKnown, TypeOK
<1>2. \A v \in Worker : /\ at'[v] = IF v = w THEN "committing" ELSE at[v]
                        /\ inFlight'[v] = IF v = w THEN mine[w].claim ELSE inFlight[v]
  BY <1>1 DEF IInv, TypeOK
<1>3. TypeOK'
  BY <1>1 DEF IInv, TypeOK, Places
<1>4. NoStrayResponse'
  BY <1>1, <1>2 DEF IInv, NoStrayResponse
<1> QED
  BY <1>1, <1>2, <1>3, <1>4 DEF IInv, ClaimIsKnown, OneHoldsRow, HoldsRow, LockHolds,
     SentHolds, QueueingHolds, DeletionCoversResult, NoPoisonedLookup

\* What COMMIT records is the only result there is, under the barrier that
\* keeps a deletion out until then.
LEMMA CommitLandsKeeps ==
  ASSUME IInv, NEW w \in Worker, CommitLands(w)
  PROVE  IInv'
<1>1. /\ inFlight[w] # None /\ owner = w /\ source = "available" /\ result = None
      /\ at[w] \in {"committing", "purging", "idle"}
      /\ at[w] = "committing" => mine[w].claim = inFlight[w]
  BY SentHasNoResult DEF CommitLands, IInv, SentHolds
<1>2. /\ inFlight' = [inFlight EXCEPT ![w] = None] /\ result' = inFlight[w]
      /\ row' = NoRow
      /\ UNCHANGED <<owner, source, aged, token, stored, doomed, orphaned>>
      /\ \/ /\ at[w] = "committing" /\ at' = [at EXCEPT ![w] = "idle"]
            /\ mine' = [mine EXCEPT ![w] = Nothing]
         \/ at[w] # "committing" /\ UNCHANGED <<at, mine>>
  BY DEF CommitLands, Leave
<1>3. \A v \in Worker :
        /\ inFlight'[v] = IF v = w THEN None ELSE inFlight[v]
        /\ v # w => at'[v] = at[v] /\ mine'[v] = mine[v]
        /\ v # w => ~HoldsRow(v)
  BY <1>1, <1>2 DEF IInv, TypeOK, OneHoldsRow, HoldsRow
<1>4. /\ at'[w] \in {"purging", "idle"}
      /\ at'[w] # "idle" => mine'[w] = mine[w] /\ at'[w] = at[w]
  BY <1>1, <1>2 DEF IInv, TypeOK
<1>5. TypeOK'
  BY <1>1, <1>2, Shapes DEF IInv, TypeOK, Places, RowType, Memory
<1>6. \A v \in Worker : ~HoldsRow(v)'
  BY <1>3, <1>4 DEF HoldsRow
<1>7. NoStrayResponse'
  <2>1. \A c \in stored : c # result
    BY <1>1, BoundAssumptions DEF IInv, TypeOK
  <2> QED
    BY <1>1, <1>2, <1>3, <1>4, <2>1 DEF IInv, NoStrayResponse
<1>8. QueueingHolds'
  BY <1>1, <1>2, <1>3, <1>4 DEF IInv, QueueingHolds
<1>9. ClaimIsKnown'
  BY <1>3, <1>4 DEF IInv, ClaimIsKnown
<1>10. OneHoldsRow' /\ LockHolds' /\ SentHolds'
  BY <1>6 DEF OneHoldsRow, LockHolds, SentHolds, HoldsRow
<1>11. DeletionCoversResult' /\ NoPoisonedLookup'
  BY <1>1, <1>2, Shapes DEF DeletionCoversResult, NoPoisonedLookup
<1> QED
  BY <1>5, <1>7, <1>8, <1>9, <1>10, <1>11 DEF IInv

(* A completion that fails before, at or after COMMIT: the worker turns to the  *)
(* purge of what it wrote, and remembers which response that is.                *)
LEMMA FailedCompletionKeeps ==
  ASSUME IInv, NEW w \in Worker, StatementFails(w) \/ CommitAborts(w) \/ AnswerLost(w)
  PROVE  IInv'
<1>1. /\ UNCHANGED <<owner, source, row, aged, token, result, stored, doomed, orphaned>>
      /\ at[w] \in {"locked", "written", "committing", "purging", "idle"}
      /\ inFlight' \in [Worker -> Claim \cup {None}]
      /\ \A v \in Worker : /\ inFlight'[v] # None => inFlight'[v] = inFlight[v]
                           /\ v # w => inFlight'[v] = inFlight[v]
  BY DEF StatementFails, CommitAborts, AnswerLost, IInv, TypeOK, SentHolds
<1>2. \/ /\ at[w] = "locked" /\ at' = [at EXCEPT ![w] = "idle"]
         /\ mine' = [mine EXCEPT ![w] = Nothing]
      \/ /\ at[w] \in {"written", "committing"} /\ at' = [at EXCEPT ![w] = "purging"]
         /\ mine' = mine
      \/ /\ at[w] \in {"purging", "idle"} /\ UNCHANGED <<at, mine>>
  BY <1>1 DEF StatementFails, CommitAborts, AnswerLost, Goto, Leave, IInv, TypeOK, SentHolds
<1>3. TypeOK'
  BY <1>1, <1>2, Shapes DEF IInv, TypeOK, Places, Memory
<1>4. \A v \in Worker : v # w => at'[v] = at[v] /\ mine'[v] = mine[v]
  BY <1>2 DEF IInv, TypeOK
<1>5. /\ at'[w] \in {"purging", "idle"}
      /\ at'[w] = "purging" =>
           mine'[w] = mine[w] /\ at[w] \in {"written", "committing", "purging"}
      /\ at'[w] = "idle" => at[w] \in {"locked", "idle"}
  BY <1>2 DEF IInv, TypeOK
<1>6. \A v \in Worker : HoldsRow(v)' => HoldsRow(v)
  BY <1>1, <1>4, <1>5 DEF HoldsRow
<1>7. NoStrayResponse'
  BY <1>1, <1>2, <1>4, <1>5 DEF IInv, NoStrayResponse, TypeOK
<1>8. ClaimIsKnown' /\ OneHoldsRow' /\ QueueingHolds'
  BY <1>1, <1>4, <1>5, <1>6 DEF IInv, ClaimIsKnown, OneHoldsRow, QueueingHolds
<1>9. LockHolds' /\ SentHolds'
  BY <1>1, <1>4, <1>5 DEF IInv, LockHolds, SentHolds
<1> QED
  BY <1>1, <1>3, <1>7, <1>8, <1>9 DEF IInv, DeletionCoversResult, NoPoisonedLookup

\* What a worker stops answering for is purged, or its worker dies with it.
LEMMA GoneWorkerKeeps ==
  ASSUME IInv, NEW w \in Worker, PurgeResponse(w) \/ Crash(w)
  PROVE  IInv'
<1>1. /\ UNCHANGED <<owner, source, row, aged, token, result, doomed, inFlight>>
      /\ at' = [at EXCEPT ![w] = "idle"] /\ mine' = [mine EXCEPT ![w] = Nothing]
      /\ orphaned \subseteq orphaned'
      /\ \A c \in stored' : c \in stored /\ (c = mine[w].claim => c \in orphaned')
      /\ orphaned' \subseteq orphaned \cup stored
  BY DEF PurgeResponse, Crash, Leave
<1>2. TypeOK'
  BY <1>1, Shapes DEF IInv, TypeOK, Places, Memory
<1>3. \A v \in Worker : /\ at'[v] = IF v = w THEN "idle" ELSE at[v]
                        /\ v # w => mine'[v] = mine[v]
  BY <1>1 DEF IInv, TypeOK
<1>4. NoStrayResponse'
  BY <1>1, <1>3 DEF IInv, NoStrayResponse
<1> QED
  BY <1>1, <1>2, <1>3, <1>4 DEF IInv, ClaimIsKnown, OneHoldsRow, HoldsRow, LockHolds,
     SentHolds, QueueingHolds, DeletionCoversResult, NoPoisonedLookup

LEMMA NextKeeps == IInv /\ [Next]_vars => IInv'
BY SurroundingsKeep, TakeoverKeeps, RecognizeKeeps, TakeClaimKeeps, AskingKeeps,
   LeavingKeeps, QueueReadsKeeps, LockCompletionKeeps, WriteResponseKeeps, SendCommitKeeps,
   CommitLandsKeeps, FailedCompletionKeeps, GoneWorkerKeeps DEF Next, Ending, Failing

-----------------------------------------------------------------------------
(* Whichever worker crashes and whichever answer is lost, the lookup, its       *)
(* deletion and its completion keep the invariant above.                        *)
THEOREM LookupInvariant == Spec => []IInv
BY Initially, NextKeeps, PTL DEF Spec

(* If completion commits first, deletion has its response in the purge          *)
(* snapshot; if deletion commits first, no result follows (completeLookup and   *)
(* the capture of executePrivacyRequest).                                       *)
THEOREM DeletionCovers == Spec => []DeletionCoversResult
<1>1. IInv => DeletionCoversResult
  BY DEF IInv
<1> QED
  BY <1>1, LookupInvariant, PTL

(* No lookup that has a result is queued, not even by an SDK inbox that         *)
(* recovers a batch (queueAdServicesLookup), so none can stop the job for the   *)
(* lookups behind it.                                                           *)
THEOREM NoLookupIsPoisoned == Spec => []LookupIsNotPoisoned
<1>1. IInv => LookupIsNotPoisoned
  BY DEF IInv, LookupIsNotPoisoned
<1> QED
  BY <1>1, LookupInvariant, PTL

(* Every response in the store is the result's, or a worker still commits or    *)
(* purges it, or its worker died (the catch of completeLookup).                 *)
THEOREM ResponsesAreAccountedFor == Spec => []NoStrayResponse
<1>1. IInv => NoStrayResponse
  BY DEF IInv
<1> QED
  BY <1>1, LookupInvariant, PTL
=============================================================================
