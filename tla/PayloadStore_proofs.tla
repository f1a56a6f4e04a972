------------------------ MODULE PayloadStore_proofs ------------------------
(* The lease of the payload store keeps live processes apart, and what the     *)
(* store keeps stays what its callers rely on, for any number of processes,    *)
(* hosts, objects and keys, any of them killed at any step.                    *)
(*                                                                             *)
(* Mutual exclusion is not inductive by itself: Discard moves whatever lease   *)
(* is at the path.  What makes it safe is that only one process is between     *)
(* reading the owner and discarding the lease (GuardHeld), and that the owner  *)
(* it read is dead and stays there (Condemned).  For the staging files, that   *)
(* no lease is left with one (FreeIsClean).  The second half of the module     *)
(* (DataInv) builds on it: the owner of the lease is alone with the files.     *)
(* PrivacyDeletion_proofs has the deletions' arguments; what they show of the  *)
(* deletions here is at the end.                                               *)
EXTENDS PayloadDeletions, FiniteSetTheorems, TLAPS

ControlOK ==
    /\ lock \in Process \cup {None}
    /\ guard \in Process \cup {None}
    /\ staging \subseteq {"entry", "state"}
    /\ pc \in [Process -> Step]

GuardHeld == \A p \in Process : pc[p] \in InGuard => guard = p

Condemned ==
    \A p \in Process : pc[p] \in {"cleaning", "discarding"} =>
        lock \in Process /\ pc[lock] = "dead"

FreeIsClean ==
    /\ lock = None => staging = {}
    /\ \A p \in Process : pc[p] = "discarding" => staging = {}

IInv == ControlOK /\ MutualExclusion /\ GuardHeld /\ Condemned
        /\ FreeIsClean /\ StagingIsTheOwners

-----------------------------------------------------------------------------
\* The initial state has no lease, no reclaim directory and no staging file.
LEMMA InitIInv == Init => IInv
  BY ProcessAssumption DEF Init, IInv, ControlOK, MutualExclusion, GuardHeld, Condemned,
     FreeIsClean, StagingIsTheOwners, InWork, InGuard, Step

(* The work of the lease's owner (write, purge, rewrap, or its failure)        *)
(* disturbs neither the lease nor its recovery.                                *)
LEMMA WorkKeepsIInv ==
  ASSUME IInv, NEW p \in Process, Work(p) \/ WorkFails(p)
  PROVE  IInv'
<1>1. /\ lock' = lock /\ guard' = guard
      /\ lock = p /\ pc[p] \in InWork
      /\ pc' = [pc EXCEPT ![p] = pc'[p]] /\ pc'[p] \in InWork
  BY DEF IInv, ControlOK, MutualExclusion, Work, WorkFails, Rewrap, WriteKey, WriteObject,
     WriteObjectFails, PurgeObject, PurgeKey, OpenBatch, PassEntry, StageEntry,
     RenameEntry, RefuseEntry, ClosePage, StageState, RenameState, Goto, InWork
<1>2. /\ staging' \subseteq {"entry", "state"}
      /\ "entry" \in staging' <=> pc'[p] = "entryStaged"
      /\ "state" \in staging' <=> pc'[p] = "stateStaged"
  <2>1. /\ "entry" \in staging <=> pc[p] = "entryStaged"
        /\ "state" \in staging <=> pc[p] = "stateStaged"
        /\ staging \subseteq {"entry", "state"} /\ pc \in [Process -> Step]
    BY <1>1 DEF IInv, ControlOK, StagingIsTheOwners
  <2>2. CASE WorkFails(p)
    BY <2>1, <2>2 DEF WorkFails, Goto, InWork
  <2>3. CASE Rewrap(p)
    BY <2>1, <2>3 DEF Rewrap, OpenBatch, PassEntry, StageEntry, RenameEntry,
       RefuseEntry, ClosePage, StageState, RenameState, Goto, files
  <2>4. CASE Work(p) /\ ~Rewrap(p)
    BY <2>1, <2>4 DEF Work, WriteKey, WriteObject, WriteObjectFails, PurgeObject,
       PurgeKey, Goto
  <2> QED BY <2>2, <2>3, <2>4
<1>3. \A q \in Process : q # p => pc'[q] = pc[q] /\ pc[q] \notin InWork
  BY <1>1 DEF IInv, ControlOK, MutualExclusion
<1>4. pc[p] # "dead" /\ lock \in Process /\ lock # None
  BY <1>1, ProcessAssumption DEF InWork
<1>5. \A q \in Process : pc[q] \notin {"cleaning", "discarding"}
  BY <1>1, <1>4 DEF IInv, Condemned
<1>6. ControlOK'
  BY <1>1, <1>2 DEF IInv, ControlOK, Step
<1>7. MutualExclusion' /\ StagingIsTheOwners'
  BY <1>1, <1>2, <1>3 DEF MutualExclusion, StagingIsTheOwners
<1>8. GuardHeld' /\ Condemned' /\ FreeIsClean'
  BY <1>1, <1>3, <1>4, <1>5 DEF IInv, GuardHeld, Condemned, FreeIsClean, InWork, InGuard
<1> QED BY <1>6, <1>7, <1>8 DEF IInv

(* A process outside the lease and its recovery moves among such steps: a      *)
(* call begins, gives up, or reads.                                            *)
LEMMA OutsideKeepsIInv ==
  ASSUME IInv, NEW p \in Process, UNCHANGED <<lock, guard, staging>>,
         pc[p] \notin InWork \cup InGuard \cup {"dead"},
         NEW s \in Step \ (InWork \cup InGuard), pc' = [pc EXCEPT ![p] = s]
  PROVE  IInv'
<1>1. ControlOK'
  BY DEF IInv, ControlOK
<1>2. MutualExclusion' /\ StagingIsTheOwners'
  BY DEF IInv, ControlOK, MutualExclusion, StagingIsTheOwners
<1>3. GuardHeld' /\ Condemned' /\ FreeIsClean'
  BY DEF IInv, ControlOK, GuardHeld, Condemned, FreeIsClean, InGuard
<1> QED BY <1>1, <1>2, <1>3 DEF IInv

(* Acquiring: the path is free, so there is no lease to disturb and, by        *)
(* FreeIsClean, no staging file.                                               *)
LEMMA AcquireKeepsIInv ==
  ASSUME IInv, NEW p \in Process, Acquire(p)
  PROVE  IInv'
<1> USE DEF Acquire, Goto
<1>1. \A q \in Process : pc[q] \notin InWork /\ pc[q] \notin {"cleaning", "discarding"}
  BY ProcessAssumption DEF IInv, MutualExclusion, Condemned
<1>2. ControlOK'
  BY DEF IInv, ControlOK, Step, InWork, files
<1>3. MutualExclusion' /\ StagingIsTheOwners'
  BY <1>1 DEF IInv, ControlOK, MutualExclusion, StagingIsTheOwners, FreeIsClean, files
<1>4. GuardHeld' /\ Condemned' /\ FreeIsClean'
  BY <1>1, ProcessAssumption
  DEF IInv, ControlOK, GuardHeld, Condemned, FreeIsClean, InGuard, files
<1> QED BY <1>2, <1>3, <1>4 DEF IInv

(* Looking at the owner from the reclaim directory: whoever made the directory *)
(* is alone in it.                                                             *)
LEMMA GuardKeepsIInv ==
  ASSUME IInv, NEW p \in Process, EnterGuard(p) \/ ReadOwner(p) \/ LeaveGuard(p)
  PROVE  IInv'
<1> USE DEF Goto, files
<1>1. CASE EnterGuard(p)
  BY <1>1, ProcessAssumption DEF EnterGuard, IInv, ControlOK, MutualExclusion, GuardHeld,
     Condemned, FreeIsClean, StagingIsTheOwners, InWork, InGuard, Step
<1>2. CASE ReadOwner(p)
  <2>1. lock # None /\ EndedOwner(p, lock) => lock \in Process /\ pc[lock] = "dead" /\ lock # p
    BY <1>2 DEF ReadOwner, EndedOwner, IInv, ControlOK
  <2>2. UNCHANGED <<lock, guard, staging>> /\ pc[p] = "guarded"
        /\ \E s \in {"cleaning", "unguarding"} :
              /\ pc' = [pc EXCEPT ![p] = s]
              /\ s = "cleaning" => lock \in Process /\ pc[lock] = "dead" /\ lock # p
    BY <1>2, <2>1 DEF ReadOwner
  <2> QED
    BY <2>2 DEF IInv, ControlOK, MutualExclusion, GuardHeld,
     Condemned, FreeIsClean, StagingIsTheOwners, InWork, InGuard, Step
<1>3. CASE LeaveGuard(p)
  <2>1. guard = p /\ \A q \in Process : q # p => pc[q] \notin InGuard
    BY <1>3 DEF LeaveGuard, IInv, GuardHeld, InGuard
  <2> QED
    BY <1>3, <2>1 DEF LeaveGuard, IInv, ControlOK, MutualExclusion, GuardHeld,
       Condemned, FreeIsClean, StagingIsTheOwners, InWork, InGuard, Step
<1> QED BY <1>1, <1>2, <1>3

(* Discarding: the lease is the dead owner's, so no live process works; its    *)
(* staging files went first.                                                   *)
LEMMA DiscardKeepsIInv ==
  ASSUME IInv, NEW p \in Process, CleanStaging(p) \/ Discard(p)
  PROVE  IInv'
<1> USE DEF Goto
<1>1. pc[p] \in {"cleaning", "discarding"}
  BY DEF CleanStaging, Discard
<1>2. lock \in Process /\ pc[lock] = "dead"
  BY <1>1 DEF IInv, Condemned
<1>3. \A q \in Process : pc[q] \notin InWork
  BY <1>2 DEF IInv, MutualExclusion, InWork
<1>4. \A q \in Process : q # p => pc[q] \notin InGuard
  BY <1>1 DEF IInv, GuardHeld, InGuard
<1>5. CASE CleanStaging(p)
  BY <1>1, <1>2, <1>3, <1>4, <1>5 DEF CleanStaging, IInv, ControlOK, MutualExclusion,
     GuardHeld, Condemned, FreeIsClean, StagingIsTheOwners, InWork, InGuard, Step
<1>6. CASE Discard(p)
  BY <1>1, <1>3, <1>4, <1>6 DEF Discard, IInv, ControlOK, MutualExclusion,
     GuardHeld, Condemned, FreeIsClean, StagingIsTheOwners, InWork, InGuard, Step, files
<1> QED BY <1>5, <1>6

\* The owner leaves no staging file with the lease it gives up.
LEMMA ReleaseKeepsIInv ==
  ASSUME IInv, NEW p \in Process, Release(p)
  PROVE  IInv'
<1> USE DEF Release, Goto, files
<1>1. lock = p /\ staging = {}
  BY DEF IInv, ControlOK, MutualExclusion, StagingIsTheOwners, InWork
<1>2. \A q \in Process : q # p => pc[q] \notin InWork
  BY <1>1 DEF IInv, MutualExclusion
<1>3. \A q \in Process : pc[q] \notin {"cleaning", "discarding"}
  BY <1>1 DEF IInv, Condemned
<1> QED
  BY <1>1, <1>2, <1>3, ProcessAssumption DEF IInv, ControlOK, MutualExclusion,
     GuardHeld, Condemned, FreeIsClean, StagingIsTheOwners, InWork, InGuard, Step

\* A killed process keeps what it holds, and works no more.
LEMMA CrashKeepsIInv ==
  ASSUME IInv, NEW p \in Process, Crash(p)
  PROVE  IInv'
  BY DEF Crash, Goto, files, IInv, ControlOK, MutualExclusion, GuardHeld, Condemned,
     FreeIsClean, StagingIsTheOwners, InWork, InGuard, Step

LEMMA NextKeepsIInv == IInv /\ [Next]_vars => IInv'
<1> SUFFICES ASSUME IInv, [Next]_vars PROVE IInv'
  OBVIOUS
<1>1. CASE UNCHANGED vars
  BY <1>1 DEF vars, files, IInv, ControlOK, MutualExclusion, GuardHeld, Condemned,
     FreeIsClean, StagingIsTheOwners
<1>2. CASE RecoverOffline
  BY <1>2, ProcessAssumption DEF RecoverOffline, IInv, ControlOK, MutualExclusion,
     GuardHeld, Condemned, FreeIsClean, StagingIsTheOwners, InWork, InGuard
<1>3. ASSUME NEW p \in Process,
             \/ \E op \in Op, o \in Object \cup {0} : Begin(p, op, o)
             \/ \E o \in Object : BeginRead(p, o)
             \/ GiveUp(p) \/ ReadKeyState(p) \/ ReadObject(p) \/ ReadKey(p)
             \/ ThrowNotFound(p)
      PROVE  IInv'
  <2>1. /\ UNCHANGED <<lock, guard, staging>>
        /\ pc[p] \in {"idle", "waiting", "opening", "reading", "readKey", "notFound"}
        /\ \E s \in {"idle", "waiting", "opening", "reading", "readKey", "notFound"} :
              pc' = [pc EXCEPT ![p] = s]
    BY <1>3 DEF Begin, BeginRead, GiveUp, ReadKeyState, ReadObject, ReadKey,
       ThrowNotFound, Returns, Goto, files
  <2>2. PICK s \in {"idle", "waiting", "opening", "reading", "readKey", "notFound"} :
              pc' = [pc EXCEPT ![p] = s]
    BY <2>1
  <2>3. s \in Step \ (InWork \cup InGuard)
        /\ pc[p] \notin InWork \cup InGuard \cup {"dead"}
    BY <2>1 DEF Step, InWork, InGuard
  <2> QED BY <2>1, <2>2, <2>3, OutsideKeepsIInv
<1>4. ASSUME NEW p \in Process, Reconfigure(p) PROVE IInv'
  BY <1>4 DEF Reconfigure, files, IInv, ControlOK, MutualExclusion, GuardHeld, Condemned,
     FreeIsClean, StagingIsTheOwners
<1> QED
  BY <1>1, <1>2, <1>3, <1>4, WorkKeepsIInv, AcquireKeepsIInv, GuardKeepsIInv,
     DiscardKeepsIInv, ReleaseKeepsIInv, CrashKeepsIInv DEF Next, Reclaim

-----------------------------------------------------------------------------
(* No two live processes ever work on the payload store at once, and each      *)
(* works only under the lease (withPayloadLock, reclaimEndedOwner).            *)
THEOREM LeaseExcludes == Spec => []MutualExclusion
<1>1. IInv => MutualExclusion
  BY DEF IInv
<1> QED BY <1>1, InitIInv, NextKeepsIInv, PTL DEF Spec

(* The owner of the lease never meets a staging file it did not make, nor      *)
(* loses one it made (replaceAtomically, reclaimEndedOwner).                   *)
THEOREM StagingIsExclusive == Spec => []StagingIsTheOwners
<1>1. IInv => StagingIsTheOwners
  BY DEF IInv
<1> QED BY <1>1, InitIInv, NextKeepsIInv, PTL DEF Spec

-----------------------------------------------------------------------------
(* What the store keeps.  Three facts carry the rest: every key is under the   *)
(* store's key or, in a rotation, the next one (KeysAreCurrent); a process     *)
(* that writes draws a name that no other one writes and no write has          *)
(* returned, and finds no key there (WritersAreApart, CallFits, ObjectFits);   *)
(* and everything up to the cursor of a verification is under the next key,    *)
(* the page in progress included once its names have passed (CursorIsVerified, *)
(* DraftIsVerified).                                                           *)

Rotating == {"paging", "entryStaged", "saving", "stateStaged"}
Calling == {"waiting"} \cup InGuard \cup InWork

KeysAreCurrent ==
    \A o \in Object :
        keyFile[o] \in {NoKey, keyState.key} \cup
             (IF keyState.phase = "ready" THEN {} ELSE {keyState.key + 1})

\* A process at step s of call c was called for that step, with an argument that
\* allows it.
CallFits(p, s, c) ==
    /\ s \in {"idle", "dead"} => c = NoCall
    /\ s \in {"opening", "reading", "readKey", "notFound"} =>
         c.op = "read" /\ c.item \in returned
    /\ s \in Calling => c.op \in {"write", "purge", "rewrap"}
    /\ c.op = "write" => c.item \in Object \ returned
    /\ c.op = "purge" => c.item \in erasing
    /\ c.op = "rewrap" => secret[p] < MaxKey
    /\ s = "keyed" => c.op = "write"
    /\ s = "halfErased" => c.op = "purge"
    /\ s \in Rotating => c.op = "rewrap"

\* What a write, a purge and a read that found nothing know of their object.
ObjectFits(s, c) ==
    /\ c.op = "write" /\ s \in {"waiting", "locked"} \cup InGuard => keyFile[c.item] = NoKey
    /\ s = "keyed" => keyFile[c.item] # NoKey /\ ~objFile[c.item]
    /\ s = "halfErased" => ~objFile[c.item]
    /\ s = "notFound" => c.item \in erasing

\* What the state that a batch is about to save says has been verified.
DraftIsVerified(draft, todo) ==
    IF keyState.phase = "verifying"
    THEN \/ /\ draft.phase = "verifying" /\ draft.key = keyState.key
            /\ \A o \in Object \ todo :
                 o <= draft.after => keyFile[o] \in {NoKey, keyState.key + 1}
         \/ /\ draft.phase = "ready" /\ draft.key = keyState.key + 1 /\ draft.after = 0
            /\ \A o \in Object \ todo : keyFile[o] \in {NoKey, keyState.key + 1}
    ELSE /\ draft.phase \in {"rewrapping", "verifying"} /\ draft.key = keyState.key
         /\ draft.phase = "verifying" => draft.after = 0

RotationFits(p, s, c) ==
    s \in Rotating =>
        /\ keyState.key = secret[p]
        /\ keyState.phase = "ready" => s \in {"saving", "stateStaged"}
                                       /\ c.draft.phase = "rewrapping"
        /\ DraftIsVerified(c.draft, c.todo)
        /\ keyState.phase # "ready" /\ s \in {"saving", "stateStaged"} => c.todo = {}
        /\ s = "entryStaged" => Replaceable(p, First(c.todo))

Fits(p, s, c) == CallFits(p, s, c) /\ ObjectFits(s, c) /\ RotationFits(p, s, c)

CallsFit == \A p \in Process : Fits(p, pc[p], call[p])

WritersAreApart ==
    \A p, q \in Process :
        call[p].op = "write" /\ call[q].op = "write" /\ p # q =>
            call[p].item # call[q].item

HistoryOK == erased \subseteq erasing /\ erasing \subseteq returned

ObjectsHaveKeys ==
    /\ \A o \in Object : objFile[o] => keyFile[o] # NoKey
    /\ \A o \in returned \ erasing : objFile[o]

CursorIsVerified ==
    keyState.phase = "verifying" =>
        \A o \in Object : o <= keyState.after => keyFile[o] \in {NoKey, keyState.key + 1}

DataInv ==
    /\ TypeOK /\ CallsFit /\ WritersAreApart
    /\ HistoryOK /\ ObjectsHaveKeys /\ ErasedStaysErased
    /\ KeysAreCurrent /\ CursorIsVerified

-----------------------------------------------------------------------------
(* The page of a batch.                                                        *)

LEMMA SmallerSet ==
  ASSUME NEW S, NEW A \in SUBSET S, NEW B \in SUBSET S, A \subseteq B, A # B
  PROVE  <<A, B>> \in StrictSubsetOrdering(S)
BY DEF StrictSubsetOrdering

\* A finite set of numbers that is not empty has a least and a greatest one: the
\* smallest of the sets of what is below, or above, some member is empty.
LEMMA Extremes ==
  ASSUME NEW S \in SUBSET Nat, IsFiniteSet(S), S # {}
  PROVE  /\ \E m \in S : \A q \in S : q <= m
         /\ \E m \in S : \A q \in S : m <= q
<1> DEFINE Above(o) == {q \in S : o < q}
           Below(o) == {q \in S : q < o}
           R == StrictSubsetOrdering(S)
<1>1. IsWellFoundedOn(R, FiniteSubsetsOf(S))
  BY FS_StrictSubsetOrderingWellFounded
<1>2. \A T \in SUBSET S : T \in FiniteSubsetsOf(S)
  BY FS_Subset DEF FiniteSubsetsOf
<1>3. \E m \in S : \A q \in S : q <= m
  <2> DEFINE F == {Above(o) : o \in S}
  <2>1. F \subseteq FiniteSubsetsOf(S) /\ F # {}
    BY <1>2
  <2>2. PICK x \in F : \A y \in F : ~(<<y, x>> \in R)
    BY <1>1, <2>1, WFMin
  <2>3. PICK m \in S : x = Above(m)
    BY <2>2
  <2>4. ASSUME NEW q \in S, ~(q <= m) PROVE FALSE
    <3>0. m < q /\ ~(q < q) /\ \A r \in S : q < r => m < r
      <4>1. q \in Nat /\ m \in Nat /\ m < q
        BY <2>4
      <4>2. ASSUME NEW r \in S, q < r PROVE m < r
        <5>1. r \in Nat
          OBVIOUS
        <5> QED
          BY <4>1, <4>2, <5>1
      <4> QED
        BY <4>1, <4>2
    <3>1. q \in Above(m) /\ Above(q) \subseteq Above(m) /\ q \notin Above(q)
      BY <3>0
    <3>2. <<Above(q), x>> \in R
      BY <2>3, <3>1, SmallerSet
    <3> QED
      BY <2>2, <3>2
  <2> QED
    BY <2>4
<1>4. \E m \in S : \A q \in S : m <= q
  <2> DEFINE F == {Below(o) : o \in S}
  <2>1. F \subseteq FiniteSubsetsOf(S) /\ F # {}
    BY <1>2
  <2>2. PICK x \in F : \A y \in F : ~(<<y, x>> \in R)
    BY <1>1, <2>1, WFMin
  <2>3. PICK m \in S : x = Below(m)
    BY <2>2
  <2>4. ASSUME NEW q \in S, ~(m <= q) PROVE FALSE
    <3>0. q < m /\ ~(q < q) /\ \A r \in S : r < q => r < m
      <4>1. q \in Nat /\ m \in Nat /\ q < m
        BY <2>4
      <4>2. ASSUME NEW r \in S, r < q PROVE r < m
        <5>1. r \in Nat
          OBVIOUS
        <5> QED
          BY <4>1, <4>2, <5>1
      <4> QED
        BY <4>1, <4>2
    <3>1. q \in Below(m) /\ Below(q) \subseteq Below(m) /\ q \notin Below(q)
      BY <3>0
    <3>2. <<Below(q), x>> \in R
      BY <2>3, <3>1, SmallerSet
    <3> QED
      BY <2>2, <3>2
  <2> QED
    BY <2>4
<1> QED
  BY <1>3, <1>4

\* A page has every name that is left up to its last one.
LEMMA PageIsAPrefix ==
  ASSUME TypeOK
  PROVE  /\ Page \subseteq Left
         /\ Left # {} => Last(Page) \in Page
         /\ \A o \in Left, l \in Page : o <= l => o \in Page
<1> DEFINE Upto(o) == {q \in Left : q <= o}
<1>1. Left \subseteq Object /\ Left \subseteq Nat /\ IsFiniteSet(Left)
  BY BoundAssumption, FS_Subset DEF Left
<1>2. Page \subseteq Left
  BY DEF Page
<1>3. \A o \in Left : IsFiniteSet(Upto(o)) /\ Cardinality(Upto(o)) \in Nat
  <2> SUFFICES ASSUME NEW o \in Left
               PROVE  IsFiniteSet(Upto(o)) /\ Cardinality(Upto(o)) \in Nat
    OBVIOUS
  <2>1. Upto(o) \in SUBSET Left
    OBVIOUS
  <2>2. IsFiniteSet(Upto(o))
    BY <1>1, <2>1, FS_Subset
  <2> QED
    BY <2>2, FS_CardinalityType
<1>4. ASSUME NEW o \in Left, NEW l \in Page, o <= l PROVE o \in Page
  <2>0. \A q \in Left : q <= o => q <= l
    <3> SUFFICES ASSUME NEW q \in Left, q <= o
                 PROVE  q <= l
      OBVIOUS
    <3>1. q \in Nat /\ o \in Nat /\ l \in Nat
      BY <1>1, <1>2
    <3> QED
      BY <1>4, <3>1
  <2>1. Upto(o) \in SUBSET Upto(l)
    BY <2>0
  <2>2. IsFiniteSet(Upto(l)) /\ Cardinality(Upto(l)) \in Nat /\ l \in Left
    BY <1>2, <1>3
  <2> HIDE DEF Upto
  <2>4. Cardinality(Upto(o)) <= Cardinality(Upto(l))
    BY <2>1, <2>2, FS_Subset
  <2> USE DEF Upto
  <2>3. Cardinality(Upto(l)) <= Limit
    BY DEF Page
  <2> QED
    BY <1>2, <1>3, <2>2, <2>3, <2>4, BoundAssumption DEF Page
<1>5. ASSUME Left # {} PROVE Last(Page) \in Page
  <2>1. PICK m \in Left : \A q \in Left : m <= q
    BY <1>1, <1>5, Extremes
  <2>0. \A q \in Left : q <= m <=> q = m
    <3> SUFFICES ASSUME NEW q \in Left
                 PROVE  q <= m <=> q = m
      OBVIOUS
    <3>1. q \in Nat /\ m \in Nat /\ m <= q
      BY <1>1, <2>1
    <3> QED
      BY <3>1
  <2>2. Upto(m) = {m}
    BY <2>0
  <2>3. Cardinality({m}) = 1
    BY FS_Singleton
  <2>4. m \in Page
    BY <2>2, <2>3, BoundAssumption DEF Page
  <2>5. Page \in SUBSET Nat /\ IsFiniteSet(Page)
    BY <1>1, <1>2, FS_Subset
  <2>6. \E l \in Page : \A q \in Page : q <= l
    BY <2>4, <2>5, Extremes
  <2> QED
    BY <2>6 DEF Last
<1> QED
  BY <1>2, <1>4, <1>5

-----------------------------------------------------------------------------
(* Steps that change no key, no object and no state of the store.              *)

LEMMA DataInitially == Init => DataInv
<1> SUFFICES ASSUME Init
             PROVE  DataInv
  OBVIOUS
<1>1. Fresh \in KeyState /\ NoCall \in Call /\ NoCall.op = "read"
  BY BoundAssumption DEF Fresh, KeyState, Key, NoCall, Call, Op
<1>2. TypeOK
  BY <1>1, BoundAssumption DEF Init, TypeOK, Step, Key, NoKey, Fresh
<1>3. \A p \in Process : Fits(p, "idle", NoCall)
  BY <1>1 DEF Fits, CallFits, ObjectFits, RotationFits, Calling, Rotating, InWork, InGuard
<1>4. CallsFit /\ WritersAreApart
  BY <1>1, <1>3 DEF Init, CallsFit, WritersAreApart
<1>5. HistoryOK /\ ObjectsHaveKeys /\ ErasedStaysErased /\ KeysAreCurrent /\ CursorIsVerified
  BY DEF Init, Fresh, HistoryOK, ObjectsHaveKeys, ErasedStaysErased, KeysAreCurrent,
     CursorIsVerified
<1> QED
  BY <1>2, <1>4, <1>5 DEF DataInv

Stored == <<keyState, keyFile, objFile>>

LEMMA FitsStays ==
  ASSUME UNCHANGED <<Stored, secret, returned>>, erasing \subseteq erasing',
         NEW p \in Process, NEW s, NEW c, Fits(p, s, c)
  PROVE  Fits(p, s, c)'
<1>1. CallFits(p, s, c)'
  BY DEF Fits, CallFits
<1>2. ObjectFits(s, c)'
  BY DEF Fits, ObjectFits, Stored
<1>3. RotationFits(p, s, c)'
  BY DEF Fits, RotationFits, DraftIsVerified, Replaceable, Stored
<1> QED
  BY <1>1, <1>2, <1>3 DEF Fits

LEMMA MoveKeepsData ==
  ASSUME DataInv, NEW p \in Process,
         UNCHANGED <<Stored, secret, returned, erased>>,
         erasing \subseteq erasing', erasing' \subseteq returned,
         lock' \in Process \cup {None}, guard' \in Process \cup {None},
         staging' \subseteq {"entry", "state"},
         NEW s \in Step, pc' = [pc EXCEPT ![p] = s],
         NEW c \in Call, call' = [call EXCEPT ![p] = c],
         Fits(p, s, c)',
         c.op = "write" => \A q \in Process :
             q # p /\ call[q].op = "write" => c.item # call[q].item
  PROVE  DataInv'
<1>1. TypeOK'
  BY DEF DataInv, TypeOK, Stored
<1>2. \A q \in Process : /\ pc'[q] = IF q = p THEN s ELSE pc[q]
                         /\ call'[q] = IF q = p THEN c ELSE call[q]
  BY DEF DataInv, TypeOK
<1>3. CallsFit'
  <2> SUFFICES ASSUME NEW q \in Process
               PROVE  Fits(q, pc[q], call[q])'
    BY DEF CallsFit
  <2>1. CASE q = p
    BY <1>2, <2>1
  <2>2. CASE q # p
    <3>1. Fits(q, pc[q], call[q])
      BY DEF DataInv, CallsFit
    <3> QED
      BY <1>2, <2>2, <3>1, FitsStays
  <2> QED
    BY <2>1, <2>2
<1>4. WritersAreApart'
  BY <1>2 DEF DataInv, WritersAreApart
<1>5. /\ HistoryOK' /\ ObjectsHaveKeys' /\ ErasedStaysErased'
      /\ KeysAreCurrent' /\ CursorIsVerified'
  BY DEF Stored, DataInv, HistoryOK, ObjectsHaveKeys, ErasedStaysErased, KeysAreCurrent,
     CursorIsVerified
<1> QED
  BY <1>1, <1>3, <1>4, <1>5 DEF DataInv

\* Without a purge that begins, what fits does not change.
LEMMA StepKeepsData ==
  ASSUME DataInv, NEW p \in Process,
         UNCHANGED <<Stored, secret, history>>,
         lock' \in Process \cup {None}, guard' \in Process \cup {None},
         staging' \subseteq {"entry", "state"},
         NEW s \in Step, pc' = [pc EXCEPT ![p] = s],
         NEW c \in Call, call' = [call EXCEPT ![p] = c],
         Fits(p, s, c),
         c.op = "write" => call[p].op = "write" /\ call[p].item = c.item
  PROVE  DataInv'
<1>1. UNCHANGED <<returned, erased>> /\ erasing' = erasing /\ erasing' \subseteq returned
  BY DEF history, DataInv, HistoryOK
<1>2. Fits(p, s, c)'
  BY <1>1, FitsStays
<1>3. c.op = "write" => \A q \in Process :
        q # p /\ call[q].op = "write" => c.item # call[q].item
  BY DEF DataInv, WritersAreApart
<1> QED
  BY <1>1, <1>2, <1>3, MoveKeepsData

LEMMA SameCallKeepsData ==
  ASSUME DataInv, NEW p \in Process,
         UNCHANGED <<Stored, secret, history, call>>,
         lock' \in Process \cup {None}, guard' \in Process \cup {None},
         staging' \subseteq {"entry", "state"},
         NEW s \in Step, pc' = [pc EXCEPT ![p] = s], Fits(p, s, call[p])
  PROVE  DataInv'
<1>1. PICK c \in Call : c = call[p]
  BY DEF DataInv, TypeOK
<1>2. call' = [call EXCEPT ![p] = c] /\ Fits(p, s, c)
  BY <1>1 DEF DataInv, TypeOK
<1> QED
  BY <1>1, <1>2, StepKeepsData

LEMMA NoCallKeepsData ==
  ASSUME DataInv, NEW p \in Process,
         UNCHANGED <<Stored, secret, history>>,
         lock' \in Process \cup {None}, guard' \in Process \cup {None},
         staging' \subseteq {"entry", "state"},
         NEW s \in {"idle", "dead"}, pc' = [pc EXCEPT ![p] = s],
         call' = [call EXCEPT ![p] = NoCall]
  PROVE  DataInv'
<1>1. Fresh \in KeyState /\ NoCall \in Call /\ NoCall.op = "read"
  BY BoundAssumption DEF Fresh, KeyState, Key, NoCall, Call, Op
<1>2. Fits(p, s, NoCall)
  BY <1>1 DEF Fits, CallFits, ObjectFits, RotationFits, Calling, Rotating, InWork, InGuard
<1>3. s \in Step
  BY DEF Step
<1> QED
  BY <1>1, <1>2, <1>3, StepKeepsData

\* Waiting, and the recovery of a dead owner's lease.
LEMMA LeaseKeepsData ==
  ASSUME DataInv, NEW p \in Process, Acquire(p) \/ EnterGuard(p) \/ Reclaim(p)
  PROVE  DataInv'
<1>1. /\ UNCHANGED <<Stored, secret, history, call>>
      /\ lock' \in Process \cup {None} /\ guard' \in Process \cup {None}
      /\ staging' \subseteq {"entry", "state"}
      /\ pc[p] \in {"waiting"} \cup InGuard
      /\ \E s \in {"waiting", "locked"} \cup InGuard : pc' = [pc EXCEPT ![p] = s]
  BY DEF Acquire, EnterGuard, Reclaim, ReadOwner, CleanStaging, Discard, LeaveGuard, Goto,
     InGuard, Stored, files, DataInv, TypeOK
<1>2. PICK s \in {"waiting", "locked"} \cup InGuard : pc' = [pc EXCEPT ![p] = s]
  BY <1>1
<1>3. Fits(p, pc[p], call[p])
  BY DEF DataInv, CallsFit
<1>4. Fits(p, s, call[p]) /\ s \in Step
  BY <1>1, <1>3 DEF Fits, CallFits, ObjectFits, RotationFits, Calling, Rotating, Step,
     InWork, InGuard
<1> QED
  BY <1>1, <1>2, <1>4, SameCallKeepsData

\* Steps that end a call early, and a death.
LEMMA EndKeepsData ==
  ASSUME DataInv, NEW p \in Process, GiveUp(p) \/ ThrowNotFound(p) \/ Crash(p)
  PROVE  DataInv'
<1>1. /\ UNCHANGED <<Stored, secret, history, lock, guard, staging>>
      /\ call' = [call EXCEPT ![p] = NoCall]
      /\ \E s \in {"idle", "dead"} : pc' = [pc EXCEPT ![p] = s]
  BY DEF GiveUp, ThrowNotFound, Returns, Crash, Goto, Stored, files
<1>2. PICK s \in {"idle", "dead"} : pc' = [pc EXCEPT ![p] = s]
  BY <1>1
<1>3. /\ lock' \in Process \cup {None} /\ guard' \in Process \cup {None}
      /\ staging' \subseteq {"entry", "state"}
  BY <1>1 DEF DataInv, TypeOK
<1> QED
  BY <1>1, <1>2, <1>3, NoCallKeepsData

(* A read that finds no object, or no key, looked for one that a write         *)
(* returned: its purge has begun.                                              *)
LEMMA ReadKeepsData ==
  ASSUME DataInv, NEW p \in Process, ReadKeyState(p) \/ ReadObject(p) \/ ReadKey(p)
  PROVE  DataInv'
<1>1. /\ UNCHANGED <<Stored, secret, history, lock, guard, staging>>
      /\ lock' \in Process \cup {None} /\ guard' \in Process \cup {None}
      /\ staging' \subseteq {"entry", "state"}
  BY DEF ReadKeyState, ReadObject, ReadKey, Returns, Stored, files, DataInv, TypeOK
<1>2. Fits(p, pc[p], call[p])
  BY DEF DataInv, CallsFit
<1>3. call[p].op = "read" /\ call[p].item \in returned /\ returned \subseteq Object
  BY <1>2 DEF Fits, CallFits, ReadKeyState, ReadObject, ReadKey, DataInv, TypeOK
<1>4. CASE Returns(p)
  <2>1. pc' = [pc EXCEPT ![p] = "idle"] /\ call' = [call EXCEPT ![p] = NoCall]
    BY <1>4 DEF Returns, Goto
  <2> QED
    BY <1>1, <2>1, NoCallKeepsData
<1>5. CASE ~Returns(p)
  <2>1. /\ call' = call
        /\ \/ pc' = [pc EXCEPT ![p] = "reading"]
           \/ pc' = [pc EXCEPT ![p] = "readKey"]
           \/ /\ pc' = [pc EXCEPT ![p] = "notFound"]
              /\ ~objFile[call[p].item] \/ keyFile[call[p].item] = NoKey
    BY <1>5 DEF ReadKeyState, ReadObject, ReadKey, Goto
  <2>2. ~objFile[call[p].item] \/ keyFile[call[p].item] = NoKey => call[p].item \in erasing
    BY <1>3 DEF DataInv, ObjectsHaveKeys
  <2>3. PICK s \in {"reading", "readKey", "notFound"} :
          pc' = [pc EXCEPT ![p] = s] /\ (s = "notFound" => call[p].item \in erasing)
    BY <2>1, <2>2
  <2>4. s \in Step /\ Fits(p, s, call[p])
    BY <1>3, <2>3 DEF Step, Fits, CallFits, ObjectFits, RotationFits, Calling, Rotating,
       InWork, InGuard
  <2> QED
    BY <1>1, <2>1, <2>3, <2>4, SameCallKeepsData
<1> QED
  BY <1>4, <1>5

\* A write begins under a name that no key has and nobody else writes.
LEMMA BeginKeepsData ==
  ASSUME DataInv, NEW p \in Process, NEW op \in Op, NEW o \in Object \cup {0}, Begin(p, op, o)
  PROVE  DataInv'
<1>1. call[p] = NoCall /\ pc[p] = "idle"
  BY DEF DataInv, CallsFit, Fits, CallFits, Begin
<1> DEFINE c == [call[p] EXCEPT !.op = op, !.item = o]
<1>2. c \in Call /\ c.op = op /\ c.item = o
  BY <1>1 DEF DataInv, TypeOK, Call
<1>3. call' = [call EXCEPT ![p] = c]
  BY DEF Begin, DataInv, TypeOK
<1>4. PICK d \in Call : call' = [call EXCEPT ![p] = d] /\ d.op = op /\ d.item = o
  BY <1>2, <1>3
<1>5. /\ UNCHANGED <<Stored, secret, returned, erased, lock, guard, staging>>
      /\ erasing \subseteq erasing' /\ erasing' \subseteq returned
      /\ op = "purge" => o \in erasing'
  BY DEF Begin, Stored, files, DataInv, HistoryOK
<1>6. /\ lock' \in Process \cup {None} /\ guard' \in Process \cup {None}
      /\ staging' \subseteq {"entry", "state"}
  BY <1>5 DEF DataInv, TypeOK
<1>7. /\ "waiting" \in Step /\ pc' = [pc EXCEPT ![p] = "waiting"]
      /\ op \in {"write", "purge", "rewrap"}
      /\ op = "write" => o \in Object \ returned /\ keyFile[o] = NoKey
                         /\ \A q \in Process : call[q].op = "write" => call[q].item # o
      /\ op = "rewrap" => secret[p] < MaxKey
  BY DEF Begin, Goto, Op, Step
<1>8. Fits(p, "waiting", d)'
  BY <1>4, <1>5, <1>7 DEF Fits, CallFits, ObjectFits, RotationFits, Calling, Rotating,
     InWork, InGuard, Stored
<1> HIDE DEF c
<1> QED
  BY <1>4, <1>5, <1>6, <1>7, <1>8, MoveKeepsData

LEMMA BeginReadKeepsData ==
  ASSUME DataInv, NEW p \in Process, NEW o \in Object, BeginRead(p, o)
  PROVE  DataInv'
<1>1. call[p] = NoCall /\ pc[p] = "idle"
  BY DEF DataInv, CallsFit, Fits, CallFits, BeginRead
<1> DEFINE c == [call[p] EXCEPT !.item = o]
<1>2. c \in Call /\ c.op = "read" /\ c.item = o
  BY <1>1 DEF DataInv, TypeOK, Call, NoCall
<1>3. call' = [call EXCEPT ![p] = c]
  BY DEF BeginRead, DataInv, TypeOK
<1>4. PICK d \in Call : call' = [call EXCEPT ![p] = d] /\ d.op = "read" /\ d.item = o
  BY <1>2, <1>3
<1>5. /\ UNCHANGED <<Stored, secret, history, lock, guard, staging>> /\ o \in returned
      /\ "opening" \in Step /\ pc' = [pc EXCEPT ![p] = "opening"]
  BY DEF BeginRead, Stored, files, Goto, Step
<1>6. /\ lock' \in Process \cup {None} /\ guard' \in Process \cup {None}
      /\ staging' \subseteq {"entry", "state"}
  BY <1>5 DEF DataInv, TypeOK
<1>7. Fits(p, "opening", d)
  BY <1>4, <1>5 DEF Fits, CallFits, ObjectFits, RotationFits, Calling, Rotating,
     InWork, InGuard
<1> HIDE DEF c
<1> QED
  BY <1>4, <1>5, <1>6, <1>7, StepKeepsData

\* Steps of a batch that leave its call as it is, and failures.
LEMMA BatchKeepsData ==
  ASSUME DataInv, NEW p \in Process,
         StageEntry(p) \/ RefuseEntry(p) \/ ClosePage(p) \/ StageState(p) \/ WorkFails(p)
  PROVE  DataInv'
<1>1. /\ UNCHANGED <<Stored, secret, history, call>>
      /\ lock' \in Process \cup {None} /\ guard' \in Process \cup {None}
      /\ staging' \subseteq {"entry", "state"}
  BY DEF StageEntry, RefuseEntry, ClosePage, StageState, WorkFails, Stored, DataInv, TypeOK,
     files
<1>2. Fits(p, pc[p], call[p])
  BY DEF DataInv, CallsFit
<1>3. CASE StageEntry(p)
  <2>1. /\ pc[p] = "paging" /\ Replaceable(p, First(call[p].todo))
        /\ pc' = [pc EXCEPT ![p] = "entryStaged"]
    BY <1>3 DEF StageEntry, Goto
  <2>2. Fits(p, "entryStaged", call[p]) /\ "entryStaged" \in Step
    BY <1>2, <2>1 DEF Fits, CallFits, ObjectFits, RotationFits, Calling, Rotating,
       InWork, InGuard, Step
  <2> QED
    BY <1>1, <2>1, <2>2, SameCallKeepsData
<1>4. CASE ClosePage(p)
  <2>1. pc[p] = "paging" /\ call[p].todo = {} /\ pc' = [pc EXCEPT ![p] = "saving"]
    BY <1>4 DEF ClosePage, Goto
  <2>2. Fits(p, "saving", call[p]) /\ "saving" \in Step
    BY <1>2, <2>1 DEF Fits, CallFits, ObjectFits, RotationFits, Calling, Rotating,
       InWork, InGuard, Step
  <2> QED
    BY <1>1, <2>1, <2>2, SameCallKeepsData
<1>5. CASE StageState(p) /\ pc' = [pc EXCEPT ![p] = "stateStaged"]
  <2>1. Fits(p, "stateStaged", call[p]) /\ "stateStaged" \in Step
    BY <1>2, <1>5 DEF StageState, Fits, CallFits, ObjectFits, RotationFits, Calling,
       Rotating, InWork, InGuard, Step
  <2> QED
    BY <1>1, <1>5, <2>1, SameCallKeepsData
<1>6. CASE pc' = [pc EXCEPT ![p] = "releasing"]
  <2>1. pc[p] \in InWork
    BY DEF StageEntry, RefuseEntry, ClosePage, StageState, WorkFails, InWork
  <2>2. Fits(p, "releasing", call[p]) /\ "releasing" \in Step
    BY <1>2, <2>1 DEF Fits, CallFits, ObjectFits, RotationFits, Calling, Rotating,
       InWork, InGuard, Step
  <2> QED
    BY <1>1, <1>6, <2>2, SameCallKeepsData
<1> QED
  BY <1>3, <1>4, <1>5, <1>6 DEF RefuseEntry, StageState, WorkFails, Goto

\* A name passes only where its key is the next one.
LEMMA PassKeepsData ==
  ASSUME DataInv, NEW p \in Process, PassEntry(p)
  PROVE  DataInv'
<1> DEFINE o == First(call[p].todo)
           c == [call[p] EXCEPT !.todo = @ \ {o}]
<1>1. Fits(p, "paging", call[p]) /\ pc[p] = "paging" /\ call[p] \in Call
  BY DEF DataInv, CallsFit, PassEntry, TypeOK
<1>2. keyFile[o] = secret[p] + 1
  BY DEF PassEntry, Target
<1>3. /\ c \in Call /\ c.op = call[p].op /\ c.item = call[p].item
      /\ c.draft = call[p].draft /\ c.todo = call[p].todo \ {o}
  BY <1>1 DEF Call
<1>4. call' = [call EXCEPT ![p] = c]
  BY DEF PassEntry, DataInv, TypeOK
<1>5. PICK d \in Call : /\ call' = [call EXCEPT ![p] = d]
                        /\ d.op = call[p].op /\ d.item = call[p].item
                        /\ d.draft = call[p].draft /\ d.todo = call[p].todo \ {o}
  BY <1>3, <1>4
<1> HIDE DEF c, o
<1>6. DraftIsVerified(d.draft, d.todo) /\ keyState.key = secret[p] /\ keyState.phase # "ready"
  <2>1. DraftIsVerified(call[p].draft, call[p].todo) /\ keyState.key = secret[p]
        /\ keyState.phase # "ready"
    BY <1>1 DEF Fits, RotationFits, Rotating
  <2> QED
    BY <1>2, <1>5, <2>1 DEF DraftIsVerified
<1>7. Fits(p, "paging", d)
  BY <1>1, <1>5, <1>6 DEF Fits, CallFits, ObjectFits, RotationFits, Calling, Rotating,
     InWork, InGuard
<1>8. /\ UNCHANGED <<Stored, secret, history, lock, guard, staging>>
      /\ "paging" \in Step /\ pc' = [pc EXCEPT ![p] = "paging"]
  BY <1>1 DEF PassEntry, Stored, files, Step, InWork, DataInv, TypeOK
<1>9. /\ lock' \in Process \cup {None} /\ guard' \in Process \cup {None}
      /\ staging' \subseteq {"entry", "state"}
  BY <1>8 DEF DataInv, TypeOK
<1> QED
  BY <1>5, <1>7, <1>8, <1>9, StepKeepsData

(* The draft of a batch's state: a verification moves its cursor to the last   *)
(* name of the page, and what is not in the page was verified before.          *)
LEMMA DraftFits ==
  ASSUME DataInv, NEW p \in Process, keyState.phase # "ready", keyState.key = secret[p],
         secret[p] < MaxKey
  PROVE  AfterPage(p) \in KeyState /\ DraftIsVerified(AfterPage(p), Page)
<1>1. TypeOK /\ Object \subseteq Nat /\ keyState \in KeyState /\ CursorIsVerified
  BY BoundAssumption DEF DataInv, TypeOK
<1>2. \A o \in Object : o \notin Left => keyFile[o] = NoKey \/ o <= keyState.after
  <2> SUFFICES ASSUME NEW o \in Object, o \notin Left
               PROVE  keyFile[o] = NoKey \/ o <= keyState.after
    OBVIOUS
  <2>1. o \in Nat /\ keyState.after \in Nat
    BY <1>1 DEF KeyState
  <2> QED
    BY <2>1 DEF Left
<1>3. CASE Left # Page
  <2>1. Last(Page) \in Page /\ Page \subseteq Left /\ Left \subseteq Object
    BY <1>1, <1>3, PageIsAPrefix DEF Left
  <2> DEFINE a == Last(Page)
             d == [keyState EXCEPT !.after = a]
  <2>2. AfterPage(p) = d /\ a \in Nat
    BY <1>1, <1>3, <2>1 DEF AfterPage
  <2>3. d \in KeyState /\ d.after = a /\ d.phase = keyState.phase /\ d.key = keyState.key
    BY <1>1, <2>2 DEF KeyState
  <2>4. ASSUME keyState.phase = "verifying", NEW o \in Object \ Page, o <= a
        PROVE  keyFile[o] \in {NoKey, keyState.key + 1}
    <3>1. o \notin Left
      BY <1>1, <2>1, <2>4, PageIsAPrefix
    <3> QED
      BY <1>1, <1>2, <2>4, <3>1 DEF CursorIsVerified
  <2> HIDE DEF d, a
  <2>5. keyState.phase \in {"rewrapping", "verifying"}
    BY <1>1 DEF KeyState
  <2>6. DraftIsVerified(d, Page)
    BY <2>3, <2>4, <2>5 DEF DraftIsVerified
  <2> QED
    BY <2>2, <2>3, <2>6
<1>4. CASE Left = Page /\ keyState.phase = "rewrapping"
  <2> DEFINE d == [keyState EXCEPT !.phase = "verifying", !.after = 0]
  <2>1. AfterPage(p) = d
    BY <1>4 DEF AfterPage
  <2>2. d \in KeyState /\ d.after = 0 /\ d.phase = "verifying" /\ d.key = keyState.key
    BY <1>1 DEF KeyState
  <2> HIDE DEF d
  <2>3. DraftIsVerified(d, Page)
    BY <1>4, <2>2 DEF DraftIsVerified
  <2> QED
    BY <2>1, <2>2, <2>3
<1>5. CASE Left = Page /\ keyState.phase = "verifying"
  <2> DEFINE d == [phase |-> "ready", key |-> Target(p), after |-> 0]
  <2>1. AfterPage(p) = d
    BY <1>5 DEF AfterPage
  <2>2. secret[p] \in Key /\ Target(p) \in Key /\ Target(p) = keyState.key + 1
    BY <1>1, BoundAssumption DEF TypeOK, Target, Key
  <2>3. d \in KeyState /\ d.after = 0 /\ d.phase = "ready" /\ d.key = keyState.key + 1
    BY <2>2 DEF KeyState
  <2> HIDE DEF d
  <2>4. \A o \in Object \ Page : keyFile[o] \in {NoKey, keyState.key + 1}
    BY <1>1, <1>2, <1>5 DEF CursorIsVerified
  <2>5. DraftIsVerified(d, Page)
    BY <1>5, <2>3, <2>4 DEF DraftIsVerified
  <2> QED
    BY <2>1, <2>3, <2>5
<1> QED
  BY <1>1, <1>3, <1>4, <1>5 DEF KeyState

LEMMA OpenKeepsData ==
  ASSUME DataInv, NEW p \in Process, OpenBatch(p)
  PROVE  DataInv'
<1>1. /\ Fits(p, "locked", call[p]) /\ call[p].op = "rewrap" /\ call[p] \in Call
      /\ keyState \in KeyState /\ TypeOK
  BY DEF DataInv, CallsFit, OpenBatch, TypeOK
<1>2. /\ UNCHANGED <<Stored, secret, history, lock, guard, staging>>
      /\ lock' \in Process \cup {None} /\ guard' \in Process \cup {None}
      /\ staging' \subseteq {"entry", "state"}
  BY DEF OpenBatch, Stored, files, DataInv, TypeOK
<1>3. CASE keyState.key # secret[p]
  <2>1. call' = call /\ pc' = [pc EXCEPT ![p] = "releasing"]
    BY <1>3 DEF OpenBatch, Goto
  <2>2. Fits(p, "releasing", call[p]) /\ "releasing" \in Step
    BY <1>1 DEF Fits, CallFits, ObjectFits, RotationFits, Calling, Rotating,
       InWork, InGuard, Step
  <2> QED
    BY <1>2, <2>1, <2>2, SameCallKeepsData
<1>4. CASE keyState.key = secret[p] /\ keyState.phase = "ready"
  <2> DEFINE e == [keyState EXCEPT !.phase = "rewrapping"]
             c == [call[p] EXCEPT !.draft = e]
  <2>1. e \in KeyState /\ e.phase = "rewrapping" /\ e.key = keyState.key
    BY <1>1 DEF KeyState
  <2>2. call' = [call EXCEPT ![p] = c] /\ pc' = [pc EXCEPT ![p] = "saving"]
    BY <1>1, <1>4 DEF OpenBatch, Goto, TypeOK
  <2> HIDE DEF e
  <2>3. /\ c \in Call /\ c.op = "rewrap" /\ c.item = call[p].item
        /\ c.draft = e /\ c.todo = call[p].todo
    BY <1>1, <2>1 DEF Call
  <2> HIDE DEF c
  <2>4. PICK d \in Call : call' = [call EXCEPT ![p] = d] /\ d.op = "rewrap" /\ d.draft = e
    BY <2>2, <2>3
  <2>5. DraftIsVerified(d.draft, d.todo)
    BY <1>4, <2>1, <2>4 DEF DraftIsVerified
  <2>6. Fits(p, "saving", d) /\ "saving" \in Step
    BY <1>1, <1>4, <2>1, <2>4, <2>5 DEF Fits, CallFits, ObjectFits, RotationFits, Calling,
       Rotating, InWork, InGuard, Step
  <2> QED
    BY <1>2, <2>2, <2>4, <2>6, StepKeepsData
<1>5. CASE keyState.key = secret[p] /\ keyState.phase # "ready"
  <2> DEFINE e == AfterPage(p)
             t == Page
             c == [call[p] EXCEPT !.draft = e, !.todo = t]
  <2>1. e \in KeyState /\ DraftIsVerified(e, t)
    BY <1>1, <1>5, DraftFits DEF Fits, CallFits
  <2>2. t \in SUBSET Object
    BY DEF Page, Left
  <2>3. call' = [call EXCEPT ![p] = c] /\ pc' = [pc EXCEPT ![p] = "paging"]
    BY <1>1, <1>5 DEF OpenBatch, Goto, TypeOK
  <2> HIDE DEF e, t
  <2>4. /\ c \in Call /\ c.op = "rewrap" /\ c.item = call[p].item
        /\ c.draft = e /\ c.todo = t
    BY <1>1, <2>1, <2>2 DEF Call
  <2> HIDE DEF c
  <2>5. PICK d \in Call : call' = [call EXCEPT ![p] = d] /\ d.op = "rewrap" /\ d.draft = e
                          /\ d.todo = t
    BY <2>3, <2>4
  <2>6. Fits(p, "paging", d) /\ "paging" \in Step
    BY <1>1, <1>5, <2>1, <2>5 DEF Fits, CallFits, ObjectFits, RotationFits, Calling,
       Rotating, InWork, InGuard, Step
  <2> QED
    BY <1>2, <2>3, <2>5, <2>6, StepKeepsData
<1> QED
  BY <1>3, <1>4, <1>5

-----------------------------------------------------------------------------
(* Steps that change the store, of the owner of the lease: no other process    *)
(* works, so all that the others know of the files is that the name they write *)
(* has no key yet.                                                             *)

LEMMA OwnerKeepsCalls ==
  ASSUME IInv, DataInv, NEW p \in Process, pc[p] \in InWork,
         UNCHANGED <<secret, erasing>>,
         NEW s \in Step, pc' = [pc EXCEPT ![p] = s],
         NEW c \in Call, call' = [call EXCEPT ![p] = c],
         Fits(p, s, c)',
         c.op = "write" => call[p].op = "write" /\ call[p].item = c.item,
         returned \subseteq returned',
         \A q \in Process : q # p /\ call[q].op = "write" =>
             /\ keyFile'[call[q].item] = keyFile[call[q].item]
             /\ call[q].item \notin returned'
  PROVE  CallsFit' /\ WritersAreApart'
<1>1. \A q \in Process : /\ pc'[q] = IF q = p THEN s ELSE pc[q]
                         /\ call'[q] = IF q = p THEN c ELSE call[q]
  BY DEF DataInv, TypeOK
<1>2. ASSUME NEW q \in Process PROVE Fits(q, pc[q], call[q])'
  <2>1. CASE q = p
    BY <1>1, <2>1
  <2>2. CASE q # p
    <3>1. Fits(q, pc[q], call[q]) /\ pc[q] \notin InWork
      BY <2>2 DEF DataInv, CallsFit, IInv, MutualExclusion
    <3>2. pc'[q] = pc[q] /\ call'[q] = call[q]
      BY <1>1, <2>2
    <3>3. CallFits(q, pc[q], call[q])'
      BY <2>2, <3>1, <3>2 DEF Fits, CallFits
    <3>4. ObjectFits(pc[q], call[q])'
      BY <2>2, <3>1, <3>2 DEF Fits, ObjectFits, InWork
    <3>5. RotationFits(q, pc[q], call[q])'
      BY <3>1, <3>2 DEF RotationFits, Rotating, InWork
    <3> QED
      BY <3>3, <3>4, <3>5 DEF Fits
  <2> QED
    BY <2>1, <2>2
<1>3. CallsFit'
  BY <1>2 DEF CallsFit
<1>4. WritersAreApart'
  BY <1>1 DEF DataInv, WritersAreApart
<1> QED
  BY <1>3, <1>4

\* Writes: the key, then the object.
LEMMA WriteKeyKeepsData ==
  ASSUME IInv, DataInv, NEW p \in Process, WriteKey(p)
  PROVE  DataInv'
<1> DEFINE i == call[p].item
<1>1. /\ Fits(p, "locked", call[p]) /\ call[p].op = "write" /\ call[p] \in Call
      /\ pc[p] = "locked"
  BY DEF DataInv, CallsFit, WriteKey, TypeOK
<1>2. i \in Object \ returned /\ keyFile[i] = NoKey
  BY <1>1 DEF Fits, CallFits, ObjectFits
<1>3. CASE ~MayUse(p)
  <2>1. /\ UNCHANGED <<Stored, secret, history, call, lock, guard, staging>>
        /\ pc' = [pc EXCEPT ![p] = "releasing"]
    BY <1>3 DEF WriteKey, Goto, Stored, history
  <2>2. /\ lock' \in Process \cup {None} /\ guard' \in Process \cup {None}
        /\ staging' \subseteq {"entry", "state"}
    BY <2>1 DEF DataInv, TypeOK
  <2>3. Fits(p, "releasing", call[p]) /\ "releasing" \in Step
    BY <1>1 DEF Fits, CallFits, ObjectFits, RotationFits, Calling, Rotating,
       InWork, InGuard, Step
  <2> QED
    BY <2>1, <2>2, <2>3, SameCallKeepsData
<1>4. CASE MayUse(p)
  <2>1. /\ keyFile' = [keyFile EXCEPT ![i] = secret[p]]
        /\ pc' = [pc EXCEPT ![p] = "keyed"] /\ keyState.phase = "ready"
        /\ keyState.key = secret[p]
        /\ UNCHANGED <<lock, guard, staging, keyState, objFile, call, secret>>
        /\ UNCHANGED <<returned, erasing, erased>>
    BY <1>4 DEF WriteKey, Goto, MayUse, history
  <2>2. TypeOK /\ secret[p] \in Key /\ secret[p] # NoKey
    BY BoundAssumption DEF DataInv, TypeOK, Key, NoKey
  <2>3. /\ keyFile'[i] = secret[p] /\ ~objFile[i] /\ i \notin erased
        /\ \A o \in Object \ {i} : keyFile'[o] = keyFile[o]
    BY <1>2, <2>1, <2>2 DEF TypeOK, DataInv, ObjectsHaveKeys, HistoryOK
  <2>4. TypeOK'
    BY <2>1, <2>2 DEF TypeOK, Step, InWork
  <2>5. CallsFit' /\ WritersAreApart'
    <3>1. PICK c \in Call : c = call[p]
      BY <1>1
    <3>2. Fits(p, "keyed", c)' /\ "keyed" \in Step /\ pc[p] \in InWork
      BY <1>1, <2>1, <2>2, <2>3, <3>1 DEF Fits, CallFits, ObjectFits, RotationFits, Calling,
         Rotating, InWork, InGuard, Step
    <3>3. call' = [call EXCEPT ![p] = c]
      BY <2>1, <2>2, <3>1 DEF TypeOK
    <3>4. \A q \in Process : q # p /\ call[q].op = "write" =>
             /\ keyFile'[call[q].item] = keyFile[call[q].item]
             /\ call[q].item \notin returned'
      BY <1>1, <2>1, <2>3 DEF DataInv, WritersAreApart, CallsFit, Fits, CallFits
    <3> QED
      BY <2>1, <3>1, <3>2, <3>3, <3>4, OwnerKeepsCalls
  <2>6. HistoryOK' /\ ObjectsHaveKeys' /\ ErasedStaysErased'
    BY <2>1, <2>2, <2>3 DEF DataInv, HistoryOK, ObjectsHaveKeys, ErasedStaysErased, TypeOK
  <2>7. KeysAreCurrent' /\ CursorIsVerified'
    BY <2>1, <2>3 DEF DataInv, KeysAreCurrent, CursorIsVerified
  <2> QED
    BY <2>4, <2>5, <2>6, <2>7 DEF DataInv
<1> QED
  BY <1>3, <1>4

LEMMA WriteObjectKeepsData ==
  ASSUME IInv, DataInv, NEW p \in Process, WriteObject(p) \/ WriteObjectFails(p)
  PROVE  DataInv'
<1> DEFINE i == call[p].item
<1>1. /\ Fits(p, "keyed", call[p]) /\ call[p] \in Call /\ pc[p] = "keyed" /\ TypeOK
      /\ pc' = [pc EXCEPT ![p] = "releasing"]
      /\ UNCHANGED <<lock, guard, staging, keyState, call, secret>>
      /\ UNCHANGED <<returned, erasing, erased>>
  BY DEF DataInv, CallsFit, WriteObject, WriteObjectFails, Goto, TypeOK, history
<1>2. /\ call[p].op = "write" /\ i \in Object \ returned /\ i \notin erased
      /\ keyFile[i] # NoKey /\ ~objFile[i]
  BY <1>1 DEF Fits, CallFits, ObjectFits, DataInv, HistoryOK
<1>3. /\ keyFile'[i] # NoKey => keyFile'[i] = keyFile[i]
      /\ objFile'[i] => keyFile'[i] # NoKey
      /\ \A o \in Object \ {i} : keyFile'[o] = keyFile[o] /\ objFile'[o] = objFile[o]
      /\ TypeOK'
  BY <1>1, <1>2 DEF WriteObject, WriteObjectFails, TypeOK, Step, InWork
<1>4. CallsFit' /\ WritersAreApart'
  <2>1. PICK c \in Call : c = call[p]
    BY <1>1
  <2>2. Fits(p, "releasing", c)' /\ "releasing" \in Step /\ pc[p] \in InWork
    BY <1>1, <1>2, <2>1 DEF Fits, CallFits, ObjectFits, RotationFits, Calling,
       Rotating, InWork, InGuard, Step
  <2>3. call' = [call EXCEPT ![p] = c]
    BY <1>1, <2>1 DEF TypeOK
  <2>4. \A q \in Process : q # p /\ call[q].op = "write" =>
           /\ keyFile'[call[q].item] = keyFile[call[q].item]
           /\ call[q].item \notin returned'
    BY <1>1, <1>2, <1>3 DEF DataInv, WritersAreApart, CallsFit, Fits, CallFits
  <2> QED
    BY <1>1, <2>1, <2>2, <2>3, <2>4, OwnerKeepsCalls
<1>5. HistoryOK' /\ ObjectsHaveKeys' /\ ErasedStaysErased'
  BY <1>1, <1>2, <1>3 DEF DataInv, HistoryOK, ObjectsHaveKeys, ErasedStaysErased, TypeOK
<1>6. KeysAreCurrent' /\ CursorIsVerified'
  BY <1>1, <1>2, <1>3 DEF DataInv, KeysAreCurrent, CursorIsVerified
<1> QED
  BY <1>3, <1>4, <1>5, <1>6 DEF DataInv

\* Purges: the object, then the key.
LEMMA PurgeKeepsData ==
  ASSUME IInv, DataInv, NEW p \in Process, PurgeObject(p) \/ PurgeKey(p)
  PROVE  DataInv'
<1> DEFINE i == call[p].item
<1>1. /\ Fits(p, pc[p], call[p]) /\ call[p] \in Call /\ TypeOK
      /\ pc[p] \in {"locked", "halfErased"} /\ call[p].op = "purge"
      /\ UNCHANGED <<lock, guard, staging, keyState, call, secret>>
      /\ UNCHANGED <<returned, erasing, erased>>
  BY DEF DataInv, CallsFit, Fits, CallFits, PurgeObject, PurgeKey, TypeOK, history
<1>2. i \in Object /\ i \in erasing
  BY <1>1 DEF Fits, CallFits, TypeOK
<1>3. /\ ~objFile'[i] /\ keyFile'[i] \in {keyFile[i], NoKey}
      /\ \A o \in Object \ {i} : keyFile'[o] = keyFile[o] /\ objFile'[o] = objFile[o]
      /\ TypeOK'
  <2>1. CASE PurgeObject(p)
    BY <1>1, <1>2, <2>1 DEF PurgeObject, Goto, TypeOK, Step, InWork
  <2>2. CASE PurgeKey(p)
    BY <1>1, <1>2, <2>2 DEF PurgeKey, Goto, TypeOK, Step, InWork, Fits, ObjectFits
  <2> QED
    BY <2>1, <2>2
<1>4. CallsFit' /\ WritersAreApart'
  <2>1. PICK c \in Call : c = call[p]
    BY <1>1
  <2>2. PICK s \in {"halfErased", "releasing"} : pc' = [pc EXCEPT ![p] = s]
    BY DEF PurgeObject, PurgeKey, Goto
  <2>3. Fits(p, s, c)' /\ s \in Step /\ pc[p] \in InWork
    BY <1>1, <1>2, <1>3, <2>1, <2>2 DEF Fits, CallFits, ObjectFits, RotationFits, Calling,
       Rotating, InWork, InGuard, Step
  <2>4. call' = [call EXCEPT ![p] = c]
    BY <1>1, <2>1 DEF TypeOK
  <2>5. \A q \in Process : q # p /\ call[q].op = "write" =>
           /\ keyFile'[call[q].item] = keyFile[call[q].item]
           /\ call[q].item \notin returned'
    BY <1>1, <1>2, <1>3 DEF DataInv, HistoryOK, CallsFit, Fits, CallFits
  <2> QED
    BY <1>1, <2>1, <2>2, <2>3, <2>4, <2>5, OwnerKeepsCalls
<1>5. HistoryOK' /\ ObjectsHaveKeys'
  BY <1>1, <1>2, <1>3 DEF DataInv, HistoryOK, ObjectsHaveKeys, TypeOK
<1>6. ErasedStaysErased'
  BY <1>1, <1>2, <1>3 DEF DataInv, ErasedStaysErased, TypeOK
<1>7. KeysAreCurrent' /\ CursorIsVerified'
  BY <1>1, <1>2, <1>3 DEF DataInv, KeysAreCurrent, CursorIsVerified
<1> QED
  BY <1>3, <1>4, <1>5, <1>6, <1>7 DEF DataInv

\* The replacement of a key, while the rotation is rewrapping.
LEMMA RenameEntryKeepsData ==
  ASSUME IInv, DataInv, NEW p \in Process, RenameEntry(p)
  PROVE  DataInv'
<1> DEFINE o == First(call[p].todo)
           c == [call[p] EXCEPT !.todo = @ \ {o}]
<1>1. /\ Fits(p, "entryStaged", call[p]) /\ call[p] \in Call /\ pc[p] = "entryStaged"
      /\ TypeOK /\ pc' = [pc EXCEPT ![p] = "paging"]
      /\ keyFile' = [keyFile EXCEPT ![o] = Target(p)]
      /\ UNCHANGED <<lock, guard, keyState, objFile, secret>>
      /\ UNCHANGED <<returned, erasing, erased>>
      /\ staging' \subseteq {"entry", "state"}
  BY DEF DataInv, CallsFit, RenameEntry, Goto, TypeOK, history
<1>2. /\ call[p].op = "rewrap" /\ keyState.key = secret[p] /\ secret[p] < MaxKey
      /\ objFile[o] /\ keyFile[o] = secret[p] /\ keyState.phase = "rewrapping"
      /\ DraftIsVerified(call[p].draft, call[p].todo)
  BY <1>1 DEF Fits, CallFits, RotationFits, Rotating, Replaceable
<1>3. /\ secret[p] \in Key /\ secret[p] # NoKey /\ Target(p) \in Key /\ Target(p) # NoKey
      /\ Target(p) = keyState.key + 1
  BY <1>1, <1>2, BoundAssumption DEF TypeOK, Key, NoKey, Target
<1>4. call' = [call EXCEPT ![p] = c]
  BY <1>1 DEF RenameEntry, TypeOK
<1>5. /\ c \in Call /\ c.op = call[p].op /\ c.item = call[p].item
      /\ c.draft = call[p].draft /\ c.todo = call[p].todo \ {o}
  BY <1>1 DEF Call
<1>6. PICK d \in Call : /\ call' = [call EXCEPT ![p] = d]
                        /\ d.op = call[p].op /\ d.item = call[p].item
                        /\ d.draft = call[p].draft /\ d.todo = call[p].todo \ {o}
  BY <1>4, <1>5
<1> HIDE DEF c, o
<1>7. /\ \A q \in Object : q # o => keyFile'[q] = keyFile[q]
      /\ \A q \in Object : q = o => keyFile'[q] = Target(p)
      /\ keyFile' \in [Object -> Key \cup {NoKey}]
  BY <1>1, <1>3 DEF TypeOK
<1>8. TypeOK'
  <2>1. pc' \in [Process -> Step] /\ call' \in [Process -> Call]
    BY <1>1, <1>6 DEF TypeOK, Step, InWork
  <2> QED
    BY <1>1, <1>7, <2>1 DEF TypeOK
<1>9. CallsFit' /\ WritersAreApart'
  <2>1. Fits(p, "paging", d)' /\ "paging" \in Step /\ pc[p] \in InWork
    <3>1. CallFits(p, "paging", d)'
      BY <1>1, <1>2, <1>6 DEF Fits, CallFits, Calling, Rotating, InWork, InGuard
    <3>2. ObjectFits("paging", d)'
      BY <1>2, <1>6 DEF ObjectFits, InGuard
    <3>3. DraftIsVerified(d.draft, d.todo)'
      BY <1>1, <1>2, <1>6 DEF DraftIsVerified
    <3>4. RotationFits(p, "paging", d)'
      BY <1>1, <1>2, <3>3 DEF RotationFits
    <3> QED
      BY <1>1, <3>1, <3>2, <3>4 DEF Fits, Step, InWork
  <2>2. \A q \in Process : q # p /\ call[q].op = "write" =>
           /\ keyFile'[call[q].item] = keyFile[call[q].item]
           /\ call[q].item \notin returned'
    <3> SUFFICES ASSUME NEW q \in Process, q # p, call[q].op = "write"
                 PROVE  /\ keyFile'[call[q].item] = keyFile[call[q].item]
                        /\ call[q].item \notin returned'
      OBVIOUS
    <3>1. Fits(q, pc[q], call[q]) /\ pc[q] \notin InWork
      BY <1>1 DEF DataInv, CallsFit, IInv, MutualExclusion, InWork
    <3>2. pc[q] \in Step /\ call[q] \in Call
      BY <1>1 DEF TypeOK
    <3>3. call[q].item \in Object \ returned /\ keyFile[call[q].item] = NoKey
      BY <3>1, <3>2 DEF Fits, CallFits, ObjectFits, Step, InGuard, NoCall
    <3> QED
      BY <1>1, <1>2, <1>3, <1>7, <3>3
  <2> QED
    BY <1>1, <1>2, <1>6, <2>1, <2>2, OwnerKeepsCalls
<1>10. HistoryOK' /\ ObjectsHaveKeys'
  BY <1>1, <1>3, <1>7 DEF DataInv, HistoryOK, ObjectsHaveKeys, TypeOK
<1>11. ErasedStaysErased'
  BY <1>1, <1>2, <1>7 DEF DataInv, ErasedStaysErased, TypeOK
<1>12. KeysAreCurrent' /\ CursorIsVerified'
  BY <1>1, <1>2, <1>3, <1>7 DEF DataInv, KeysAreCurrent, CursorIsVerified
<1> QED
  BY <1>8, <1>9, <1>10, <1>11, <1>12 DEF DataInv

(* The rotation's state: the cursor moves over what was verified, and the      *)
(* store is ready when all of it was.                                          *)
LEMMA RenameStateKeepsData ==
  ASSUME IInv, DataInv, NEW p \in Process, RenameState(p)
  PROVE  DataInv'
<1> DEFINE d == call[p].draft
<1>1. /\ Fits(p, "stateStaged", call[p]) /\ call[p] \in Call /\ pc[p] = "stateStaged"
      /\ TypeOK /\ keyState' = d
      /\ UNCHANGED <<lock, guard, keyFile, objFile, call, secret>>
      /\ UNCHANGED <<returned, erasing, erased>>
      /\ staging' \subseteq {"entry", "state"}
  BY DEF DataInv, CallsFit, RenameState, TypeOK, history
<1>2. PICK s \in {"locked", "releasing"} : pc' = [pc EXCEPT ![p] = s]
  BY DEF RenameState, Goto
<1>3. /\ call[p].op = "rewrap" /\ DraftIsVerified(d, call[p].todo)
      /\ keyState.phase = "ready" => d.phase = "rewrapping"
      /\ keyState.phase # "ready" => call[p].todo = {}
      /\ d \in KeyState /\ keyState \in KeyState
  BY <1>1 DEF Fits, CallFits, RotationFits, Rotating, TypeOK, Call
<1>4. d.phase = "ready" => /\ keyState.phase = "verifying" /\ d.after = 0
                           /\ d.key = keyState.key + 1
                           /\ \A o \in Object : keyFile[o] \in {NoKey, d.key}
  BY <1>3 DEF DraftIsVerified
<1>5. d.phase # "ready" => d.key = keyState.key
  BY <1>3 DEF DraftIsVerified
<1>6. TypeOK'
  <2>1. pc' \in [Process -> Step]
    BY <1>1, <1>2 DEF TypeOK, Step, InWork
  <2> QED
    BY <1>1, <1>3, <1>4, <2>1 DEF TypeOK
<1>7. CallsFit' /\ WritersAreApart'
  <2>1. PICK c \in Call : c = call[p]
    BY <1>1
  <2>2. Fits(p, s, c)' /\ s \in Step /\ pc[p] \in InWork
    BY <1>1, <1>3, <2>1 DEF Fits, CallFits, ObjectFits, RotationFits, Calling,
       Rotating, InWork, InGuard, Step
  <2>3. call' = [call EXCEPT ![p] = c]
    BY <1>1, <2>1 DEF TypeOK
  <2>4. \A q \in Process : call[q].op = "write" => call[q].item \notin returned'
    BY <1>1 DEF DataInv, CallsFit, Fits, CallFits
  <2> QED
    BY <1>1, <1>2, <2>1, <2>2, <2>3, <2>4, OwnerKeepsCalls
<1>8. HistoryOK' /\ ObjectsHaveKeys' /\ ErasedStaysErased'
  BY <1>1 DEF DataInv, HistoryOK, ObjectsHaveKeys, ErasedStaysErased
<1>9. KeysAreCurrent'
  <2>1. KeysAreCurrent /\ keyState.phase \in {"ready", "rewrapping", "verifying"}
    BY <1>3 DEF DataInv, KeyState
  <2> HIDE DEF d
  <2>2. CASE d.phase = "ready"
    BY <1>1, <1>4, <2>2 DEF KeysAreCurrent
  <2>3. CASE d.phase # "ready"
    BY <1>1, <1>5, <2>1, <2>3 DEF KeysAreCurrent
  <2> QED
    BY <2>2, <2>3
<1>10. CursorIsVerified'
  <2> SUFFICES ASSUME d.phase = "verifying", NEW o \in Object, o <= d.after
               PROVE  keyFile[o] \in {NoKey, d.key + 1}
    BY <1>1 DEF CursorIsVerified
  <2>1. keyState.phase = "verifying"
    <3>1. d.after = 0 => FALSE
      <4>1. o \in Nat \ {0}
        BY BoundAssumption
      <4> QED
        BY <4>1
    <3> QED
      BY <1>3, <3>1 DEF DraftIsVerified
  <2>2. d.key = keyState.key /\ call[p].todo = {}
    BY <1>3, <1>5, <2>1
  <2> QED
    BY <1>3, <2>1, <2>2 DEF DraftIsVerified
<1> QED
  BY <1>6, <1>7, <1>8, <1>9, <1>10 DEF DataInv

\* The call returns.
LEMMA ReleaseKeepsData ==
  ASSUME IInv, DataInv, NEW p \in Process, Release(p)
  PROVE  DataInv'
<1> DEFINE i == call[p].item
<1>1. /\ Fits(p, "releasing", call[p]) /\ call[p] \in Call /\ pc[p] = "releasing"
      /\ TypeOK /\ pc' = [pc EXCEPT ![p] = "idle"]
      /\ call' = [call EXCEPT ![p] = NoCall]
      /\ UNCHANGED <<guard, staging, keyState, keyFile, objFile, secret, erasing>>
      /\ lock' = None
  BY DEF DataInv, CallsFit, Release, Goto, TypeOK, files
<1>2. /\ call[p].op = "write" => i \in Object
      /\ call[p].op = "purge" => i \in erasing /\ i \in Object
  BY <1>1 DEF Fits, CallFits, TypeOK
<1>3. /\ returned' = returned \/ (returned' = returned \cup {i} /\ call[p].op = "write"
                                  /\ objFile[i])
      /\ erased' = erased \/ (erased' = erased \cup {i} /\ i \in erasing
                              /\ ~objFile[i] /\ keyFile[i] = NoKey)
  BY <1>2 DEF Release
<1>4. Fresh \in KeyState /\ NoCall \in Call /\ NoCall.op = "read"
  BY BoundAssumption DEF Fresh, KeyState, Key, NoCall, Call, Op
<1>5. TypeOK'
  <2>1. returned' \subseteq Object /\ erased' \subseteq Object
    BY <1>1, <1>2, <1>3 DEF TypeOK
  <2>2. pc' \in [Process -> Step] /\ call' \in [Process -> Call]
    BY <1>1, <1>4 DEF TypeOK, Step
  <2> QED
    BY <1>1, <2>1, <2>2 DEF TypeOK
<1>6. CallsFit' /\ WritersAreApart'
  <2>1. Fits(p, "idle", NoCall)' /\ "idle" \in Step /\ pc[p] \in InWork
    BY <1>1, <1>4 DEF Fits, CallFits, ObjectFits, RotationFits, Calling, Rotating, InWork,
       InGuard, Step
  <2>2. \A q \in Process : q # p /\ call[q].op = "write" =>
           /\ keyFile'[call[q].item] = keyFile[call[q].item]
           /\ call[q].item \notin returned'
    BY <1>1, <1>3 DEF DataInv, WritersAreApart, CallsFit, Fits, CallFits
  <2>3. UNCHANGED <<secret, erasing>> /\ returned \subseteq returned'
    BY <1>1, <1>3
  <2> QED
    BY <1>1, <1>4, <2>1, <2>2, <2>3, OwnerKeepsCalls
<1>7. HistoryOK' /\ ObjectsHaveKeys' /\ ErasedStaysErased'
  BY <1>1, <1>3 DEF DataInv, HistoryOK, ObjectsHaveKeys, ErasedStaysErased
<1>8. KeysAreCurrent' /\ CursorIsVerified'
  BY <1>1 DEF DataInv, KeysAreCurrent, CursorIsVerified
<1> QED
  BY <1>5, <1>6, <1>7, <1>8 DEF DataInv

\* The cutover of a process that does nothing.
LEMMA ReconfigureKeepsData ==
  ASSUME DataInv, NEW p \in Process, Reconfigure(p)
  PROVE  DataInv'
<1>1. /\ TypeOK /\ pc[p] = "idle" /\ call[p] = NoCall /\ NoCall.op = "read"
      /\ secret' = [secret EXCEPT ![p] = keyState.key]
      /\ UNCHANGED <<lock, guard, staging, keyState, keyFile, objFile, pc, call>>
      /\ UNCHANGED <<returned, erasing, erased>>
  BY DEF DataInv, CallsFit, Fits, CallFits, Reconfigure, NoCall, files, history
<1>2. TypeOK'
  BY <1>1 DEF TypeOK, KeyState
<1>3. ASSUME NEW q \in Process PROVE Fits(q, pc[q], call[q])'
  <2>1. Fits(q, pc[q], call[q])
    BY DEF DataInv, CallsFit
  <2>2. q # p => secret'[q] = secret[q]
    BY <1>1 DEF TypeOK
  <2>3. CallFits(q, pc[q], call[q])'
    BY <1>1, <2>1, <2>2 DEF Fits, CallFits
  <2>4. ObjectFits(pc[q], call[q])'
    BY <1>1, <2>1 DEF Fits, ObjectFits
  <2>5. RotationFits(q, pc[q], call[q])'
    BY <1>1, <2>1, <2>2 DEF Fits, RotationFits, DraftIsVerified, Replaceable, Rotating
  <2> QED
    BY <2>3, <2>4, <2>5 DEF Fits
<1>4. CallsFit' /\ WritersAreApart'
  BY <1>1, <1>3 DEF CallsFit, DataInv, WritersAreApart
<1>5. /\ HistoryOK' /\ ObjectsHaveKeys' /\ ErasedStaysErased'
      /\ KeysAreCurrent' /\ CursorIsVerified'
  BY <1>1 DEF DataInv, HistoryOK, ObjectsHaveKeys, ErasedStaysErased, KeysAreCurrent,
     CursorIsVerified
<1> QED
  BY <1>2, <1>4, <1>5 DEF DataInv

LEMMA StutterKeepsData ==
  ASSUME DataInv, UNCHANGED <<Stored, pc, call, secret, history>>,
         lock' \in Process \cup {None}, guard' \in Process \cup {None},
         staging' \subseteq {"entry", "state"}
  PROVE  DataInv'
<1>1. UNCHANGED <<keyState, keyFile, objFile, pc, call, secret>>
      /\ UNCHANGED <<returned, erasing, erased>>
  BY DEF Stored, history
<1>2. TypeOK'
  BY <1>1 DEF DataInv, TypeOK
<1>3. ASSUME NEW q \in Process PROVE Fits(q, pc[q], call[q])'
  <2>1. Fits(q, pc[q], call[q])
    BY DEF DataInv, CallsFit
  <2> QED
    BY <1>1, <2>1, FitsStays DEF Stored
<1>4. CallsFit' /\ WritersAreApart'
  BY <1>1, <1>3 DEF CallsFit, DataInv, WritersAreApart
<1>5. /\ HistoryOK' /\ ObjectsHaveKeys' /\ ErasedStaysErased'
      /\ KeysAreCurrent' /\ CursorIsVerified'
  BY <1>1 DEF DataInv, HistoryOK, ObjectsHaveKeys, ErasedStaysErased, KeysAreCurrent,
     CursorIsVerified
<1> QED
  BY <1>2, <1>4, <1>5 DEF DataInv

LEMMA NextKeepsData == IInv /\ DataInv /\ [Next]_vars => DataInv'
<1> SUFFICES ASSUME IInv, DataInv, [Next]_vars PROVE DataInv'
  OBVIOUS
<1>1. CASE UNCHANGED vars
  BY <1>1, StutterKeepsData DEF vars, files, Stored, DataInv, TypeOK
<1>2. CASE RecoverOffline
  <2>1. lock' \in Process \cup {None} /\ guard' \in Process \cup {None}
        /\ staging' \subseteq {"entry", "state"}
        /\ UNCHANGED <<Stored, pc, call, secret, history>>
    BY <1>2 DEF RecoverOffline, Stored
  <2> QED
    BY <2>1, StutterKeepsData
<1>3. ASSUME NEW p \in Process, Work(p) PROVE DataInv'
  BY <1>3, WriteKeyKeepsData, WriteObjectKeepsData, PurgeKeepsData, OpenKeepsData,
     PassKeepsData, BatchKeepsData, RenameEntryKeepsData, RenameStateKeepsData
  DEF Work, Rewrap
<1> QED
  BY <1>1, <1>2, <1>3, BeginKeepsData, BeginReadKeepsData, LeaseKeepsData, EndKeepsData,
     ReadKeepsData, BatchKeepsData, ReleaseKeepsData, ReconfigureKeepsData DEF Next

-----------------------------------------------------------------------------
(* At every step of every process, killed or not, the lease is one live        *)
(* owner's and the files are as the calls in progress need them.               *)
THEOREM StoreInvariant == Spec => [](IInv /\ DataInv)
<1>1. Init => IInv /\ DataInv
  BY InitIInv, DataInitially
<1>2. IInv /\ DataInv /\ [Next]_vars => (IInv /\ DataInv)'
  BY NextKeepsIInv, NextKeepsData
<1> QED
  BY <1>1, <1>2, PTL DEF Spec

(* When the store says it is ready, no key is left under another wrapping key: *)
(* the old one may be destroyed (cutover_ready in rewrapBatch).                *)
THEOREM CutoverIsSafe == Spec => []ReadyMeansRewrapped
<1>1. DataInv => ReadyMeansRewrapped
  BY DEF DataInv, KeysAreCurrent, ReadyMeansRewrapped
<1> QED
  BY <1>1, StoreInvariant, PTL

(* What a purge that returned removed stays removed: no write draws its name,  *)
(* and no rotation writes a key where it found none (purge, rewrapBatch).      *)
THEOREM ErasureIsFinal == Spec => []ErasedStaysErased
<1>1. DataInv => ErasedStaysErased
  BY DEF DataInv
<1> QED
  BY <1>1, StoreInvariant, PTL

(* A reader is told that a payload is gone only after its purge began,         *)
(* although it takes no lease (read, replaceAtomically).                       *)
THEOREM NotFoundIsEvidence == Spec => []NotFoundMeansErasing
<1>1. DataInv => NotFoundMeansErasing
  BY DEF DataInv, CallsFit, Fits, ObjectFits, NotFoundMeansErasing
<1> QED
  BY <1>1, StoreInvariant, PTL

(* What was written and not purged is readable with the store's keys, wherever *)
(* a write, a purge or a rotation was killed (write, purge, rewrapBatch).      *)
THEOREM KeptPayloadsAreReadable == Spec => []KeptStaysReadable
<1>1. DataInv => KeptStaysReadable
  BY DEF DataInv, TypeOK, HistoryOK, ObjectsHaveKeys, KeysAreCurrent, KeptStaysReadable,
     KeptIsReadable
<1> QED
  BY <1>1, StoreInvariant, PTL

-----------------------------------------------------------------------------
(* The deletions beside the store.                                             *)

(* A batch the SDK was told is durable keeps its row and its body until a      *)
(* deletion captures it: no undo after an ambiguous COMMIT reaches it          *)
(* (appendDurableBatch, executePrivacyRequest).                                *)
THEOREM AcknowledgedBatchesStay ==
  ASSUME DeletionAssumption
  PROVE  Deletions!Spec => []AcknowledgedIsDurable
BY Deletions!AcknowledgedStays, PTL DEF AcknowledgedIsDurable, DeletionAssumption

(* From recognition on, nothing in a deletion's scope is a live record, as     *)
(* long as the connection that holds the projection's barrier lives            *)
(* (acquirePrivacyProjectionSessionFence, processSdkInbox).                    *)
THEOREM RecognizedBatchesStayOut ==
  ASSUME DeletionAssumption, ~SessionLoss
  PROVE  Deletions!Spec => []RecognizedStaysOut
BY Deletions!RecognizedIsWithdrawn, PTL DEF RecognizedStaysOut, DeletionAssumption
=============================================================================
