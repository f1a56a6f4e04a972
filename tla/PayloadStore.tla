----------------------------- MODULE PayloadStore -----------------------------
(* The encrypted payload store on one file system                              *)
(* (apps/runtime/src/payload-store.ts): the lease that serialises writes,      *)
(* purges and the rotation of the wrapping key across processes, its recovery  *)
(* after the death of its owner, and reads, which take no lease.               *)
(*                                                                             *)
(* A step is one change of the file system: a process may be killed, and       *)
(* others may look, between any two.  A process makes one call at a time, and  *)
(* a process that was killed never returns (a new one has another identity).   *)
EXTENDS Integers, FiniteSets

CONSTANTS Process,
          Host, host,  \* [Process -> Host]
          Mortal,      \* the processes that may be killed
          may,         \* [Process -> SUBSET Op]
          Object,      \* the names that writes draw, in the order of file names
          MaxKey,      \* bound: wrapping keys 0..MaxKey, rotated one by one
          Limit,       \* the page size of rewrapBatch
          None

Op == {"write", "purge", "read", "rewrap"}

ASSUME ProcessAssumption ==
    /\ host \in [Process -> Host]
    /\ Mortal \subseteq Process
    /\ may \in [Process -> SUBSET Op]
    /\ None \notin Process
ASSUME BoundAssumption ==
    /\ Object \subseteq Nat \ {0} /\ IsFiniteSet(Object)
    /\ MaxKey \in Nat /\ Limit \in Nat \ {0}

Key == 0..MaxKey
NoKey == -1
KeyState == [phase : {"ready", "rewrapping", "verifying"},
             key : Key,               \* the active key, or the one that goes
             after : Nat]             \* the cursor

VARIABLES
    lock,      \* whose owner.json is in .payload-operation.lock
    guard,     \* who made .payload-lock-reclaim
    staging,   \* which staging files exist
    keyState,  \* wrapping-key-state.json; without one, key 0 is ready
    keyFile,   \* [Object -> Key \cup {NoKey}] the key that wraps keys/<o>.json
    objFile,   \* [Object -> BOOLEAN] objects/<o>.json
    pc,        \* [Process -> Step]
    call,      \* [Process -> Call] the operation in progress
    secret,    \* [Process -> Key] the master key the process is configured with
    returned,  \* history: objects whose write returned
    erasing,   \* history: objects whose purge began
    erased     \* history: objects whose purge returned

files   == <<staging, keyState, keyFile, objFile>>
history == <<returned, erasing, erased>>
vars    == <<lock, guard, files, pc, call, secret, history>>

Call == [op : Op, item : Object \cup {0}, todo : SUBSET Object, draft : KeyState]
InWork == {"locked", "keyed", "halfErased", "paging", "entryStaged", "saving",
           "stateStaged", "releasing"}
InGuard == {"guarded", "cleaning", "discarding", "unguarding"}
Step == {"idle", "dead", "waiting", "opening", "reading", "readKey", "notFound"} \cup InWork \cup InGuard
Fresh == [phase |-> "ready", key |-> 0, after |-> 0]
NoCall == [op |-> "read", item |-> 0, todo |-> {}, draft |-> Fresh]

TypeOK ==
    /\ lock \in Process \cup {None}
    /\ guard \in Process \cup {None}
    /\ staging \subseteq {"entry", "state"}
    /\ keyState \in KeyState /\ (keyState.phase = "ready" => keyState.after = 0)
    /\ keyFile \in [Object -> Key \cup {NoKey}]
    /\ objFile \in [Object -> BOOLEAN]
    /\ pc \in [Process -> Step]
    /\ call \in [Process -> Call]
    /\ secret \in [Process -> Key]
    /\ returned \subseteq Object /\ erasing \subseteq Object /\ erased \subseteq Object

Init ==
    /\ lock = None
    /\ guard = None
    /\ staging = {}
    /\ keyState = Fresh
    /\ keyFile = [o \in Object |-> NoKey]
    /\ objFile = [o \in Object |-> FALSE]
    /\ pc = [p \in Process |-> "idle"]
    /\ call = [p \in Process |-> NoCall]
    /\ secret = [p \in Process |-> 0]
    /\ returned = {} /\ erasing = {} /\ erased = {}

Goto(p, step) == pc' = [pc EXCEPT ![p] = step]

-----------------------------------------------------------------------------
(* The lease: withPayloadLock and reclaimEndedOwner.                           *)

\* A call that needs the lease publishes its owner.json in a directory of its own.
Begin(p, op, o) ==
    /\ pc[p] = "idle"
    /\ op \in may[p] \ {"read"}
    /\ CASE op = "purge" -> o \in returned
         [] op = "write" -> /\ o \in Object \ returned /\ keyFile[o] = NoKey
                            /\ \A q \in Process : call[q].op = "write" => call[q].item # o
         [] op = "rewrap" -> o = 0 /\ secret[p] < MaxKey
    /\ call' = [call EXCEPT ![p].op = op, ![p].item = o]
    /\ erasing' = IF op = "purge" THEN erasing \cup {o} ELSE erasing
    /\ Goto(p, "waiting")
    /\ UNCHANGED <<lock, guard, files, secret, returned, erased>>

\* Mutant: a purge does not wait for the lease.
AcquireUnlessPurge(p) ==
    /\ pc[p] = "waiting"
    /\ lock = None \/ call[p].op = "purge"
    /\ lock' = IF lock = None THEN p ELSE lock
    /\ Goto(p, "locked")
    /\ UNCHANGED <<guard, files, call, secret, history>>

\* rename onto the lock succeeds only where no lease is.
Acquire(p) ==
    /\ pc[p] = "waiting"
    /\ lock = None
    /\ lock' = p
    /\ Goto(p, "locked")
    /\ UNCHANGED <<guard, files, call, secret, history>>

\* It is taken: the caller looks whether its owner has died, one at a time.
EnterGuard(p) ==
    /\ pc[p] = "waiting"
    /\ lock # None
    /\ guard = None
    /\ guard' = p
    /\ Goto(p, "guarded")
    /\ UNCHANGED <<lock, files, call, secret, history>>

\* payload_store_busy after five seconds.
GiveUp(p) ==
    /\ pc[p] = "waiting"
    /\ lock # None
    /\ call' = [call EXCEPT ![p] = NoCall]
    /\ Goto(p, "idle")
    /\ UNCHANGED <<lock, guard, files, secret, history>>

\* Mutant: an owner on another host has no process here, so it has ended.
EndedAnywhere(p, q) == pc[q] = "dead" \/ host[q] # host[p]

\* Only the death of an owner on this host can be told.
EndedOwner(p, q) == pc[q] = "dead" /\ host[q] = host[p]

ReadOwner(p) ==
    /\ pc[p] = "guarded"
    /\ Goto(p, IF lock # None /\ EndedOwner(p, lock) THEN "cleaning" ELSE "unguarding")
    /\ UNCHANGED <<lock, guard, files, call, secret, history>>

\* Mutant: a leftover staging file is an error.
CleanStagingThrows(p) ==
    /\ pc[p] = "cleaning"
    /\ Goto(p, IF staging = {} THEN "discarding" ELSE "unguarding")
    /\ UNCHANGED <<lock, guard, files, call, secret, history>>

CleanStaging(p) ==
    /\ pc[p] = "cleaning"
    /\ staging' = {}
    /\ Goto(p, "discarding")
    /\ UNCHANGED <<lock, guard, keyState, keyFile, objFile, call, secret, history>>

\* rename moves whatever lease is at the path.
Discard(p) ==
    /\ pc[p] = "discarding"
    /\ lock' = None
    /\ Goto(p, "unguarding")
    /\ UNCHANGED <<guard, files, call, secret, history>>

LeaveGuard(p) ==
    /\ pc[p] = "unguarding"
    /\ guard' = None
    /\ Goto(p, "waiting")
    /\ UNCHANGED <<lock, files, call, secret, history>>

\* The call returns, or throws, once its lease is gone.
Release(p) ==
    /\ pc[p] = "releasing"
    /\ lock' = None
    /\ LET o == call[p].item IN
       /\ returned' = IF call[p].op = "write" /\ objFile[o]
                      THEN returned \cup {o} ELSE returned
       /\ erased' = IF call[p].op = "purge" /\ ~objFile[o] /\ keyFile[o] = NoKey
                    THEN erased \cup {o} ELSE erased
    /\ call' = [call EXCEPT ![p] = NoCall]
    /\ Goto(p, "idle")
    /\ UNCHANGED <<guard, files, secret, erasing>>

Crash(p) ==
    /\ p \in Mortal
    /\ pc[p] \notin {"idle", "dead"}
    /\ call' = [call EXCEPT ![p] = NoCall]
    /\ Goto(p, "dead")
    /\ UNCHANGED <<lock, guard, files, secret, history>>

\* recoverOfflinePayloadLock: every client is stopped.
RecoverOffline ==
    /\ \A p \in Process : pc[p] \in {"idle", "dead"}
    /\ lock # None \/ guard # None
    /\ lock' = None
    /\ guard' = None
    /\ staging' = {}
    /\ UNCHANGED <<keyState, keyFile, objFile, pc, call, secret, history>>

-----------------------------------------------------------------------------
(* Writes and purges, under the lease.                                         *)

\* Mutant: the write does not look at the key state.
MayUseAlways(p) == TRUE

MayUse(p) == keyState.phase = "ready" /\ keyState.key = secret[p]

WriteKey(p) ==
    /\ pc[p] = "locked" /\ call[p].op = "write"
    /\ IF MayUse(p)
       THEN /\ keyFile' = [keyFile EXCEPT ![call[p].item] = secret[p]]
            /\ Goto(p, "keyed")
       ELSE keyFile' = keyFile /\ Goto(p, "releasing")
    /\ UNCHANGED <<lock, guard, staging, keyState, objFile, call, secret, history>>

WriteObject(p) ==
    /\ pc[p] = "keyed"
    /\ objFile' = [objFile EXCEPT ![call[p].item] = TRUE]
    /\ Goto(p, "releasing")
    /\ UNCHANGED <<lock, guard, staging, keyState, keyFile, call, secret, history>>

WriteObjectFails(p) ==
    /\ pc[p] = "keyed"
    /\ keyFile' = [keyFile EXCEPT ![call[p].item] = NoKey]
    /\ Goto(p, "releasing")
    /\ UNCHANGED <<lock, guard, staging, keyState, objFile, call, secret, history>>

PurgeObject(p) ==
    /\ pc[p] = "locked" /\ call[p].op = "purge"
    /\ objFile' = [objFile EXCEPT ![call[p].item] = FALSE]
    /\ Goto(p, "halfErased")
    /\ UNCHANGED <<lock, guard, staging, keyState, keyFile, call, secret, history>>

PurgeKey(p) ==
    /\ pc[p] = "halfErased"
    /\ keyFile' = [keyFile EXCEPT ![call[p].item] = NoKey]
    /\ Goto(p, "releasing")
    /\ UNCHANGED <<lock, guard, staging, keyState, objFile, call, secret, history>>

-----------------------------------------------------------------------------
(* One batch of the rotation from the process's key to the next one.           *)

Target(p) == secret[p] + 1
Left == {o \in Object : keyFile[o] # NoKey /\ o > keyState.after}
Page == {o \in Left : Cardinality({q \in Left : q <= o}) <= Limit}   \* keyPage
Last(S) == CHOOSE o \in S : \A q \in S : q <= o
First(S) == CHOOSE o \in S : \A q \in S : o <= q

\* The state the batch saves when every name of its page passed.
AfterPage(p) ==
    IF Left # Page THEN [keyState EXCEPT !.after = Last(Page)]
    ELSE IF keyState.phase = "rewrapping" THEN [keyState EXCEPT !.phase = "verifying", !.after = 0]
    ELSE [phase |-> "ready", key |-> Target(p), after |-> 0]

\* A finished rotation, or another one, changes nothing.
OpenBatch(p) ==
    /\ pc[p] = "locked" /\ call[p].op = "rewrap"
    /\ IF keyState.key # secret[p] THEN call' = call /\ Goto(p, "releasing")
       ELSE IF keyState.phase = "ready"
       THEN /\ call' = [call EXCEPT ![p].draft = [keyState EXCEPT !.phase = "rewrapping"]]
            /\ Goto(p, "saving")
       ELSE /\ call' = [call EXCEPT ![p].draft = AfterPage(p), ![p].todo = Page]
            /\ Goto(p, "paging")
    /\ UNCHANGED <<lock, guard, files, secret, history>>

\* Under the target already; replaced before an interrupted checkpoint, or verified.
PassEntry(p) ==
    /\ pc[p] = "paging" /\ call[p].todo # {}
    /\ LET o == First(call[p].todo) IN
       /\ objFile[o] /\ keyFile[o] = Target(p)
       /\ call' = [call EXCEPT ![p].todo = @ \ {o}]
    /\ UNCHANGED <<lock, guard, files, pc, secret, history>>

Replaceable(p, o) ==
    objFile[o] /\ keyFile[o] = secret[p] /\ keyState.phase = "rewrapping"

\* Mutant: the old entry goes before the new one is in place.
StageEntryRemoving(p) ==
    /\ pc[p] = "paging" /\ call[p].todo # {}
    /\ Replaceable(p, First(call[p].todo))
    /\ "entry" \notin staging
    /\ staging' = staging \cup {"entry"}
    /\ keyFile' = [keyFile EXCEPT ![First(call[p].todo)] = NoKey]
    /\ Goto(p, "entryStaged")
    /\ UNCHANGED <<lock, guard, keyState, objFile, call, secret, history>>

\* replaceAtomically opens its staging file with "wx".
StageEntry(p) ==
    /\ pc[p] = "paging" /\ call[p].todo # {}
    /\ Replaceable(p, First(call[p].todo))
    /\ "entry" \notin staging
    /\ staging' = staging \cup {"entry"}
    /\ Goto(p, "entryStaged")
    /\ UNCHANGED <<lock, guard, keyState, keyFile, objFile, call, secret, history>>

RenameEntry(p) ==
    /\ pc[p] = "entryStaged"
    /\ LET o == First(call[p].todo) IN
       /\ keyFile' = [keyFile EXCEPT ![o] = Target(p)]
       /\ call' = [call EXCEPT ![p].todo = @ \ {o}]
    /\ staging' = staging \ {"entry"}
    /\ Goto(p, "paging")
    /\ UNCHANGED <<lock, guard, keyState, objFile, secret, history>>

\* A missing object, a key that verification finds unreplaced, a staging file.
RefuseEntry(p) ==
    /\ pc[p] = "paging" /\ call[p].todo # {}
    /\ LET o == First(call[p].todo) IN
       /\ ~(objFile[o] /\ keyFile[o] = Target(p))
       /\ ~(Replaceable(p, o) /\ "entry" \notin staging)
    /\ Goto(p, "releasing")
    /\ UNCHANGED <<lock, guard, files, call, secret, history>>

ClosePage(p) ==
    /\ pc[p] = "paging" /\ call[p].todo = {}
    /\ Goto(p, "saving")
    /\ UNCHANGED <<lock, guard, files, call, secret, history>>

StageState(p) ==
    /\ pc[p] = "saving"
    /\ staging' = staging \cup {"state"}
    /\ Goto(p, IF "state" \in staging THEN "releasing" ELSE "stateStaged")
    /\ UNCHANGED <<lock, guard, keyState, keyFile, objFile, call, secret, history>>

\* Once the rotation is announced, the same call goes on with its first page.
RenameState(p) ==
    /\ pc[p] = "stateStaged"
    /\ keyState' = call[p].draft
    /\ staging' = staging \ {"state"}
    /\ Goto(p, IF keyState.phase = "ready" THEN "locked" ELSE "releasing")
    /\ UNCHANGED <<lock, guard, keyFile, objFile, call, secret, history>>

\* A file operation throws; replaceAtomically removes the file it staged.
WorkFails(p) ==
    /\ pc[p] \in InWork \ {"keyed", "releasing"}
    /\ staging' = CASE pc[p] = "entryStaged" -> staging \ {"entry"}
                    [] pc[p] = "stateStaged" -> staging \ {"state"}
                    [] OTHER -> staging
    /\ Goto(p, "releasing")
    /\ UNCHANGED <<lock, guard, keyState, keyFile, objFile, call, secret, history>>

-----------------------------------------------------------------------------
(* Reads take no lease.                                                        *)

BeginRead(p, o) ==
    /\ pc[p] = "idle" /\ "read" \in may[p]
    /\ o \in returned
    /\ call' = [call EXCEPT ![p].item = o]
    /\ Goto(p, "opening")
    /\ UNCHANGED <<lock, guard, files, secret, history>>

Returns(p) == Goto(p, "idle") /\ call' = [call EXCEPT ![p] = NoCall]

\* currentKey, then the object's file, then its key's.
ReadKeyState(p) ==
    /\ pc[p] = "opening"
    /\ IF MayUse(p) THEN Goto(p, "reading") /\ call' = call ELSE Returns(p)
    /\ UNCHANGED <<lock, guard, files, secret, history>>

ReadObject(p) ==
    /\ pc[p] = "reading"
    /\ Goto(p, IF objFile[call[p].item] THEN "readKey" ELSE "notFound")
    /\ UNCHANGED <<lock, guard, files, call, secret, history>>

\* Mutant: an entry under another wrapping key counts as absent.
ReadKeyOrAbsent(p) ==
    /\ pc[p] = "readKey"
    /\ IF keyFile[call[p].item] # secret[p] THEN Goto(p, "notFound") /\ call' = call
                                            ELSE Returns(p)
    /\ UNCHANGED <<lock, guard, files, secret, history>>

\* The payload, or payload_wrapping_key_mismatch where it has another key.
ReadKey(p) ==
    /\ pc[p] = "readKey"
    /\ IF keyFile[call[p].item] = NoKey THEN Goto(p, "notFound") /\ call' = call
                                        ELSE Returns(p)
    /\ UNCHANGED <<lock, guard, files, secret, history>>

ThrowNotFound(p) ==
    /\ pc[p] = "notFound"
    /\ Returns(p)
    /\ UNCHANGED <<lock, guard, files, secret, history>>

\* The cutover: the process is restarted with the key that the store is ready for.
Reconfigure(p) ==
    /\ pc[p] = "idle"
    /\ keyState.phase = "ready" /\ secret[p] # keyState.key
    /\ secret' = [secret EXCEPT ![p] = keyState.key]
    /\ UNCHANGED <<lock, guard, files, pc, call, history>>

-----------------------------------------------------------------------------
Reclaim(p) == ReadOwner(p) \/ CleanStaging(p) \/ Discard(p) \/ LeaveGuard(p)

Rewrap(p) ==
    \/ OpenBatch(p) \/ PassEntry(p) \/ StageEntry(p) \/ RenameEntry(p)
    \/ RefuseEntry(p) \/ ClosePage(p) \/ StageState(p) \/ RenameState(p)

Work(p) ==
    \/ WriteKey(p) \/ WriteObject(p) \/ WriteObjectFails(p)
    \/ PurgeObject(p) \/ PurgeKey(p)
    \/ Rewrap(p)

Next ==
    \/ \E p \in Process :
        \/ \E op \in Op, o \in Object \cup {0} : Begin(p, op, o)
        \/ \E o \in Object : BeginRead(p, o)
        \/ Acquire(p) \/ EnterGuard(p) \/ GiveUp(p)
        \/ Reclaim(p) \/ Work(p) \/ WorkFails(p) \/ Release(p) \/ Crash(p)
        \/ ReadKeyState(p) \/ ReadObject(p) \/ ReadKey(p) \/ ThrowNotFound(p)
        \/ Reconfigure(p)
    \/ RecoverOffline

Spec == Init /\ [][Next]_vars

\* A live process goes on with the recovery it began.
Fairness == \A p \in Process : WF_vars(Reclaim(p))
-----------------------------------------------------------------------------
Dead(p) == p \in Process /\ pc[p] = "dead"

(* At most one live process works on the store: no takeover, whatever the      *)
(* order in which the dead owner's lease is looked at, discarded and acquired  *)
(* again, takes the lease of a live owner (withPayloadLock, reclaimEndedOwner).*)
MutualExclusion == \A p \in Process : pc[p] \in InWork => lock = p

(* A staging file exists while the live owner of the lease is between creating *)
(* and renaming it, and at no other time in its work: a killed owner's leftover*)
(* never blocks it (openSync "wx"), and no cleaner removes the one it made.    *)
StagingIsTheOwners ==
    \A p \in Process : pc[p] \in InWork =>
        /\ "entry" \in staging <=> pc[p] = "entryStaged"
        /\ "state" \in staging <=> pc[p] = "stateStaged"

(* A store that says it is ready has no key under another wrapping key: the    *)
(* old one may be destroyed at the cutover (cutover_ready).                    *)
ReadyMeansRewrapped ==
    keyState.phase = "ready" =>
        \A o \in Object : keyFile[o] \in {NoKey, keyState.key}

(* What a purge that returned removed never comes back, whatever rotation was  *)
(* under way: privacy verification relies on it.                               *)
ErasedStaysErased == \A o \in erased : ~objFile[o] /\ keyFile[o] = NoKey

(* A reader is told payload_not_found, which callers take for proof of removal,*)
(* only where a purge of that object has begun: never in the middle of the     *)
(* replacement of its key, nor after a crash there.                            *)
NotFoundMeansErasing ==
    \A p \in Process : pc[p] = "notFound" => call[p].item \in erasing

(* What was written and never purged stays readable with the store's keys,     *)
(* wherever a write, a purge or a rotation was killed.                         *)
KeptIsReadable ==
    \A o \in returned \ erasing :
        /\ objFile[o]
        /\ keyFile[o] \in {keyState.key} \cup
             (IF keyState.phase = "ready" THEN {} ELSE {keyState.key + 1})
KeptStaysReadable == TypeOK /\ KeptIsReadable

(* The lease of an owner that died is freed, as long as a process of its host  *)
(* keeps looking (one that waits tries every ten milliseconds), and no         *)
(* reclaimer was killed in the reclaim directory.                              *)
DeadOwnerIsReclaimed ==
    \A p \in Process, q \in Mortal : p # q /\ host[p] = host[q] =>
        ([]<><<EnterGuard(p)>>_vars => []<>(lock = q /\ Dead(q) => Dead(guard)))
=============================================================================
