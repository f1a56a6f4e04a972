--------------------------- MODULE AdServicesLookup ---------------------------
(* The AdServices lookup of one install record: its queue row, the workers     *)
(* that claim it, ask Apple and store the answer, the privacy deletion of the  *)
(* record, and the SDK inbox that may queue it again                           *)
(* (apps/worker/src/adservices-worker.ts).                                     *)
(*                                                                             *)
(* The module stands on two others.  Every transaction of a worker goes        *)
(* through its tenant cycle, of which TenantCycle shows that only the current  *)
(* owner commits and that nobody becomes the owner while a COMMIT is in        *)
(* flight; owner and Takeover are that guarantee.  Deletion follows            *)
(* PrivacyDeletion: recognition waits for the shared holders of the tenant's   *)
(* privacy barrier, and its purge comes later.                                 *)
(* Leases run out at any time: no property below depends on how long they are. *)
EXTENDS Integers, FiniteSets

CONSTANTS Worker,
          Claim,        \* claim tokens; the response of a claim has its name
          None,
          LostAnswers,  \* may the answer of a COMMIT be lost?
          Crashes       \* may a process die?

ASSUME BoundAssumptions ==
    /\ None \notin Worker \cup Claim
    /\ IsFiniteSet(Worker) /\ IsFiniteSet(Claim)
    /\ LostAnswers \in BOOLEAN /\ Crashes \in BOOLEAN

MaxAttempts == 3

VARIABLES
    owner,      \* the worker whose tenant cycle is current
    source,     \* payload lifecycle of the install record
    row,        \* ephemeral.adservices_lookups
    aged,       \* the token is 23 hours old
    token,      \* the batch body with the token is readable
    result,     \* ledger.adservices_lookup_results: the response it refers to
    stored,     \* the responses that are readable in the payload store
    doomed,     \* control.privacy_payload_purges: the responses queued
    inFlight,   \* the completion the server has of a worker: a COMMIT was sent
    at,         \* where a worker is in processAdServicesLookups
    mine,       \* what a worker remembers of the row it claimed
    orphaned    \* history: the responses whose worker died with them

vars == <<owner, source, row, aged, token, result, stored, doomed, inFlight,
          at, mine, orphaned>>

Places == {"idle", "claimed", "asking", "completing", "locked", "written",
           "committing", "rescheduling", "dropping", "purging", "queueing"}

NoRow == [queued |-> FALSE, attempts |-> 0, due |-> FALSE,
          claim |-> None, live |-> FALSE]
NewRow == [NoRow EXCEPT !.queued = TRUE, !.due = TRUE]
Nothing == [claim |-> None, attempts |-> 0, aged |-> FALSE]

TypeOK ==
    /\ owner \in Worker
    /\ source \in {"available", "deleted"}
    /\ row \in [queued : BOOLEAN, attempts : 0..MaxAttempts, due : BOOLEAN,
                claim : Claim \cup {None}, live : BOOLEAN]
    /\ aged \in BOOLEAN
    /\ token \in BOOLEAN
    /\ result \in Claim \cup {None}
    /\ stored \in SUBSET Claim
    /\ doomed \in SUBSET Claim
    /\ inFlight \in [Worker -> Claim \cup {None}]
    /\ at \in [Worker -> Places]
    /\ mine \in [Worker -> [claim : Claim \cup {None},
                            attempts : 0..MaxAttempts, aged : BOOLEAN]]
    /\ orphaned \in SUBSET Claim

Init ==
    /\ owner \in Worker
    /\ source = "available"
    /\ row = NewRow
    /\ aged = FALSE
    /\ token = TRUE
    /\ result = None
    /\ stored = {}
    /\ doomed = {}
    /\ inFlight = [w \in Worker |-> None]
    /\ at = [w \in Worker |-> "idle"]
    /\ mine = [w \in Worker |-> Nothing]
    /\ orphaned = {}

-----------------------------------------------------------------------------
(* The tenant cycle, the privacy barrier and the row lock.                     *)

\* The transaction of the worker passes the fence of its cycle.
Unfenced(w) == TRUE                            \* mutant: no check at COMMIT
Fenced(w) == owner = w

\* Another worker's cycle begins, unless a COMMIT that passed is in flight.  A
\* worker is in one cycle of the tenant at a time, so nothing of an older cycle
\* of its own is left.
Takeover(w) ==
    /\ owner # w
    /\ at[w] = "idle"
    /\ inFlight[owner] = None
    /\ owner' = w
    /\ UNCHANGED <<source, row, aged, token, result, stored, doomed, inFlight,
                   at, mine, orphaned>>

\* Who holds the privacy barrier shared: a completion from its first statement
\* until its transaction has ended, and the SDK inbox while it queues lookups.
HoldsBarrierToWrite(w) ==                      \* mutant: released before COMMIT
    at[w] \in {"locked", "queueing"}

HoldsBarrier(w) ==
    \/ at[w] \in {"locked", "written", "queueing"}
    \/ inFlight[w] # None

BarrierFree == \A w \in Worker : ~HoldsBarrier(w)

\* FOR UPDATE OF lookup, held by a completion.
RowLocked ==
    \E w \in Worker : at[w] \in {"locked", "written"} \/ inFlight[w] # None

-----------------------------------------------------------------------------
(* Time and deletion.                                                          *)

BecomesDue ==
    /\ row.queued /\ ~row.due
    /\ row' = [row EXCEPT !.due = TRUE]
    /\ UNCHANGED <<owner, source, aged, token, result, stored, doomed,
                   inFlight, at, mine, orphaned>>

TokenAges ==
    /\ ~aged
    /\ aged' = TRUE
    /\ UNCHANGED <<owner, source, row, token, result, stored, doomed, inFlight,
                   at, mine, orphaned>>

LeaseExpires ==
    /\ row.live
    /\ row' = [row EXCEPT !.live = FALSE]
    /\ UNCHANGED <<owner, source, aged, token, result, stored, doomed,
                   inFlight, at, mine, orphaned>>

\* The deletion of the record commits: the record and the queue row go, and the
\* response of the result, if there is one, is queued for purge.
Recognize ==
    /\ source = "available"
    /\ BarrierFree
    /\ source' = "deleted"
    /\ row' = NoRow
    /\ doomed' = {c \in Claim : c = result}
    /\ UNCHANGED <<owner, aged, token, result, stored, inFlight, at, mine,
                   orphaned>>

\* The purge of what recognition queued: the batch body and the response.
PurgeToken ==
    /\ source = "deleted" /\ token
    /\ token' = FALSE
    /\ UNCHANGED <<owner, source, row, aged, result, stored, doomed, inFlight,
                   at, mine, orphaned>>

PurgeDoomed ==
    /\ stored \cap doomed # {}
    /\ stored' = stored \ doomed
    /\ UNCHANGED <<owner, source, row, aged, token, result, doomed, inFlight,
                   at, mine, orphaned>>

-----------------------------------------------------------------------------
(* Claiming.                                                                   *)

Goto(w, place) == at' = [at EXCEPT ![w] = place]

\* The worker goes on to the next row, or its call throws and the job ends.
Leave(w) ==
    /\ at' = [at EXCEPT ![w] = "idle"]
    /\ mine' = [mine EXCEPT ![w] = Nothing]

\* randomUUID: a token nothing refers to.
Fresh(c) ==
    /\ c \notin stored \cup doomed \cup {result, row.claim}
    /\ \A w \in Worker : c \notin {inFlight[w], mine[w].claim}

\* Mutant: only a row without a claim is taken.
ClaimableUnclaimed(seenAged) ==
    /\ row.queued
    /\ row.due \/ seenAged
    /\ row.claim = None
    /\ ~RowLocked

\* The Date of the call may be older than the token's 23 hours.
Claimable(seenAged) ==
    /\ row.queued
    /\ row.due \/ seenAged
    /\ ~row.live
    /\ ~RowLocked

TakeClaim(w, c, seenAged) ==
    /\ at[w] = "idle"
    /\ Fenced(w)
    /\ seenAged => aged
    /\ Claimable(seenAged)
    /\ Fresh(c)
    /\ row' = [row EXCEPT !.claim = c, !.live = TRUE]
    /\ UNCHANGED <<owner, source, aged, token, result, stored, doomed,
                   inFlight, orphaned>>

ClaimLookup(w) ==
    \E c \in Claim, seenAged \in BOOLEAN :
        /\ TakeClaim(w, c, seenAged)
        /\ Goto(w, "claimed")
        /\ mine' = [mine EXCEPT ![w] =
              [claim |-> c, attempts |-> row.attempts, aged |-> seenAged]]

\* The claim commits, but the worker never learns of it.
ClaimUnheard(w) ==
    /\ LostAnswers
    /\ \E c \in Claim, seenAged \in BOOLEAN : TakeClaim(w, c, seenAged)
    /\ UNCHANGED <<at, mine>>

-----------------------------------------------------------------------------
(* From the claim to the answer.                                               *)

TokenExpired(w) ==
    /\ at[w] = "claimed"
    /\ mine[w].aged
    /\ Goto(w, "completing")
    /\ UNCHANGED <<owner, source, row, aged, token, result, stored, doomed,
                   inFlight, mine, orphaned>>

\* AdServicesLookupLimiter.allow refuses: the attempt does not count.
RateLimited(w) ==
    /\ at[w] = "claimed"
    /\ ~mine[w].aged
    /\ Goto(w, "rescheduling")
    /\ UNCHANGED <<owner, source, row, aged, token, result, stored, doomed,
                   inFlight, mine, orphaned>>

ReadToken(w) ==
    /\ at[w] = "claimed"
    /\ ~mine[w].aged
    /\ Goto(w, IF token THEN "asking" ELSE "dropping")
    /\ UNCHANGED <<owner, source, row, aged, token, result, stored, doomed,
                   inFlight, mine, orphaned>>

\* 200 with a valid body, or 400: the lookup is over.
FinalAnswer(w) ==
    /\ at[w] = "asking"
    /\ Goto(w, "completing")
    /\ UNCHANGED <<owner, source, row, aged, token, result, stored, doomed,
                   inFlight, mine, orphaned>>

NotFound(w) ==
    /\ at[w] = "asking"
    /\ LET attempts == mine[w].attempts + 1 IN
       IF attempts >= MaxAttempts
       THEN Goto(w, "completing") /\ UNCHANGED mine
       ELSE /\ Goto(w, "rescheduling")
            /\ mine' = [mine EXCEPT ![w].attempts = attempts]
    /\ UNCHANGED <<owner, source, row, aged, token, result, stored, doomed,
                   inFlight, orphaned>>

\* Another status, a network failure or the request timeout.
TransientAnswer(w) ==
    /\ at[w] = "asking"
    /\ Goto(w, "rescheduling")
    /\ mine' = [mine EXCEPT ![w].attempts =
                   IF @ + 1 =< MaxAttempts THEN @ + 1 ELSE MaxAttempts]
    /\ UNCHANGED <<owner, source, row, aged, token, result, stored, doomed,
                   inFlight, orphaned>>

\* The call throws: a malformed 200, an unreadable body, a transaction refused
\* by the fence.  The claim stays on the row.
Throws(w) ==
    /\ at[w] \in {"claimed", "asking", "completing", "rescheduling",
                  "dropping", "queueing"}
    /\ Leave(w)
    /\ UNCHANGED <<owner, source, row, aged, token, result, stored, doomed,
                   inFlight, orphaned>>

-----------------------------------------------------------------------------
(* Ending the claim.                                                           *)

OwnsClaim(w) == row.queued /\ row.claim = mine[w].claim /\ row.live

\* reschedule: returns FALSE, without a change, when the claim is not ours.
Reschedule(w) ==
    /\ at[w] = "rescheduling"
    /\ Fenced(w)
    /\ ~RowLocked
    /\ row' = IF OwnsClaim(w)
              THEN [NewRow EXCEPT !.attempts = mine[w].attempts, !.due = FALSE]
              ELSE row
    /\ Leave(w)
    /\ UNCHANGED <<owner, source, aged, token, result, stored, doomed,
                   inFlight, orphaned>>

DropUnavailableToken(w) ==
    /\ at[w] = "dropping"
    /\ Fenced(w)
    /\ ~RowLocked
    /\ row' = IF OwnsClaim(w) THEN NoRow ELSE row
    /\ Leave(w)
    /\ UNCHANGED <<owner, source, aged, token, result, stored, doomed,
                   inFlight, orphaned>>

\* acquirePrivacyTenantXactFence is granted and lockCurrentCompletion finds the
\* row, or not.
MayComplete(w) == OwnsClaim(w) /\ source = "available"

LockCompletion(w) ==
    /\ at[w] = "completing"
    /\ ~RowLocked
    /\ IF MayComplete(w)
       THEN Goto(w, "locked") /\ UNCHANGED mine
       ELSE Leave(w)
    /\ UNCHANGED <<owner, source, row, aged, token, result, stored, doomed,
                   inFlight, orphaned>>

WriteResponse(w) ==
    /\ at[w] = "locked"
    /\ stored' = stored \cup {mine[w].claim}
    /\ Goto(w, "written")
    /\ UNCHANGED <<owner, source, row, aged, token, result, doomed, inFlight,
                   mine, orphaned>>

\* The inserts and the delete succeed and COMMIT passes the fence.  A second
\* result for the install record violates a unique constraint.
SendCommit(w) ==
    /\ at[w] = "written"
    /\ Fenced(w)
    /\ result = None
    /\ inFlight' = [inFlight EXCEPT ![w] = mine[w].claim]
    /\ Goto(w, "committing")
    /\ UNCHANGED <<owner, source, row, aged, token, result, stored, doomed,
                   mine, orphaned>>

\* The server commits, and the worker hears of it unless it has given up.
CommitLands(w) ==
    /\ inFlight[w] # None
    /\ inFlight' = [inFlight EXCEPT ![w] = None]
    /\ result' = inFlight[w]
    /\ row' = NoRow
    /\ IF at[w] = "committing" THEN Leave(w) ELSE UNCHANGED <<at, mine>>
    /\ UNCHANGED <<owner, source, aged, token, stored, doomed, orphaned>>

\* catch: what was written is purged before the error goes on.
CommitAborts(w) ==
    /\ inFlight[w] # None
    /\ inFlight' = [inFlight EXCEPT ![w] = None]
    /\ at' = [at EXCEPT ![w] = IF @ = "committing" THEN "purging" ELSE @]
    /\ UNCHANGED <<owner, source, row, aged, token, result, stored, doomed,
                   mine, orphaned>>

\* The connection is lost, or the fence destroys it, before the answer.
AnswerLost(w) ==
    /\ LostAnswers
    /\ at[w] = "committing"
    /\ Goto(w, "purging")
    /\ UNCHANGED <<owner, source, row, aged, token, result, stored, doomed,
                   inFlight, mine, orphaned>>

\* Mutant: only a failed COMMIT purges.
StatementFailsQuietly(w) ==
    /\ at[w] \in {"locked", "written"}
    /\ Leave(w)
    /\ UNCHANGED <<owner, source, row, aged, token, result, stored, doomed,
                   inFlight, orphaned>>

\* A statement before COMMIT throws, or COMMIT is refused by the fence.
StatementFails(w) ==
    /\ at[w] \in {"locked", "written"}
    /\ IF at[w] = "written" THEN Goto(w, "purging") /\ UNCHANGED mine
                            ELSE Leave(w)
    /\ UNCHANGED <<owner, source, row, aged, token, result, stored, doomed,
                   inFlight, orphaned>>

PurgeResponse(w) ==
    /\ at[w] = "purging"
    /\ stored' = stored \ {mine[w].claim}
    /\ Leave(w)
    /\ UNCHANGED <<owner, source, row, aged, token, result, doomed, inFlight,
                   orphaned>>

-----------------------------------------------------------------------------
(* queueAdServicesLookup, called again when the SDK inbox recovers a batch     *)
(* whose post-processing did not finish.                                       *)

\* The statement takes its snapshot.  The worker is in a later cycle than any
\* completion it has sent, so none is in flight.
QueueReads(w) ==
    /\ at[w] = "idle"
    /\ inFlight[w] = None
    /\ Fenced(w)
    /\ source = "available"
    /\ result = None
    /\ Goto(w, "queueing")
    /\ UNCHANGED <<owner, source, row, aged, token, result, stored, doomed,
                   inFlight, mine, orphaned>>

\* ON CONFLICT DO NOTHING sees the row as it is by then.
QueueInserts(w) ==
    /\ at[w] = "queueing"
    /\ Fenced(w)
    /\ ~RowLocked
    /\ row' = IF row.queued THEN row ELSE NewRow
    /\ Leave(w)
    /\ UNCHANGED <<owner, source, aged, token, result, stored, doomed,
                   inFlight, orphaned>>

\* The process dies.  A COMMIT it sent stays with the server.
Crash(w) ==
    /\ Crashes
    /\ at[w] # "idle"
    /\ orphaned' = orphaned \cup (stored \cap {mine[w].claim})
    /\ Leave(w)
    /\ UNCHANGED <<owner, source, row, aged, token, result, stored, doomed,
                   inFlight>>

-----------------------------------------------------------------------------
Asking(w) ==
    \/ TokenExpired(w) \/ RateLimited(w) \/ ReadToken(w)
    \/ FinalAnswer(w) \/ NotFound(w) \/ TransientAnswer(w)

Ending(w) ==
    \/ Reschedule(w) \/ DropUnavailableToken(w)
    \/ LockCompletion(w) \/ WriteResponse(w) \/ SendCommit(w)
    \/ CommitLands(w) \/ PurgeResponse(w)

Failing(w) ==
    \/ ClaimUnheard(w) \/ Throws(w) \/ CommitAborts(w) \/ AnswerLost(w)
    \/ StatementFails(w) \/ Crash(w)

Next ==
    \/ BecomesDue \/ TokenAges \/ LeaseExpires
    \/ Recognize \/ PurgeToken \/ PurgeDoomed
    \/ \E w \in Worker :
        \/ Takeover(w)
        \/ ClaimLookup(w) \/ Asking(w) \/ Ending(w) \/ Failing(w)
        \/ QueueReads(w) \/ QueueInserts(w)

Spec == Init /\ [][Next]_vars

\* Time passes, a sent COMMIT ends and a purge is run.  What may fail or come
\* too late each time does not do so every time: between the claim of an
\* expired token and its completion there is no network request, and the lease
\* is at least a second.
ClaimAged(w) == ClaimLookup(w) /\ mine'[w].aged

Fairness ==
    /\ WF_vars(TokenAges)
    /\ WF_vars(LeaseExpires)
    /\ WF_vars(PurgeDoomed)
    /\ \A w \in Worker :
        /\ WF_vars(CommitLands(w) \/ CommitAborts(w))
        /\ WF_vars(PurgeResponse(w))
        /\ WF_vars(Asking(w) \/ Throws(w))
        /\ WF_vars(Reschedule(w) \/ DropUnavailableToken(w))
        /\ WF_vars(QueueInserts(w))
        /\ SF_vars(ClaimAged(w))
        /\ SF_vars(TokenExpired(w) /\ row.live)
        /\ WF_vars(LockCompletion(w))
        /\ SF_vars(LockCompletion(w) /\ MayComplete(w))
        /\ SF_vars(WriteResponse(w))
        /\ SF_vars(SendCommit(w))
        /\ SF_vars(CommitLands(w))

-----------------------------------------------------------------------------
(* Properties                                                                  *)

\* docs/privacy-security.md, lines 77-81: if completion commits first, deletion
\* includes its protected response in the purge snapshot; if deletion commits
\* first, no result follows.
DeletionCoversResult ==
    source = "deleted" /\ result # None => result \in doomed

\* A lookup that has a result is never queued: its completion would violate the
\* unique constraint each time it is claimed, and stop the job before the rows
\* behind it.
NoPoisonedLookup == row.queued => result = None
LookupIsNotPoisoned == TypeOK /\ NoPoisonedLookup

\* A result's response, to which the attribution refers as available evidence,
\* can be read as long as the record is not deleted.
EvidenceIsReadable ==
    result # None /\ source = "available" => result \in stored

\* Every response in the store is the result's, or a worker is still going to
\* commit or purge it, or its worker died: no failed statement, refused COMMIT
\* or lost answer leaves a response that no deletion would find.
NoStrayResponse ==
    \A c \in stored :
        \/ c = result
        \/ c \in orphaned
        \/ \E w \in Worker :
            mine[w].claim = c /\ at[w] \in {"written", "committing", "purging"}

\* A queued lookup ends, whatever the provider answers: its token ages, and the
\* expiry is recorded without asking.
LookupEnds == []<>~row.queued

\* No response of a deleted record stays readable.
DeletedResponsesGo == []<>(source = "deleted" => stored = {})
=============================================================================
