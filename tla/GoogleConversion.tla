-------------------------- MODULE GoogleConversion --------------------------
(***************************************************************************)
(* The outbox of Google conversions for one destination: an encrypted body *)
(* and a row per verified purchase, pinned to the destination revision it  *)
(* was discovered under; the ingest request; and the polling of what       *)
(* Google made of it, until a deadline.                                    *)
(*                                                                         *)
(* A row is worked on under a claim that lapses.  No transaction is open   *)
(* while a request is out: the one that starts it checks the claim, the    *)
(* privacy state and the revision under their locks, and the one that      *)
(* records its answer checks the claim and the state again.                *)
(***************************************************************************)
EXTENDS Integers, Sequences, FiniteSets

CONSTANTS
  Conversions,   \* verified purchases that qualify
  Workers,       \* processes that run the job
  MaxAttempts,   \* bound: requests for a row before its deadline
  MaxRevisions,  \* bound: revisions of the destination
  MaxFaults      \* bound: crashes, exceptions, lost answers, overrun claims

Unclaimed == "nobody"
OutboxAssumption ==
  /\ Unclaimed \notin Workers
  /\ MaxAttempts \in Nat \ {0} /\ MaxRevisions \in Nat \ {0} /\ MaxFaults \in Nat

VARIABLES
  withdrawn,  \* conversions whose deletion is recognized
  enabled, revision,  \* the destination
  resting,    \* its next_request_at is in the future
  rows,       \* ephemeral.google_conversion_deliveries: conversion -> row
  results,    \* ledger.google_conversion_delivery_results, in order
  readable,   \* bodies in the payload store: <<conversion, who wrote it>>
  doomed,     \* bodies a recognized deletion will purge
  worker,     \* what each worker is at, with its copy of the row
  unheard,    \* history: rows whose body fell to a lost commit answer
  leaked,     \* history: bodies whose worker died before it could purge them
  faults

destination == <<enabled, revision, resting>>
bodies == <<readable, doomed>>
history == <<unheard, leaked>>
vars == <<withdrawn, destination, rows, results, bodies, worker, history, faults>>

Polling == {"http_accepted", "diagnostics_processing"}
Open == {"queued"} \cup Polling
Final == {"succeeded", "failed", "expired"}
Row == [state : Open \cup Final, attempts : 0..(MaxAttempts + 1),
        revision : 1..MaxRevisions, body : Conversions \X Workers,
        claim : Workers \cup {Unclaimed}, live : BOOLEAN,
        due : BOOLEAN, late : BOOLEAN]
Idle == [at |-> "idle"]
At(w, place) == worker[w].at = place
Faulting(n) == faults + n <= MaxFaults /\ faults' = faults + n

TypeOK ==
  /\ withdrawn \subseteq Conversions /\ unheard \subseteq Conversions
  /\ enabled \in BOOLEAN /\ resting \in BOOLEAN /\ revision \in 1..MaxRevisions
  /\ DOMAIN rows \subseteq Conversions \ withdrawn
  /\ \A c \in DOMAIN rows : rows[c] \in Row
  /\ DOMAIN results = Conversions
  /\ readable \cup doomed \cup leaked \subseteq Conversions \X Workers
  /\ \A w \in Workers : worker[w].at \in {"idle", "written", "claimed", "bound",
       "stopping", "ready", "asking", "ending", "purging"}
  /\ faults \in 0..MaxFaults

Init ==
  /\ withdrawn = {} /\ enabled = TRUE /\ revision = 1 /\ resting = FALSE
  /\ rows = <<>> /\ results = [c \in Conversions |-> <<>>]
  /\ readable = {} /\ doomed = {}
  /\ worker = [w \in Workers |-> Idle]
  /\ unheard = {} /\ leaked = {} /\ faults = 0

To(w, step) == worker' = [worker EXCEPT ![w] = step]
With(f, c, value) == [x \in DOMAIN f \cup {c} |-> IF x = c THEN value ELSE f[x]]
Append1(c, attempt, state) ==
  results' = [results EXCEPT ![c] = Append(@, <<attempt, state>>)]

-----------------------------------------------------------------------------
(* Discovery: the body is written before any lock is taken. *)

Eligible(c, bound) == enabled /\ revision = bound /\ c \notin withdrawn

Prepare(w, c) ==
  /\ At(w, "idle") /\ c \notin DOMAIN rows /\ Eligible(c, revision)
  /\ To(w, [at |-> "written", c |-> c, body |-> <<c, w>>, revision |-> revision])
  /\ readable' = readable \cup {<<c, w>>}
  /\ UNCHANGED <<withdrawn, destination, rows, results, doomed, history, faults>>

\* discoveryCandidateIsEligible, and the key of verification and destination.
Records(w) ==
  /\ Eligible(worker[w].c, worker[w].revision)
  /\ worker[w].c \notin DOMAIN rows

\* A body without a row is purged; so is that of a row when the answer of the
\* commit is lost.
Record(w, heard) ==
  LET job == worker[w] IN
  /\ At(w, "written") /\ To(w, Idle)
  /\ IF Records(w)
     THEN /\ rows' = With(rows, job.c,
               [state |-> "queued", attempts |-> 0, revision |-> job.revision,
                body |-> job.body, claim |-> Unclaimed, live |-> FALSE,
                due |-> TRUE, late |-> FALSE])
          /\ Append1(job.c, 0, "queued")
          /\ readable' = IF heard THEN readable ELSE readable \ {job.body}
          /\ unheard' = IF heard THEN unheard ELSE unheard \cup {job.c}
     ELSE /\ readable' = readable \ {job.body}
          /\ UNCHANGED <<rows, results, unheard>>
  /\ Faulting(IF heard THEN 0 ELSE 1)
  /\ UNCHANGED <<withdrawn, destination, doomed, leaked>>

-----------------------------------------------------------------------------
(* Delivery *)

Claim(w, c) ==
  LET row == [rows[c] EXCEPT !.claim = w, !.live = TRUE] IN
  /\ At(w, "idle") /\ c \in DOMAIN rows
  /\ rows[c].state \in Open /\ rows[c].due /\ ~rows[c].live
  /\ rows' = [rows EXCEPT ![c] = row]
  /\ To(w, [at |-> "claimed", c |-> c, row |-> row])
  /\ UNCHANGED <<withdrawn, destination, results, bodies, history, faults>>

\* Mutant: the state is compared, the claim is not.
CurrentState(w) ==
  worker[w].c \in DOMAIN rows /\ rows[worker[w].c].state = worker[w].row.state

\* lockCurrentDelivery: a deletion has removed the row it withdraws.
Current(w) ==
  LET c == worker[w].c IN
  /\ c \in DOMAIN rows
  /\ rows[c].claim = w /\ rows[c].live
  /\ rows[c].state = worker[w].row.state

\* destinationBindingActive: a revision that has been replaced still serves
\* the diagnostics of what it sent.
Bound(w) ==
  enabled /\ (worker[w].row.state = "queued" => worker[w].row.revision = revision)

Go(w, place) == To(w, [worker[w] EXCEPT !.at = place])
\* What a worker concludes from its attempt; cool: the destination shall rest.
Ending(w, state, cool) ==
  To(w, [at |-> "ending", c |-> worker[w].c, row |-> worker[w].row,
         state |-> state, cool |-> cool])

Check(w) ==
  /\ At(w, "claimed")
  /\ \/ ~Current(w) /\ To(w, Idle)
     \/ Current(w) /\ Bound(w) /\ Go(w, "bound")
     \/ Current(w) /\ ~Bound(w) /\ Ending(w, "failed", FALSE)
  /\ UNCHANGED <<withdrawn, destination, rows, results, bodies, history, faults>>

\* The deadline is compared with the time before the claim.
Expired(row) == row.state \in Polling /\ row.late

\* With its body missing, a queued row is left to its claim, by a return when
\* it is no longer current and by an exception when it is.
Load(w) ==
  LET row == worker[w].row IN
  /\ At(w, "bound")
  /\ \/ Expired(row) /\ Ending(w, "expired", FALSE)
     \/ /\ ~Expired(row) /\ (row.state = "queued" => row.body \in readable)
        /\ Go(w, "ready")
     \/ row.state = "queued" /\ row.body \notin readable /\ To(w, Idle)
  /\ UNCHANGED <<withdrawn, destination, rows, results, bodies, history, faults>>

\* beginProviderRequest: the request starts before the fence is released.
Begin(w) ==
  LET c == worker[w].c IN
  /\ At(w, "ready")
  /\ \/ ~Current(w) /\ To(w, Idle) /\ UNCHANGED <<rows, resting>>
     \/ Current(w) /\ ~Bound(w) /\ Ending(w, "failed", FALSE)
        /\ UNCHANGED <<rows, resting>>
     \/ /\ Current(w) /\ Bound(w) /\ resting /\ To(w, Idle)
        /\ rows' = [rows EXCEPT ![c].claim = Unclaimed, ![c].live = FALSE]
        /\ UNCHANGED resting
     \/ /\ Current(w) /\ Bound(w) /\ ~resting /\ Go(w, "asking")
        /\ resting' = TRUE /\ UNCHANGED rows
  /\ UNCHANGED <<withdrawn, enabled, revision, results, bodies, history, faults>>

\* A partial success counts as a success.
Answer(w) ==
  LET state == worker[w].row.state IN
  /\ At(w, "asking")
  /\ \/ Ending(w, state, TRUE)     \* to be tried again
     \/ Ending(w, "failed", FALSE)
     \/ state = "queued" /\ Ending(w, "http_accepted", FALSE)
     \/ /\ state \in Polling
        /\ \E next \in {"diagnostics_processing", "succeeded"} :
             Ending(w, next, FALSE)
  /\ UNCHANGED <<withdrawn, destination, rows, results, bodies, history, faults>>

\* finalizeGoogleConversionDelivery; an acceptance sets the deadline.
Finalize(w) ==
  LET job == worker[w]
      row == [rows[job.c] EXCEPT !.state = job.state, !.attempts = @ + 1,
                !.claim = Unclaimed, !.live = FALSE, !.due = FALSE]
  IN
  /\ At(w, "ending")
  /\ IF Current(w)
     THEN /\ rows' = [rows EXCEPT ![job.c] = row]
          /\ Append1(job.c, job.row.attempts + 1, job.state)
          /\ resting' = (resting \/ job.cool)
          /\ To(w, IF job.state \in Final
                   THEN [at |-> "purging", body |-> job.row.body] ELSE Idle)
     ELSE To(w, Idle) /\ UNCHANGED <<rows, results, resting>>
  /\ UNCHANGED <<withdrawn, enabled, revision, bodies, history, faults>>

Purge(w) ==
  /\ At(w, "purging") /\ To(w, Idle)
  /\ readable' = readable \ {worker[w].body}
  /\ UNCHANGED <<withdrawn, destination, rows, results, doomed, history, faults>>

\* A crash anywhere, an exception, or the lost answer of any commit above.
Die(w) ==
  /\ ~At(w, "idle") /\ To(w, Idle) /\ Faulting(1)
  /\ leaked' = IF worker[w].at \in {"written", "purging"}
               THEN leaked \cup {worker[w].body} ELSE leaked
  /\ UNCHANGED <<withdrawn, destination, rows, results, bodies, unheard>>

-----------------------------------------------------------------------------
(* Time *)

Working(w, c) == worker[w].at \notin {"idle", "written", "purging"} /\ worker[w].c = c

\* The claim's lease runs out; under a worker that goes on it is a fault.
Lapse(c) ==
  /\ c \in DOMAIN rows /\ rows[c].live
  /\ rows' = [rows EXCEPT ![c].live = FALSE]
  /\ Faulting(IF Working(rows[c].claim, c) THEN 1 ELSE 0)
  /\ UNCHANGED <<withdrawn, destination, results, bodies, worker, history>>

\* next_attempt_at: the waits leave room for so many requests in the 24 hours.
Due(c) ==
  /\ c \in DOMAIN rows /\ rows[c].state \in Open /\ ~rows[c].due
  /\ rows[c].attempts < MaxAttempts \/ rows[c].late
  /\ rows' = [rows EXCEPT ![c].due = TRUE]
  /\ UNCHANGED <<withdrawn, destination, results, bodies, worker, history, faults>>

\* diagnostics_deadline_at
Late(c) ==
  /\ c \in DOMAIN rows /\ rows[c].state \in Polling /\ ~rows[c].late
  /\ rows' = [rows EXCEPT ![c].late = TRUE]
  /\ UNCHANGED <<withdrawn, destination, results, bodies, worker, history, faults>>

Rested ==
  /\ resting /\ resting' = FALSE
  /\ UNCHANGED <<withdrawn, enabled, revision, rows, results, bodies, worker,
                 history, faults>>

-----------------------------------------------------------------------------
(* Deletion and administration *)

\* Under the fence, exclusively: the row goes, its body is left to the job.
Recognize(c) ==
  /\ c \notin withdrawn /\ withdrawn' = withdrawn \cup {c}
  /\ rows' = [x \in DOMAIN rows \ {c} |-> rows[x]]
  /\ doomed' = IF c \in DOMAIN rows THEN doomed \cup {rows[c].body} ELSE doomed
  /\ UNCHANGED <<destination, results, readable, worker, history, faults>>

Erase(body) ==
  /\ body \in doomed /\ doomed' = doomed \ {body}
  /\ readable' = readable \ {body}
  /\ UNCHANGED <<withdrawn, destination, rows, results, worker, history, faults>>

\* configureGoogleDataManagerDestination: a revision is never changed.
Configure(on) ==
  /\ revision < MaxRevisions /\ revision' = revision + 1 /\ enabled' = on
  /\ UNCHANGED <<withdrawn, resting, rows, results, bodies, worker, history, faults>>

-----------------------------------------------------------------------------
Step(w) ==
  \/ Record(w, TRUE) \/ Check(w) \/ Load(w) \/ Begin(w) \/ Answer(w)
  \/ Finalize(w) \/ Purge(w)
  \/ \E c \in Conversions : Claim(w, c)

Time == Rested \/ \E c \in Conversions : Lapse(c) \/ Due(c) \/ Late(c)

Next ==
  \/ \E w \in Workers :
       \/ Step(w) \/ Record(w, FALSE) \/ Die(w)
       \/ \E c \in Conversions : Prepare(w, c)
  \/ Time
  \/ \E c \in Conversions : Recognize(c)
  \/ \E body \in doomed : Erase(body)
  \/ \E on \in BOOLEAN : Configure(on)

\* The cycle comes back to the job, a request is answered or times out, and
\* the clock goes on.
Fairness ==
  /\ \A w \in Workers : WF_vars(Step(w))
  /\ \A c \in Conversions : WF_vars(Lapse(c)) /\ WF_vars(Due(c)) /\ WF_vars(Late(c))

Spec == Init /\ [][Next]_vars /\ Fairness

-----------------------------------------------------------------------------
(* Properties *)

\* The results of a conversion are one history: an attempt has one result,
\* numbered without a gap, nothing follows a final one, an accepted conversion
\* is not sent again, and the row is where its last result says.
OneHistory ==
  \A c \in Conversions :
    /\ \A i \in DOMAIN results[c] : results[c][i][1] = i - 1
    /\ \A i, j \in DOMAIN results[c] : i < j =>
         /\ results[c][i][2] \notin Final
         /\ results[c][i][2] \in Polling => results[c][j][2] # "queued"
    /\ c \in DOMAIN rows =>
         results[c][Len(results[c])] = <<rows[c].attempts, rows[c].state>>

\* A row that waits to be sent has its body, unless the answer of the commit
\* that recorded it was lost; and a body that no row, worker or deletion will
\* have purged belongs to a worker that died.
Owned(body) ==
  \/ body \in doomed \cup leaked
  \/ \E c \in DOMAIN rows : rows[c].body = body /\ rows[c].state \in Open
  \/ \E w \in Workers :
       worker[w].at \in {"written", "purging"} /\ worker[w].body = body
BodiesFollowRows ==
  /\ \A c \in DOMAIN rows \ unheard :
       rows[c].state = "queued" => rows[c].body \in readable
  /\ \A body \in readable : Owned(body)

\* The rows of the outbox agree with the ledger and with the payload store.
RowsAreAccountedFor == OneHistory /\ BodiesFollowRows

\* What Google has accepted comes to an end, whatever it answers afterwards.
DiagnosticsEnd ==
  \A c \in Conversions :
    []<>(c \in DOMAIN rows => rows[c].state \notin Polling)
=============================================================================
