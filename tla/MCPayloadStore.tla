--------------------------- MODULE MCPayloadStore ---------------------------
(* The payload store, by a writer and the rotation of one host, which may be   *)
(* killed, and a process of another host that reads and purges; and the        *)
(* deletions that purge it, one of an installation and one of its app, with    *)
(* one batch (MCPrivacyDeletion takes two).  The first state picks the one     *)
(* that runs, the other rests.                                                 *)
EXTENDS PayloadDeletions, TLC

CONSTANTS writer, rotation, reader

MCMay == (writer :> {"write", "purge"}) @@ (rotation :> {"rewrap"})
            @@ (reader :> {"purge", "read"})
MCHost == (writer :> "h1") @@ (rotation :> "h1") @@ (reader :> "h2")
MCFrom == [b |-> "i"]
MCTarget == [d |-> "i", e |-> "app"]

ASSUME DeletionConstants == DeletionAssumption

VARIABLE part

deletionVars == <<clock, append, receivedAt, stored, row, projection, worker,
  held, work, blocked, decoded, request, requestedAt, job, purge, purging, left,
  gone>>

MCInit == part \in {"store", "deletions"} /\ Init /\ Deletions!Init

MCNext ==
  /\ part' = part
  /\ \/ part = "store" /\ Next /\ UNCHANGED deletionVars
     \/ part = "deletions" /\ Deletions!Next /\ UNCHANGED vars

\* Each is at rest in its first state, where its fairness asks nothing.
MCSpec ==
  /\ MCInit /\ [][MCNext]_<<part, vars, deletionVars>>
  /\ Fairness /\ Deletions!Fairness
=============================================================================
