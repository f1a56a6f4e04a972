----------------------------- MODULE FencedLog -----------------------------
(***************************************************************************)
(* What a tenant cycle promises to the rest of the worker: one epoch at a  *)
(* time may publish, epochs only move forward, and an epoch whose outcome  *)
(* has been recorded publishes nothing more.  TenantCycle implements this. *)
(***************************************************************************)
EXTENDS Naturals, Sequences

VARIABLES epoch,     \* the newest epoch, 0 before the first
          open,      \* the newest epoch has no recorded outcome yet
          log        \* the epochs of the publications, in commit order

logVars == <<epoch, open, log>>

Init == epoch = 0 /\ open = FALSE /\ log = << >>

\* A new owner takes over, whatever became of the previous epoch.
Advance == epoch' = epoch + 1 /\ open' = TRUE /\ UNCHANGED log

\* The owner records how its epoch ended.
Seal == open /\ open' = FALSE /\ UNCHANGED <<epoch, log>>

\* A transaction of the newest, still open epoch becomes durable.
Publish == open /\ log' = Append(log, epoch) /\ UNCHANGED <<epoch, open>>

Next == Advance \/ Seal \/ Publish

Spec == Init /\ [][Next]_logVars
=============================================================================
