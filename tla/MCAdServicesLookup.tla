-------------------------- MODULE MCAdServicesLookup --------------------------
(* One lookup in two settings, of which the first state picks one: workers     *)
(* that crash and take each other's cycle over, and a worker that is never     *)
(* replaced, whose lookup must come to an end.                                 *)
EXTENDS AdServicesLookup

VARIABLE steady

SettingInit == Init /\ steady \in BOOLEAN

SettingNext ==
    /\ Next /\ steady' = steady
    /\ steady => owner' = owner /\ ~\E w \in Worker : Crash(w)

SettingSpec ==
    /\ SettingInit /\ [][SettingNext]_<<vars, steady>>
    /\ steady => Fairness

\* The lookup comes to its end, and so does the deletion of what it stored.
SteadyLookupEnds == steady => LookupEnds /\ DeletedResponsesGo
=============================================================================
