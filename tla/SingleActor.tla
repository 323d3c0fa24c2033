----------------------------- MODULE SingleActor -----------------------------
(***************************************************************************)
(* What an election promises: the processes take turns to act, and between *)
(* two of them there is a time when nobody acts.                           *)
(***************************************************************************)
CONSTANT Procs

VARIABLE actors    \* the processes that may act

TypeOK == actors \in SUBSET Procs

Init == actors = {}

Take(p) ==
    /\ actors = {}
    /\ actors' = {p}

Leave ==
    /\ actors # {}
    /\ actors' = {}

Next == Leave \/ \E p \in Procs : Take(p)

Spec == Init /\ [][Next]_actors
=============================================================================
