----------------------------- MODULE MCElection -----------------------------
(***************************************************************************)
(* Two processes of three: p1 and q1 in two pods, where p1 may be paused,  *)
(* or p1 and after it p2 in one pod.                                       *)
(***************************************************************************)
EXTENDS Election, TLC

CONSTANTS
    p1, p2, q1, podA, podB,
    Scenarios   \* which processes take part, and which of them may pause

VARIABLE scenario

taking == scenario.taking

MCPod == [p \in Procs |-> IF p = q1 THEN podB ELSE podA]

\* What a step or a property can still tell.  A late write that lost its version
\* cannot be stored; nothing reads the fields of a process that ended; a time is
\* read in some phases only, and then as an age up to the duration that it is
\* compared with; only a pod with two processes reads the time of a renewal.
Age(t, most) == IF now - t < most THEN now - t ELSE most
Left(t) == IF t > now THEN t - now ELSE 0
RenewAge(t) == IF p2 \in taking THEN Age(t, Duration) ELSE Age(t, RenewDeadline)

SeenBy(p) ==
    CASE phase[p] = "waiting" -> <<seen[p].rv, Age(seen[p].at, Duration)>>
      [] phase[p] = "leading" /\ seen[p].holder = p -> <<seen[p].rv, p>>
      [] phase[p] = "leading" /\ seen[p].holder # p ->
            <<seen[p].rv, seen[p].holder, Age(seen[p].at, Duration)>>
      [] phase[p] = "releasing" -> <<seen[p].holder = p>>
      [] OTHER -> <<>>
SentBy(p) ==
    IF Idle(p) THEN <<>>
    ELSE <<sent[p].rv, sent[p].holder, RenewAge(sent[p].at), sent[p].answer>>

MCView ==
    <<scenario, now, lease.rv, lease.holder, lease.seconds,
      IF p2 \in taking THEN Age(lease.renew, Duration) ELSE 0,
      {<<w.holder, RenewAge(w.at)>> : w \in {w \in late : w.rv = lease.rv}},
      phase, started, stops, paused, freed,
      [p \in Procs |->
        IF Alive(p)
          THEN <<SeenBy(p), Age(renewed[p], RenewDeadline), SentBy(p),
                 IF deadline[p] = 0 THEN 0 ELSE 1 + Left(deadline[p]), Left(next[p]),
                 tries[p],
                 IF write[p] = 0 THEN 0 ELSE 1 + Age(write[p], RequestTimeout)>>
          ELSE <<>>]>>

TwoPods == [taking |-> {p1, q1}, pausing |-> {}]
OneIsPaused == [taking |-> {p1, q1}, pausing |-> {p1}]
OnePodRestarts == [taking |-> {p1, p2}, pausing |-> {}]

MCScenarios == {OneIsPaused, OnePodRestarts}
MCTwoPods == {TwoPods}

\* Only the processes that take part start.  The second process of a pod needs a
\* longer clock, and a pause needs fewer writes.
TakePart ==
    /\ \A p \in Procs \ taking : phase'[p] = "absent"
    /\ paused' \subseteq scenario.pausing
    /\ p2 \notin taking => now' < MaxTime
    /\ scenario.pausing # {} => lease.rv' < MaxRv

MCInit == Init /\ scenario \in Scenarios
MCNext == Next /\ TakePart /\ UNCHANGED scenario
MCSpec == MCInit /\ [][MCNext]_<<vars, scenario>>
=============================================================================
