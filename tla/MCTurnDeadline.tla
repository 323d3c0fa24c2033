--------------------------- MODULE MCTurnDeadline ---------------------------
(***************************************************************************)
(* Two turns of a machine whose Node a person cordoned.  Nothing fails and *)
(* no copy is behind; "waited" is the age of the drain of this turn.       *)
(***************************************************************************)
EXTENDS Turn

CONSTANTS h, d

VARIABLE waited

MCInit == Init /\ waited = "no"

MCNext ==
    /\ Next
    /\ troubles' # troubles => PersonTurns
    /\ waited' = IF entry = {} /\ entry' # {} THEN "no"
                 ELSE IF pass.at = "gate" /\ pass'.at = "cordon" /\ waited = "no" THEN "young"
                 ELSE IF waited = "young" /\ DeadlinePasses THEN "old"
                 ELSE waited

MCSpec == MCInit /\ [][MCNext]_<<vars, waited>>

\* A drain gives up on the pods that remain when five minutes have passed since
\* this turn's drain began: drain.go:45 "drainingSinceAnnotation records when
\* the drain's deadline started."
DeadlineIsThisTurns == pass.at = "ask" /\ PastDeadline /\ ~ended => waited = "old"
=============================================================================
