--------------------------- MODULE MCRolloutQueue ---------------------------
(***************************************************************************)
(* Three machines that queue for the turns of two budgets, one over the    *)
(* fleet and one over a rack.                                              *)
(***************************************************************************)
EXTENDS RolloutInv, RolloutWalk, TLC

CONSTANTS m1, m2, m3, r1, r2, r3, default, rack, Limit, V1, V3

MCFor == r1 :> m1 @@ r2 :> m2 @@ r3 :> m3
MCRank == m1 :> 1 @@ m2 :> 2 @@ m3 :> 3
MCSelects == default :> Machines @@ rack :> {m2, m3}
MCMaxVersion == m1 :> V1 @@ m2 :> 1 @@ m3 :> V3
MCMaxUnavailable == default :> Limit @@ rack :> 1

-----------------------------------------------------------------------------
\* A conductor starts in the last second of the run and finds a request from the
\* second before it, so that the queue has two ages.
MCInit ==
    /\ tick = MaxTick /\ asked = [NoRequests EXCEPT ![r2] = MaxTick - 1]
    /\ cluster = [rv |-> 1, turns |-> NoTurns] /\ doc = cluster
    /\ mach = [m \in Machines |-> [rv |-> 1, grant |-> m \in Legacy, phase |-> "Ready"]]
    /\ seen = mach /\ up = Machines /\ reqs = NoRequests /\ listening = TRUE /\ sweeping = FALSE
    /\ late = {} /\ lateCluster = {} /\ fresh = {} /\ todo = {}
    /\ silent = {} /\ dead = {} /\ overdue = {}

MCSpec == MCInit /\ [][Next]_vars
=============================================================================
