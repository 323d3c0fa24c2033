------------------------------ MODULE MCRollout ------------------------------
(***************************************************************************)
(* Two machines with one request each, and the default budget, which       *)
(* selects every machine.                                                  *)
(***************************************************************************)
EXTENDS RolloutInv, TLC

CONSTANTS m1, m2, r1, r2, default, Limit, V1, V2

MCFor == r1 :> m1 @@ r2 :> m2
MCRank == m1 :> 1 @@ m2 :> 2
MCSelects == default :> Machines
MCMaxVersion == m1 :> V1 @@ m2 :> V2
MCMaxUnavailable == default :> Limit
=============================================================================
