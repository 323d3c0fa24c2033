------------------------------- MODULE MCTurn -------------------------------
(* One pod that holds a claim and the driver that prepared it. *)
EXTENDS Turn

CONSTANTS h, d
=============================================================================
