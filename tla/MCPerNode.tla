----------------------------- MODULE MCPerNode -----------------------------
(* Two pods, or one pod that mounts the volume twice. *)
EXTENDS PerNode, TLC

CONSTANTS t1, t2, a, b

MCAssignments == {t1 :> a @@ t2 :> b, t1 :> a @@ t2 :> a}
=============================================================================
