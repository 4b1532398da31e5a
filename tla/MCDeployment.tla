---------------------------- MODULE MCDeployment ----------------------------
(* Deployment on small instances. *)
EXTENDS Deployment, TLC

CONSTANTS v1, v2, v3, p1, p2

Symmetry == Permutations(Versions) \cup Permutations(Sessions)
=============================================================================
