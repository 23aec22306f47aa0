----------------------------- MODULE MCDeployment -----------------------------
(***************************************************************************)
(* Deployment with a start and two reloads.                                *)
(***************************************************************************)
EXTENDS Deployment, TLC

Symmetry == Permutations(Op) \cup Permutations(Socket)
=============================================================================
