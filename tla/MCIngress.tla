------------------------------ MODULE MCIngress ------------------------------
(***************************************************************************)
(* An instance of Ingress for TLC.                                         *)
(***************************************************************************)
EXTENDS Ingress, TLC

Symmetry == Permutations(Requests) \cup Permutations(Deliveries)
=============================================================================
