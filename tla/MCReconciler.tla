----------------------------- MODULE MCReconciler -----------------------------
(***************************************************************************)
(* Instances of Reconciler for TLC.                                        *)
(***************************************************************************)
EXTENDS Reconciler

CONSTANTS a, b

\* Project b has no merge requests: what its scan does to that of a remains.
BothProjects == <<b, a>>
AllInOne == [m \in MergeRequests |-> a]
=============================================================================
