------------------------------- MODULE MCStore -------------------------------
(***************************************************************************)
(* The whole database under an arbitrary caller, on a small instance: the  *)
(* review tables, their refinement of ReviewLifecycle, and the feedback    *)
(* tables over them.                                                       *)
(***************************************************************************)
EXTENDS FeedbackJobs, TLC

\* Heads and deliveries are interchangeable: no definition names one.
HeadSymmetry == Permutations(Heads)
DeliverySymmetry == Permutations(Deliveries)
Symmetry == HeadSymmetry \cup DeliverySymmetry
=============================================================================
