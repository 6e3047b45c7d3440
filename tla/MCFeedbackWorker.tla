--------------------------- MODULE MCFeedbackWorker ---------------------------
(***************************************************************************)
(* Instances of FeedbackWorker for TLC.                                    *)
(***************************************************************************)
EXTENDS FeedbackWorker

CONSTANTS p1

RebasedPatch == [i \in Identity |-> p1]
=============================================================================
