----------------------------- MODULE MCReviewLoop -----------------------------
(***************************************************************************)
(* An instance of ReviewLoop, with Codemode, for TLC.                      *)
(***************************************************************************)
EXTENDS ReviewLoop
=============================================================================
