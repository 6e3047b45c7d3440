----------------------------- MODULE MCGitLabGate -----------------------------
(***************************************************************************)
(* An instance of GitLabGate for TLC.                                      *)
(***************************************************************************)
EXTENDS GitLabGate, TLC

Symmetry == Permutations(Callers)
=============================================================================
