---------------------------- MODULE MCReviewWorker ----------------------------
(***************************************************************************)
(* Instances of ReviewWorker for TLC.                                      *)
(***************************************************************************)
EXTENDS ReviewWorker, TLC

CONSTANTS p1

\* Every head carries the same change, as after a rebase.
RebasedPatch == [i \in Identity |-> p1]

\* Heads are interchangeable: all carry the same change.
HeadSymmetry == Permutations(Heads)

NoteIDRange == 1 .. MaxNotes
=============================================================================
