------------------------------ MODULE Identities ------------------------------
(***************************************************************************)
(* The review identity every component shares: GitLab instance, project,   *)
(* merge request IID (one member of MergeRequests) and head SHA.           *)
(***************************************************************************)
CONSTANTS
  MergeRequests,   \* (instance, project, merge request IID) triples
  Heads,           \* head commit SHAs
  PatchIDs,        \* GitLab patch-ID SHAs
  NULL             \* no value: SQL's NULL, a Go zero value

Identity == MergeRequests \X Heads
MergeRequestOf(i) == i[1]
HeadOf(i) == i[2]

ASSUME NullAssumption == NULL \notin PatchIDs /\ NULL \notin Identity
=============================================================================
