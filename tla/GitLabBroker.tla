----------------------------- MODULE GitLabBroker -----------------------------
(***************************************************************************)
(* GitLab as the service sees it through internal/gitlab.Client.  The      *)
(* merge requests and their notes change on their own (external); each     *)
(* operation of the client is given by the outcomes it can have in the     *)
(* present state of GitLab.  Every request may also fail: retryably        *)
(* (network, 408, 429, 5xx, unreadable answer) or for good (3xx, 401, 403, *)
(* 404, a malformed or too large answer), see requestPath and statusError. *)
(***************************************************************************)
EXTENDS Integers, Sequences, Identities

CONSTANTS
  PatchOf,        \* the patch ID of each identity's diff
  DelayedPosts,   \* may GitLab create a note after the client gave up on it?
  MaxNotes,       \* bound: notes GitLab holds
  MaxMoves        \* bound: pushes, closes and reopens

ASSUME BrokerAssumption ==
  /\ PatchOf \in [Identity -> PatchIDs]
  /\ DelayedPosts \in BOOLEAN
  /\ MaxNotes \in Nat
  /\ MaxMoves \in Nat

VARIABLES
  mrs,       \* merge request -> open?, current head
  notes,     \* the service's marked notes, oldest first; the note id is the index
  inflight,  \* notes sent whose request the client gave up on, not yet created
  seen,      \* identities that are or were current: webhooks may report them
  moves      \* how often merge requests changed

gitlabVars == <<mrs, notes, inflight, seen, moves>>

MergeRequest == [open : BOOLEAN, head : Heads]

InitGitLab ==
  /\ mrs \in [MergeRequests -> {[open |-> TRUE, head |-> h] : h \in Heads}]
  /\ notes = << >>
  /\ inflight = {}
  /\ seen = {i \in Identity : mrs[MergeRequestOf(i)].head = HeadOf(i)}
  /\ moves = 0

-----------------------------------------------------------------------------
(* External: what happens to a merge request. *)

Move(m, mr) ==
  /\ moves < MaxMoves
  /\ moves' = moves + 1
  /\ mrs' = [mrs EXCEPT ![m] = mr]
  /\ seen' = seen \cup {<<m, mr.head>>}
  /\ UNCHANGED <<notes, inflight>>

\* A push, a rebase or a force push back to an earlier head.
Push(m, h) == mrs[m].open /\ h # mrs[m].head /\ Move(m, [mrs[m] EXCEPT !.head = h])
Close(m) == mrs[m].open /\ Move(m, [mrs[m] EXCEPT !.open = FALSE])
Reopen(m) == ~mrs[m].open /\ Move(m, [mrs[m] EXCEPT !.open = TRUE])

AddNote(note) ==
  /\ Len(notes) < MaxNotes
  /\ notes' = Append(notes, note)

\* A request the client gave up on reaches the database after all.
Land(note) ==
  /\ note \in inflight
  /\ AddNote([note EXCEPT !.late = TRUE])
  /\ inflight' = inflight \ {note}
  /\ UNCHANGED <<mrs, seen, moves>>

NextGitLab ==
  \/ \E m \in MergeRequests :
       Close(m) \/ Reopen(m) \/ \E h \in Heads : Push(m, h)
  \/ \E note \in inflight : Land(note)

-----------------------------------------------------------------------------
(* Operations of the client: the set of their possible outcomes. *)

\* How a request can fail, as the failure classes of internal/failure.
RequestFaults == {"retry", "failed"}

\* validateMergeRequest accepts the identity: open, and at its exact head.
Current(i) ==
  LET mr == mrs[MergeRequestOf(i)] IN mr.open /\ mr.head = HeadOf(i)

CheckCurrent(i) ==
  {IF Current(i) THEN "ok" ELSE "obsolete"} \cup RequestFaults

\* CheckCI: validates the identity first, then reads the pipeline selected
\* for its head (external, so any): green is "success" or no pipeline.
CheckCI(i) ==
  (IF Current(i) THEN {"green", "not_green"} ELSE {"obsolete"}) \cup RequestFaults

\* FindNote, when it succeeds: the newest note with the identity's marker.
\* When it cannot establish absence it fails.  The pages are read newest first,
\* so a note that comes while they are read only shifts older ones to a page
\* yet to come: the search is that of the notes when its first page was read.
MarkedNotes(i) == {n \in DOMAIN notes : notes[n].identity = i}

FindNote(i) ==
  IF MarkedNotes(i) = {} THEN NULL
  ELSE CHOOSE n \in MarkedNotes(i) : \A k \in MarkedNotes(i) : k <= n

\* getPatchID as LoadReview returns it: the patch ID, not yet computed, or
\* a terminal diff version without one.
PatchIDOutcomes(i) ==
  {<<"available", PatchOf[i]>>, <<"pending", NULL>>, <<"unavailable", NULL>>}

\* LoadFeedback: the merge request must be closed or merged at the fixed head.
LoadFeedback(i) ==
  {IF mrs[MergeRequestOf(i)].head # HeadOf(i) THEN "failed"
   ELSE IF mrs[MergeRequestOf(i)].open THEN "retry" ELSE "ok"} \cup RequestFaults
=============================================================================
