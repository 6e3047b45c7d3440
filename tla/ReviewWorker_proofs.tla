------------------------- MODULE ReviewWorker_proofs -------------------------
(***************************************************************************)
(* Machine-checked proofs about the review worker, for every set of merge  *)
(* requests, heads, patch IDs and notes, any number of stops, retries and  *)
(* moves, and every bound on the attempts.  What holds of the tables alone *)
(* is in Store_proofs; here the worker's memory, the tables and the notes  *)
(* at GitLab are related.                                                  *)
(***************************************************************************)
EXTENDS ReviewWorker, Store_proofs, WellFoundedInduction

\* What execute has in memory when it makes a call.
Memory ==
  /\ pc \in Preflight \cup Claimed => job.id \in Identity
  /\ pc \in {"findCanonical", "checkAlias", "completeAlias"} => job.patch_sha \in PatchIDs
  /\ pc \in {"checkAlias", "completeAlias"} => job.canonical \in Identity
  /\ pc \in {"save", "checkCurrent", "searchNote", "recheckCurrent", "postNote"} =>
       job.result # NULL
  /\ pc \in {"recoverNote", "complete"} => job.note # NULL
  /\ pc = "deferPatch" => MayAwaitPatch

\* The claimed row is the worker's until a call that may have committed failed.
Ownership ==
  /\ RunningIsOwned
  /\ pc \in Claimed \ {"handleFailure"} => HasState(job.id, "running")

\* What the worker remembers of the stored review is still so.
Unreviewed == {"load", "deferPatch", "findCanonical", "checkAlias", "completeAlias",
               "generate", "save"}
Publishing == {"checkCurrent", "searchNote", "recheckCurrent", "postNote"}
ResultKnown ==
  /\ pc \in Unreviewed => results[job.id] = NULL
  /\ pc \in Publishing => job.result = results[job.id]

\* What the worker knows of the notes: the one it remembers exists and carries
\* its marker, and after an unsuccessful search only a late one can have come.
NotesKnown ==
  /\ job.note # NULL => /\ job.note \in DOMAIN notes
                        /\ notes[job.note].identity = job.id
  /\ pc \in {"recheckCurrent", "postNote"} =>
       \A n \in DOMAIN notes : notes[n].identity = job.id => notes[n].late

\* A recorded publication is a note of exactly that revision.
PublicationsKnown ==
  \A i \in Identity :
    publications[i] # NULL => /\ publications[i] \in DOMAIN notes
                              /\ notes[publications[i]].identity = i

\* While the database is kept, every note shows the stored review.
NotesShowReview ==
  \A note \in {notes[n] : n \in DOMAIN notes} \cup inflight :
    /\ note.result # NULL
    /\ note.result = results[note.identity]

\* While no POST is late, the search of the preflight holds until the review is
\* stored: nobody else posts.
Searched ==
  \/ pc \in {"checkCI", "deferCI"} \cup Unreviewed
  \/ pc = "claim" /\ job.err = "none" /\ job.note = NULL /\ results[job.id] = NULL
SearchHolds == inflight = {} /\ (Searched => MarkedNotes(job.id) = {})

\* The inductive invariant.
WInv ==
  /\ TypeOK /\ IInv /\ Memory /\ Ownership /\ SelectionStaysValid
  /\ ResultKnown /\ NotesKnown /\ AtMostOneNote /\ PublicationsKnown
  /\ ~DatabaseLoss => NotesShowReview
  /\ ~DelayedPosts => SearchHolds

-----------------------------------------------------------------------------
\* A bounded set of positive numbers has a greatest member: the newest note of
\* FindNote exists.
LEMMA Smallest ==
  ASSUME NEW T \in SUBSET Nat, T # {} PROVE \E x \in T : \A y \in T : x <= y
<1>1. PICK x \in T : \A y \in T : ~ (<<y, x>> \in OpToRel(<, Nat))
  BY NatLessThanWellFounded, WFMin, Zenon
<1>2. \A y \in T : ~(y < x)
  BY <1>1 DEF OpToRel
<1> QED
  BY <1>2

LEMMA Greatest ==
  ASSUME NEW n \in Nat, NEW T \in SUBSET (1 .. n), T # {}
  PROVE  \E x \in T : \A y \in T : y <= x
<1> DEFINE D == {n - x : x \in T}
<1>1. D \in SUBSET Nat
  OBVIOUS
<1>2. D # {}
  <2>1. PICK x : x \in T
    OBVIOUS
  <2>2. n - x \in D
    BY <2>1
  <2> QED
    BY <2>2
<1>3. PICK d \in D : \A e \in D : d <= e
  BY <1>1, <1>2, Smallest
<1>4. PICK x \in T : d = n - x
  OBVIOUS
<1>5. \A y \in T : n - x <= n - y
  BY <1>3, <1>4
<1> QED
  BY <1>5

\* What FindNote returns: a note with the marker, or that there is none.
LEMMA FindNoteFinds ==
  ASSUME notes \in Seq(Note), NEW i
  PROVE  /\ FindNote(i) = NULL => MarkedNotes(i) = {}
         /\ FindNote(i) # NULL => /\ FindNote(i) \in DOMAIN notes
                                  /\ notes[FindNote(i)].identity = i
<1>1. CASE MarkedNotes(i) = {}
  BY <1>1 DEF FindNote
<1>2. CASE MarkedNotes(i) # {}
  <2>1. MarkedNotes(i) \in SUBSET (1 .. Len(notes))
    BY DEF MarkedNotes
  <2>5. Len(notes) \in Nat
    OBVIOUS
  <2>2. \E n \in MarkedNotes(i) : \A k \in MarkedNotes(i) : k <= n
    BY <1>2, <2>1, <2>5, Greatest, Zenon
  <2>3. FindNote(i) \in MarkedNotes(i)
    BY <1>2, <2>2 DEF FindNote
  <2>4. FindNote(i) # NULL
    BY <2>1, <2>3, ReviewJobsAssumption
  <2> QED
    BY <2>3, <2>4 DEF MarkedNotes
<1> QED
  BY <1>1, <1>2

-----------------------------------------------------------------------------
(* The tables.  Every step of the worker, of GitLab, of operators and of the *)
(* process does to them what NextStore allows, or loses them.                *)

\* The calls of execute that write, with what Memory says of their arguments.
LEMMA WorkerUsesStore ==
  ASSUME TypeOK, Memory, WorkerStep
  PROVE  [NextStore]_storeVars
<1> USE DEF KeepRun, Goto, Fail, Return, Abort, Uncertain, Checkpoint, StillCurrent, PC, Preflight,
            Claimed
<1>1. CASE PreflightFindNote \/ PreflightCheckCI \/ ClaimNotAdmitted \/ ClaimMisses
  BY <1>1 DEF PreflightFindNote, PreflightCheckCI, ClaimNotAdmitted, ClaimMisses
<1>2. CASE PreflightDeferCI
  <2>1. job.id \in Identity
    BY <1>2 DEF PreflightDeferCI, Memory
  <2>2. DeferCI(job.id) \/ UNCHANGED storeVars
    BY <1>2 DEF PreflightDeferCI
  <2> QED
    BY <2>1, <2>2 DEF NextStore
<1>3. CASE Claim \/ ClaimFails
  <2>1. job.id \in Identity
    BY <1>3 DEF Claim, ClaimFails, Memory
  <2>2. ClaimSelectedJob(job.id) \/ UNCHANGED storeVars
    BY <1>3 DEF Claim, ClaimFails
  <2> QED
    BY <2>1, <2>2 DEF NextStore
<1>4. CASE \/ RecoverNote \/ LoadReview \/ LookUpCanonical \/ CheckAlias \/ Generate
           \/ CheckBeforeSearch \/ SearchNote \/ CheckBeforePost \/ PostNote
  BY <1>4 DEF RecoverNote, LoadReview, LookUpCanonical, CheckAlias, Generate, CheckBeforeSearch,
              SearchNote, CheckBeforePost, PostNote
<1>5. CASE AwaitPatch
  <2>1. job.id \in Identity
    BY <1>5 DEF AwaitPatch, Memory
  <2>2. DeferPendingPatchID(job.id) \/ UNCHANGED storeVars
    BY <1>5 DEF AwaitPatch
  <2> QED
    BY <2>1, <2>2 DEF NextStore
<1>6. CASE CompleteAlias
  <2>1. job.id \in Identity /\ job.canonical \in Identity /\ job.patch_sha \in PatchIDs
    BY <1>6 DEF CompleteAlias, Memory
  <2>2. CompleteEquivalentReview(job.id, job.canonical, job.patch_sha) \/ UNCHANGED storeVars
    BY <1>6 DEF CompleteAlias
  <2> QED
    BY <2>1, <2>2 DEF NextStore
<1>7. CASE SaveResult
  <2> DEFINE status == IF job.patch_sha = NULL THEN "unavailable" ELSE "available"
  <2>1. job.id \in Identity /\ job.result \in 0 .. MaxFindings
    BY <1>7 DEF SaveResult, Memory, TypeOK, WorkerJob
  <2>2. status \in PatchIDStatus /\ job.patch_sha \in PatchIDs \cup {NULL}
    BY <1>7 DEF TypeOK, WorkerJob, PatchIDStatus
  <2>3. SaveReviewResult(job.id, job.result, status, job.patch_sha) \/ UNCHANGED storeVars
    BY <1>7 DEF SaveResult
  <2> HIDE DEF status
  <2> QED
    BY <2>1, <2>2, <2>3 DEF NextStore
<1>8. CASE Complete
  <2>1. job.id \in Identity /\ job.note \in NoteIDs
    BY <1>8 DEF Complete, Memory, TypeOK, WorkerJob
  <2>2. CompletePublication(job.id, job.note) \/ UNCHANGED storeVars
    BY <1>8 DEF Complete
  <2> QED
    BY <2>1, <2>2 DEF NextStore
<1>9. CASE HandleFailure \/ HandleFailureFails
  <2>1. job.id \in Identity
    BY <1>9 DEF HandleFailure, HandleFailureFails, Memory
  <2>2. Settle(job.id, job.err) \/ UNCHANGED storeVars
    BY <1>9 DEF HandleFailure, HandleFailureFails
  <2>3. CASE Settle(job.id, job.err)
    <3>1. FinishJob(job.id, "obsolete") \/ FinishJob(job.id, "failed") \/ RetryJob(job.id)
      BY <2>3 DEF Settle
    <3> QED
      BY <2>1, <3>1 DEF NextStore
  <2> QED
    BY <2>2, <2>3
<1> QED
  BY <1>1, <1>2, <1>3, <1>4, <1>5, <1>6, <1>7, <1>8, <1>9 DEF WorkerStep, Execute

LEMMA StoreStep ==
  ASSUME TypeOK, Memory, [Next]_vars
  PROVE  [NextStore]_storeVars \/ LoseDatabase
<1>1. CASE WorkerStep
  BY <1>1, WorkerUsesStore
<1>2. ASSUME NEW i \in Identity, Select(i) \/ Discover(i) \/ Tick(i) \/ OperatorRetry(i)
      PROVE  [NextStore]_storeVars
  BY <1>2 DEF Select, Discover, Tick, OperatorRetry, NextStore
<1>3. CASE Shutdown \/ Abandon \/ Crash \/ GitLabMoves
  BY <1>3 DEF Shutdown, Abandon, Crash, GitLabMoves, KeepRun
<1>4. CASE Restart
  BY <1>4 DEF Restart, NextStore
<1>5. CASE UNCHANGED vars
  BY <1>5 DEF vars
<1> QED
  BY <1>1, <1>2, <1>3, <1>4, <1>5 DEF Next

LEMMA TablesStayRight ==
  ASSUME TypeOK, IInv, Memory, [Next]_vars
  PROVE  IInv'
<1>1. CASE [NextStore]_storeVars
  BY <1>1, InvPreserved
<1>2. CASE LoseDatabase
  BY <1>2, ReviewJobsAssumption
     DEF LoseDatabase, IInv, TypeOKStore, RowInv, HasState, NoJob, Job, JobState, PatchIDStatus
<1> QED
  BY <1>1, <1>2, StoreStep

-----------------------------------------------------------------------------
(* Types of GitLab and of the worker's memory. *)

\* GitLab changes by its own moves and by the POST of a note.
LEMMA GitLabStep ==
  ASSUME [Next]_vars
  PROVE  \/ UNCHANGED gitlabVars
         \/ GitLabMoves
         \/ PostNote
<1>1. CASE WorkerStep
  BY <1>1 DEF WorkerStep, Execute, PreflightFindNote, PreflightCheckCI, PreflightDeferCI, Claim,
              ClaimNotAdmitted, ClaimMisses, ClaimFails, RecoverNote, LoadReview, AwaitPatch,
              LookUpCanonical, CheckAlias, CompleteAlias, Generate, SaveResult, CheckBeforeSearch,
              SearchNote, CheckBeforePost, Complete, HandleFailure, HandleFailureFails, StillCurrent
<1>2. ASSUME NEW i \in Identity, Select(i) \/ Discover(i) \/ Tick(i) \/ OperatorRetry(i)
      PROVE  UNCHANGED gitlabVars
  BY <1>2 DEF Select, Discover, Tick, OperatorRetry
<1>3. CASE Shutdown \/ Abandon \/ Crash \/ Restart \/ LoseDatabase
  BY <1>3 DEF Shutdown, Abandon, Crash, Restart, LoseDatabase
<1>4. CASE UNCHANGED vars
  BY <1>4 DEF vars
<1> QED
  BY <1>1, <1>2, <1>3, <1>4 DEF Next

LEMMA MergeRequestsTyped ==
  ASSUME TypeOK, [Next]_vars
  PROVE  mrs' \in [MergeRequests -> MergeRequest] /\ seen' \subseteq Identity
<1>1. CASE UNCHANGED gitlabVars
  BY <1>1 DEF gitlabVars, TypeOK
<1>2. CASE PostNote
  BY <1>2 DEF PostNote, TypeOK
<1>3. CASE GitLabMoves
  <2>1. ASSUME NEW m \in MergeRequests, NEW mr \in MergeRequest, Move(m, mr)
        PROVE  mrs' \in [MergeRequests -> MergeRequest] /\ seen' \subseteq Identity
    BY <2>1 DEF Move, TypeOK, MergeRequest, Identity
  <2>2. ASSUME NEW m \in MergeRequests, Close(m) \/ Reopen(m)
        PROVE  \E mr \in MergeRequest : Move(m, mr)
    BY <2>2 DEF Close, Reopen, TypeOK, MergeRequest
  <2>3. ASSUME NEW m \in MergeRequests, NEW h \in Heads, Push(m, h)
        PROVE  \E mr \in MergeRequest : Move(m, mr)
    BY <2>3 DEF Push, TypeOK, MergeRequest
  <2>4. ASSUME NEW note \in inflight, Land(note)
        PROVE  mrs' \in [MergeRequests -> MergeRequest] /\ seen' \subseteq Identity
    BY <2>4 DEF Land, TypeOK
  <2> QED
    BY <1>3, <2>1, <2>2, <2>3, <2>4 DEF GitLabMoves, NextGitLab
<1> QED
  BY <1>1, <1>2, <1>3, GitLabStep

\* Notes are only ever appended: one that the worker posts now, or a late one.
LEMMA NotesGrow ==
  ASSUME TypeOK, Memory, [Next]_vars
  PROVE  \/ UNCHANGED <<notes, inflight>>
         \/ /\ pc = "postNote" /\ PostNote /\ Len(notes) < MaxNotes
            /\ notes' = Append(notes, [identity |-> job.id, result |-> job.result, late |-> FALSE])
            /\ UNCHANGED inflight
         \/ /\ pc = "postNote" /\ PostNote /\ DelayedPosts
            /\ inflight' = inflight \cup {[identity |-> job.id, result |-> job.result, late |-> FALSE]}
            /\ UNCHANGED notes
         \/ \E note \in inflight : /\ GitLabMoves /\ Len(notes) < MaxNotes
                                   /\ notes' = Append(notes, [note EXCEPT !.late = TRUE])
                                   /\ inflight' = inflight \ {note}
<1>1. CASE UNCHANGED gitlabVars
  BY <1>1 DEF gitlabVars
<1>2. CASE PostNote
  BY <1>2 DEF PostNote, AddNote
<1>3. CASE GitLabMoves
  BY <1>3 DEF GitLabMoves, NextGitLab, Close, Reopen, Push, Move, Land, AddNote
<1> QED
  BY <1>1, <1>2, <1>3, GitLabStep

LEMMA NotesTyped ==
  ASSUME TypeOK, Memory, [Next]_vars
  PROVE  notes' \in Seq(Note) /\ Len(notes') <= MaxNotes /\ inflight' \subseteq Note
<1> USE BrokerAssumption DEF TypeOK
<1>1. pc = "postNote" => [identity |-> job.id, result |-> job.result, late |-> FALSE] \in Note
  BY DEF Memory, Note, WorkerJob, PC, Claimed, Preflight
<1>2. \A note \in inflight : [note EXCEPT !.late = TRUE] \in Note
  BY DEF Note
<1>3. ASSUME NEW note \in Note, Len(notes) < MaxNotes, notes' = Append(notes, note)
      PROVE  notes' \in Seq(Note) /\ Len(notes') <= MaxNotes
  BY <1>3
<1>4. CASE UNCHANGED <<notes, inflight>>
  BY <1>4
<1>5. ASSUME NEW note \in inflight, Len(notes) < MaxNotes,
             notes' = Append(notes, [note EXCEPT !.late = TRUE]), inflight' = inflight \ {note}
      PROVE  notes' \in Seq(Note) /\ Len(notes') <= MaxNotes /\ inflight' \subseteq Note
  BY <1>2, <1>3, <1>5
<1> QED
  BY <1>1, <1>3, <1>4, <1>5, NotesGrow

LEMMA NoSelectionTyped == NoSelection \in WorkerJob
BY ReviewJobsAssumption DEF NoSelection, WorkerJob, PatchIDStatus

\* The worker's own variables.
LEMMA WorkerTyped ==
  ASSUME TypeOK, TypeOKStore', Memory, [Next]_vars
  PROVE  pc' \in PC /\ job' \in WorkerJob /\ draining' \in BOOLEAN
<1> USE NoSelectionTyped DEF TypeOK, KeepRun, Goto, Fail, Return, Abort, Checkpoint,
        StillCurrent, PC, Preflight, Claimed, RequestFaults
<1>1. ASSUME NEW i \in Identity, Select(i) \/ Discover(i) \/ Tick(i) \/ OperatorRetry(i)
      PROVE  pc' \in PC /\ job' \in WorkerJob /\ draining' \in BOOLEAN
  BY <1>1 DEF Select, Discover, Tick, OperatorRetry, workerVars, WorkerJob
<1>2. CASE PreflightFindNote
  <2>1. FindNote(job.id) \in NoteIDs \cup {NULL}
    BY FindNoteFinds, WorkerAssumption, BrokerAssumption
  <2> QED
    BY <1>2, <2>1 DEF PreflightFindNote, WorkerJob
<1>3. CASE PreflightCheckCI
  BY <1>3 DEF PreflightCheckCI, CheckCI, WorkerJob
<1>4. CASE PreflightDeferCI
  BY <1>4 DEF PreflightDeferCI, WorkerJob
<1>5. CASE Claim
  <2>1. job.id \in Identity
    BY <1>5 DEF Claim, Memory
  <2>2. /\ jobs'[job.id].attempts \in 0 .. MaxJobAttempts
        /\ jobs[job.id].patch_status \in PatchIDStatus
        /\ results[job.id] \in (0 .. MaxFindings) \cup {NULL}
    BY <2>1 DEF TypeOKStore, Job
  <2> QED
    BY <1>5, <2>2 DEF Claim, FirstCall, WorkerJob
<1>6. CASE ClaimNotAdmitted \/ ClaimMisses \/ ClaimFails
  BY <1>6 DEF ClaimNotAdmitted, ClaimMisses, ClaimFails
<1>7. CASE RecoverNote \/ CheckAlias \/ CheckBeforeSearch \/ CheckBeforePost
  BY <1>7 DEF RecoverNote, CheckAlias, CheckBeforeSearch, CheckBeforePost, CheckCurrent, WorkerJob
<1>8. CASE LoadReview
  <2>1. \A patch \in PatchIDOutcomes(job.id) : patch[1] = "available" => patch[2] = PatchOf[job.id]
    BY DEF PatchIDOutcomes
  <2>2. PatchOf[job.id] \in PatchIDs
    BY <1>8, BrokerAssumption DEF LoadReview, Memory
  <2> QED
    BY <1>8, <2>1, <2>2 DEF LoadReview, WorkerJob
<1>9. CASE AwaitPatch \/ CompleteAlias \/ Complete
  BY <1>9 DEF AwaitPatch, CompleteAlias, Complete, WorkerJob
<1>10. CASE LookUpCanonical
  BY <1>10 DEF LookUpCanonical, FindCanonicalReviewJob, WorkerJob
<1>11. CASE Generate
  BY <1>11 DEF Generate, WorkerJob
<1>12. CASE SaveResult
  BY <1>12 DEF SaveResult, WorkerJob
<1>13. CASE SearchNote
  <2>1. FindNote(job.id) \in NoteIDs \cup {NULL}
    BY FindNoteFinds, WorkerAssumption, BrokerAssumption
  <2> QED
    BY <1>13, <2>1 DEF SearchNote, WorkerJob
<1>14. CASE PostNote
  <2>1. Len(notes) < MaxNotes => Len(notes) + 1 \in NoteIDs
    BY WorkerAssumption, BrokerAssumption
  <2> QED
    BY <1>14, <2>1, SMTT(30) DEF PostNote, AddNote, WorkerJob
<1>15. CASE HandleFailure \/ HandleFailureFails
  BY <1>15 DEF HandleFailure, HandleFailureFails
<1>16. CASE Shutdown \/ Abandon \/ Crash \/ Restart \/ LoseDatabase \/ GitLabMoves
  BY <1>16 DEF Shutdown, Abandon, Crash, Restart, LoseDatabase, GitLabMoves, workerVars
<1>17. CASE UNCHANGED vars
  BY <1>17 DEF vars, workerVars
<1> QED
  BY <1>1, <1>2, <1>3, <1>4, <1>5, <1>6, <1>7, <1>8, <1>9, <1>10, <1>11, <1>12, <1>13, <1>14,
     <1>15, <1>16, <1>17 DEF Next, WorkerStep, Execute

LEMMA TypesStay ==
  ASSUME WInv, [Next]_vars
  PROVE  TypeOK'
<1>1. TypeOKStore'
  BY TablesStayRight DEF WInv, IInv
<1> QED
  BY <1>1, MergeRequestsTyped, NotesTyped, WorkerTyped DEF WInv, TypeOK

-----------------------------------------------------------------------------
(* The worker's memory. *)

LEMMA MemoryStays ==
  ASSUME WInv, [Next]_vars
  PROVE  Memory'
<1> USE DEF WInv, TypeOK, Memory, KeepRun, Goto, Fail, Return, Abort, Checkpoint, StillCurrent,
            PC, Preflight, Claimed, MayAwaitPatch
<1>1. ASSUME NEW i \in Identity, Select(i) \/ Discover(i) \/ Tick(i) \/ OperatorRetry(i)
      PROVE  Memory'
  BY <1>1 DEF Select, Discover, Tick, OperatorRetry, workerVars, NoSelection
<1>2. CASE PreflightFindNote
  BY <1>2 DEF PreflightFindNote, WorkerJob
<1>3. CASE PreflightCheckCI
  BY <1>3 DEF PreflightCheckCI, WorkerJob
<1>4. CASE PreflightDeferCI
  BY <1>4 DEF PreflightDeferCI, WorkerJob
<1>5. CASE Claim
  BY <1>5 DEF Claim, FirstCall, WorkerJob
<1>6. CASE ClaimNotAdmitted \/ ClaimMisses \/ ClaimFails
  BY <1>6 DEF ClaimNotAdmitted, ClaimMisses, ClaimFails
<1>7. CASE RecoverNote \/ CheckAlias \/ CheckBeforeSearch \/ CheckBeforePost
  BY <1>7 DEF RecoverNote, CheckAlias, CheckBeforeSearch, CheckBeforePost, WorkerJob
<1>8. CASE LoadReview
  <2>1. \A patch \in PatchIDOutcomes(job.id) : patch[1] = "available" => patch[2] = PatchOf[job.id]
    BY DEF PatchIDOutcomes
  <2>2. PatchOf[job.id] \in PatchIDs
    BY <1>8, BrokerAssumption DEF LoadReview
  <2> QED
    BY <1>8, <2>1, <2>2 DEF LoadReview, WorkerJob
<1>9. CASE AwaitPatch \/ CompleteAlias \/ Complete
  BY <1>9 DEF AwaitPatch, CompleteAlias, Complete, WorkerJob
<1>10. CASE LookUpCanonical
  BY <1>10 DEF LookUpCanonical, FindCanonicalReviewJob, WorkerJob
<1>11. CASE Generate
  BY <1>11, ReviewJobsAssumption DEF Generate, WorkerJob
<1>12. CASE SaveResult
  BY <1>12 DEF SaveResult, WorkerJob
<1>13. CASE SearchNote
  BY <1>13 DEF SearchNote, WorkerJob
<1>14. CASE PostNote
  <2>1. Len(notes) + 1 # NULL
    BY ReviewJobsAssumption
  <2> QED
    BY <1>14, <2>1 DEF PostNote, WorkerJob
<1>15. CASE HandleFailure \/ HandleFailureFails
  BY <1>15 DEF HandleFailure, HandleFailureFails
<1>16. CASE Shutdown \/ Abandon \/ Crash \/ Restart \/ LoseDatabase \/ GitLabMoves
  BY <1>16 DEF Shutdown, Abandon, Crash, Restart, LoseDatabase, GitLabMoves, workerVars
<1>17. CASE UNCHANGED vars
  BY <1>17 DEF vars, workerVars
<1> QED
  BY <1>1, <1>2, <1>3, <1>4, <1>5, <1>6, <1>7, <1>8, <1>9, <1>10, <1>11, <1>12, <1>13, <1>14,
     <1>15, <1>16, <1>17 DEF Next, WorkerStep, Execute

\* What a call of the worker does to the states and the claims of the rows:
\* only the row at hand changes, and it stops running or stays as it was.
OnlyRow(i) == \A k \in Identity \ {i} : jobs'[k] = jobs[k]
Released(i) == /\ OnlyRow(i)
               /\ HasState(i, "running")
               /\ jobs'[i].state \in {"queued", "completed", "failed", "obsolete"}
StillRunning(i) == /\ OnlyRow(i)
                   /\ HasState(i, "running") /\ jobs'[i].state = "running"
                   /\ jobs'[i].attempts = jobs[i].attempts

LEMMA ClaimEffect ==
  ASSUME TypeOKStore, NEW i \in Identity, ClaimSelectedJob(i)
  PROVE  /\ OnlyRow(i) /\ jobs'[i].state = "running"
         /\ jobs'[i].attempts = jobs[i].attempts + 1
         /\ jobs'[i].patch_status = jobs[i].patch_status
BY DEF ClaimSelectedJob, TypeOKStore, Job, OnlyRow

LEMMA DeferCIEffect ==
  ASSUME TypeOKStore, NEW i \in Identity, DeferCI(i)
  PROVE  OnlyRow(i) /\ jobs'[i].state = "queued"
BY DEF DeferCI, Selectable, HasState, TypeOKStore, Job, OnlyRow

LEMMA AwaitPatchEffect ==
  ASSUME TypeOKStore, NEW i \in Identity, DeferPendingPatchID(i)
  PROVE  Released(i)
BY DEF DeferPendingPatchID, HasState, TypeOKStore, Job, OnlyRow, Released

LEMMA AliasEffect ==
  ASSUME TypeOKStore, NEW i \in Identity, NEW c, NEW sha, CompleteEquivalentReview(i, c, sha)
  PROVE  Released(i)
BY DEF CompleteEquivalentReview, HasState, TypeOKStore, Job, OnlyRow, Released

LEMMA SaveEffect ==
  ASSUME TypeOKStore, NEW i \in Identity, NEW n, NEW status, NEW sha,
         SaveReviewResult(i, n, status, sha)
  PROVE  StillRunning(i)
BY DEF SaveReviewResult, HasState, TypeOKStore, Job, OnlyRow, StillRunning

LEMMA PublicationEffect ==
  ASSUME TypeOKStore, NEW i \in Identity, NEW note, CompletePublication(i, note)
  PROVE  Released(i)
BY DEF CompletePublication, HasState, TypeOKStore, Job, OnlyRow, Released

LEMMA SettleEffect ==
  ASSUME TypeOKStore, NEW i \in Identity, NEW err, Settle(i, err)
  PROVE  Released(i)
<1>1. CASE FinishJob(i, "obsolete") \/ FinishJob(i, "failed")
  BY <1>1 DEF FinishJob, HasState, TypeOKStore, Job, OnlyRow, Released
<1>2. CASE RetryJob(i)
  BY <1>2 DEF RetryJob, Requeued, HasState, TypeOKStore, Job, OnlyRow, Released
<1> QED
  BY <1>1, <1>2 DEF Settle

\* A call on the claimed row leaves nothing running that the worker does not own.
LEMMA OwnedAfterCall ==
  ASSUME WInv, pc \in Claimed,
         \/ Released(job.id)
         \/ StillRunning(job.id) /\ pc' \in Claimed
         \/ UNCHANGED jobs /\ pc' = "handleFailure",
         pc' \in {"down", "idle", "handleFailure"} \/ StillRunning(job.id),
         pc' \in Claimed => job'.id = job.id /\ job'.attempts = job.attempts
  PROVE  Ownership'
<1>1. job.id \in Identity
  BY DEF WInv, Memory
<1>2. \A k \in Identity : HasState(k, "running") => k = job.id /\ job.attempts = jobs[k].attempts
  BY DEF WInv, Ownership, RunningIsOwned, Claimed
<1>3. CASE Released(job.id)
  <2>1. \A k \in Identity : jobs'[k].state # "running"
    BY <1>2, <1>3 DEF Released, OnlyRow, HasState
  <2>2. ~StillRunning(job.id)
    BY <1>1, <2>1 DEF StillRunning
  <2> QED
    BY <2>1, <2>2 DEF Ownership, RunningIsOwned, HasState, Claimed
<1>4. CASE StillRunning(job.id) /\ pc' \in Claimed
  BY <1>1, <1>2, <1>4 DEF StillRunning, OnlyRow, Ownership, RunningIsOwned, HasState
<1>5. CASE UNCHANGED jobs /\ pc' = "handleFailure"
  BY <1>2, <1>5 DEF Ownership, RunningIsOwned, HasState, Claimed
<1> QED
  BY <1>3, <1>4, <1>5

\* The rows of others: only the row of the job at hand, and rows nobody works
\* on, change under the worker, and no row starts to run but by its claim.
LEMMA OwnershipStays ==
  ASSUME WInv, [Next]_vars
  PROVE  Ownership'
<1> USE DEF WInv, TypeOK, TypeOKStore, Memory, Ownership, RunningIsOwned, HasState, KeepRun, Goto,
            Fail, Return, Abort, Checkpoint, Uncertain, StillCurrent, PC, Preflight, Claimed
<1>1. ASSUME NEW i \in Identity, Select(i) \/ Discover(i) \/ Tick(i) \/ OperatorRetry(i)
      PROVE  Ownership'
  <2>1. CASE Select(i)
    BY <1>1, <2>1 DEF Select, storeVars
  <2>2. CASE Discover(i)
    BY <1>1, <2>2 DEF Discover, CreateReviewJob, NoJob, workerVars
  <2>3. CASE Tick(i)
    BY <1>1, <2>3 DEF Tick, BecomeDue, workerVars, Job
  <2>4. CASE OperatorRetry(i)
    BY <1>1, <2>4 DEF OperatorRetry, RetryFailedReviewJob, Job
  <2> QED
    BY <1>1, <2>1, <2>2, <2>3, <2>4
<1>2. CASE PreflightFindNote \/ PreflightCheckCI \/ ClaimNotAdmitted \/ ClaimMisses
  BY <1>2 DEF PreflightFindNote, PreflightCheckCI, ClaimNotAdmitted, ClaimMisses, storeVars
<1>4. CASE PreflightDeferCI
  BY <1>4, DeferCIEffect DEF PreflightDeferCI, OnlyRow, storeVars, WorkerJob
<1>5. CASE Claim
  BY <1>5, ClaimEffect DEF Claim, OnlyRow, FirstCall, WorkerJob
<1>6. CASE ClaimFails
  BY <1>6 DEF ClaimFails
<1>7. CASE RecoverNote \/ CheckAlias \/ CheckBeforeSearch \/ CheckBeforePost
  BY <1>7 DEF RecoverNote, CheckAlias, CheckBeforeSearch, CheckBeforePost, WorkerJob, storeVars
<1>8. CASE LoadReview \/ LookUpCanonical \/ Generate \/ SearchNote \/ PostNote
  BY <1>8 DEF LoadReview, LookUpCanonical, Generate, SearchNote, PostNote, WorkerJob, storeVars
<1>9. CASE AwaitPatch
  <2>1. Released(job.id) \/ (UNCHANGED jobs /\ pc' = "handleFailure")
    BY <1>9, AwaitPatchEffect DEF AwaitPatch, storeVars
  <2>2. /\ pc' \in {"down", "idle", "handleFailure"}
        /\ pc' \in Claimed => job'.id = job.id /\ job'.attempts = job.attempts
    BY <1>9 DEF AwaitPatch, WorkerJob
  <2> QED
    BY <1>9, <2>1, <2>2, OwnedAfterCall DEF AwaitPatch
<1>10. CASE CompleteAlias
  <2>1. Released(job.id) \/ (UNCHANGED jobs /\ pc' = "handleFailure")
    BY <1>10, AliasEffect DEF CompleteAlias, storeVars
  <2>2. /\ pc' \in {"down", "idle", "handleFailure"}
        /\ pc' \in Claimed => job'.id = job.id /\ job'.attempts = job.attempts
    BY <1>10 DEF CompleteAlias, WorkerJob
  <2> QED
    BY <1>10, <2>1, <2>2, OwnedAfterCall DEF CompleteAlias
<1>11. CASE Complete
  <2>1. Released(job.id) \/ (UNCHANGED jobs /\ pc' = "handleFailure")
    BY <1>11, PublicationEffect DEF Complete, storeVars
  <2>2. /\ pc' \in {"down", "idle", "handleFailure"}
        /\ pc' \in Claimed => job'.id = job.id /\ job'.attempts = job.attempts
    BY <1>11 DEF Complete, WorkerJob
  <2> QED
    BY <1>11, <2>1, <2>2, OwnedAfterCall DEF Complete
<1>12. CASE SaveResult
  <2>1. StillRunning(job.id) \/ (UNCHANGED jobs /\ pc' = "handleFailure")
    BY <1>12, SaveEffect DEF SaveResult, storeVars
  <2>2. /\ pc' \in {"checkCurrent", "handleFailure"}
        /\ job'.id = job.id /\ job'.attempts = job.attempts
    BY <1>12 DEF SaveResult, WorkerJob
  <2> QED
    BY <1>12, <2>1, <2>2, OwnedAfterCall DEF SaveResult
<1>13. CASE HandleFailure
  <2>1. Released(job.id) \/ (UNCHANGED jobs /\ pc' = "handleFailure")
    BY <1>13, SettleEffect DEF HandleFailure, storeVars
  <2>2. /\ pc' \in {"down", "idle", "handleFailure"}
        /\ pc' \in Claimed => job'.id = job.id /\ job'.attempts = job.attempts
    BY <1>13 DEF HandleFailure, WorkerJob
  <2> QED
    BY <1>13, <2>1, <2>2, OwnedAfterCall DEF HandleFailure
<1>14. CASE HandleFailureFails
  BY <1>14 DEF HandleFailureFails
<1>15. CASE Shutdown
  BY <1>15 DEF Shutdown, storeVars
<1>16. CASE Abandon \/ Crash \/ LoseDatabase
  BY <1>16 DEF Abandon, Crash, LoseDatabase
<1>17. CASE Restart
  BY <1>17, ZenonT(60) DEF Restart, RecoverInterruptedJobs, Requeued, Job
<1>18. CASE GitLabMoves
  BY <1>18 DEF GitLabMoves, storeVars, workerVars
<1>19. CASE UNCHANGED vars
  BY <1>19 DEF vars, workerVars, storeVars
<1> QED
  BY <1>1, <1>2, <1>4, <1>5, <1>6, <1>7, <1>8, <1>9, <1>10, <1>11, <1>12, <1>13, <1>14,
     <1>15, <1>16, <1>17, <1>18, <1>19 DEF Next, WorkerStep, Execute

LEMMA SelectionStays ==
  ASSUME WInv, [Next]_vars
  PROVE  SelectionStaysValid'
<1> USE DEF WInv, TypeOK, TypeOKStore, Memory, SelectionStaysValid, Selectable, HasState, KeepRun,
            Goto, Fail, Return, Abort, Checkpoint, StillCurrent, PC, Preflight, Claimed
<1>1. ASSUME NEW i \in Identity, Select(i) \/ Discover(i) \/ Tick(i) \/ OperatorRetry(i)
      PROVE  SelectionStaysValid'
  <2>1. CASE Select(i)
    BY <1>1, <2>1 DEF Select, NoSelection, storeVars
  <2>2. CASE Discover(i)
    BY <1>1, <2>2 DEF Discover, CreateReviewJob, workerVars
  <2>3. CASE Tick(i)
    BY <1>1, <2>3 DEF Tick, BecomeDue, workerVars
  <2>4. CASE OperatorRetry(i)
    BY <1>1, <2>4 DEF OperatorRetry, RetryFailedReviewJob
  <2> QED
    BY <1>1, <2>1, <2>2, <2>3, <2>4
<1>2. CASE PreflightFindNote \/ PreflightCheckCI
  BY <1>2 DEF PreflightFindNote, PreflightCheckCI, WorkerJob, storeVars
<1>3. CASE PreflightDeferCI \/ ClaimNotAdmitted \/ ClaimMisses \/ ClaimFails
  BY <1>3 DEF PreflightDeferCI, ClaimNotAdmitted, ClaimMisses, ClaimFails
<1>4. CASE Claim
  BY <1>4 DEF Claim, FirstCall
<1>5. CASE Execute
  BY <1>5 DEF Execute, RecoverNote, LoadReview, AwaitPatch, LookUpCanonical, CheckAlias,
              CompleteAlias, Generate, SaveResult, CheckBeforeSearch, SearchNote, CheckBeforePost,
              PostNote, Complete, HandleFailure, HandleFailureFails
<1>6. CASE Shutdown \/ GitLabMoves
  BY <1>6 DEF Shutdown, GitLabMoves, workerVars, storeVars
<1>7. CASE Abandon \/ Crash \/ Restart \/ LoseDatabase
  BY <1>7 DEF Abandon, Crash, Restart, LoseDatabase
<1>8. CASE UNCHANGED vars
  BY <1>8 DEF vars, workerVars, storeVars
<1> QED
  BY <1>1, <1>2, <1>3, <1>4, <1>5, <1>6, <1>7, <1>8 DEF Next, WorkerStep

-----------------------------------------------------------------------------
(* Stored reviews and recorded publications. *)

LEMMA ReviewsChange ==
  ASSUME [Next]_vars
  PROVE  /\ UNCHANGED results \/ SaveResult \/ LoseDatabase
         /\ UNCHANGED publications \/ Complete \/ LoseDatabase
<1> USE DEF storeVars, Uncertain, Checkpoint
<1>1. CASE PreflightFindNote \/ PreflightCheckCI \/ ClaimNotAdmitted \/ ClaimMisses
  BY <1>1 DEF PreflightFindNote, PreflightCheckCI, ClaimNotAdmitted, ClaimMisses
<1>2. CASE PreflightDeferCI \/ Claim \/ ClaimFails
  BY <1>2 DEF PreflightDeferCI, Claim, ClaimFails, DeferCI, ClaimSelectedJob
<1>3. CASE \/ RecoverNote \/ LoadReview \/ LookUpCanonical \/ CheckAlias \/ Generate
           \/ CheckBeforeSearch \/ SearchNote \/ CheckBeforePost \/ PostNote
  BY <1>3 DEF RecoverNote, LoadReview, LookUpCanonical, CheckAlias, Generate, CheckBeforeSearch,
              SearchNote, CheckBeforePost, PostNote, StillCurrent
<1>4. CASE AwaitPatch \/ CompleteAlias
  BY <1>4 DEF AwaitPatch, CompleteAlias, DeferPendingPatchID, CompleteEquivalentReview
<1>5. CASE SaveResult
  BY <1>5 DEF SaveResult, SaveReviewResult
<1>6. CASE Complete
  BY <1>6 DEF Complete, CompletePublication
<1>7. CASE HandleFailure \/ HandleFailureFails
  BY <1>7 DEF HandleFailure, HandleFailureFails, Settle, FinishJob, RetryJob
<1>8. ASSUME NEW i \in Identity, Select(i) \/ Discover(i) \/ Tick(i) \/ OperatorRetry(i)
      PROVE  UNCHANGED <<results, publications>>
  BY <1>8 DEF Select, Discover, Tick, OperatorRetry, CreateReviewJob, BecomeDue,
              RetryFailedReviewJob
<1>9. CASE Shutdown \/ Abandon \/ Crash \/ Restart \/ GitLabMoves
  BY <1>9 DEF Shutdown, Abandon, Crash, Restart, GitLabMoves, RecoverInterruptedJobs
<1>10. CASE UNCHANGED vars
  BY <1>10 DEF vars
<1> QED
  BY <1>1, <1>2, <1>3, <1>4, <1>5, <1>6, <1>7, <1>8, <1>9, <1>10 DEF Next, WorkerStep, Execute

\* The memory of a job that is worked on changes only where the code assigns it.
LEMMA ResultStays ==
  ASSUME WInv, [Next]_vars
  PROVE  ResultKnown'
<1> USE DEF WInv, TypeOK, TypeOKStore, Memory, ResultKnown, Unreviewed, Publishing, KeepRun, Goto,
            Fail, Return, Abort, Checkpoint, StillCurrent, PC, Preflight, Claimed
<1>1. ASSUME NEW i \in Identity, Select(i) \/ Discover(i) \/ Tick(i) \/ OperatorRetry(i)
      PROVE  ResultKnown'
  BY <1>1 DEF Select, Discover, Tick, OperatorRetry, workerVars, CreateReviewJob, BecomeDue,
              RetryFailedReviewJob
<1>2. CASE PreflightFindNote \/ PreflightCheckCI \/ PreflightDeferCI
  BY <1>2 DEF PreflightFindNote, PreflightCheckCI, PreflightDeferCI
<1>3. CASE ClaimNotAdmitted \/ ClaimMisses \/ ClaimFails
  BY <1>3 DEF ClaimNotAdmitted, ClaimMisses, ClaimFails
<1>4. CASE Claim
  BY <1>4 DEF Claim, ClaimSelectedJob, FirstCall, WorkerJob
<1>5. CASE \/ RecoverNote \/ LoadReview \/ LookUpCanonical \/ CheckAlias \/ Generate
           \/ CheckBeforeSearch \/ SearchNote \/ CheckBeforePost \/ PostNote
  BY <1>5 DEF RecoverNote, LoadReview, LookUpCanonical, CheckAlias, Generate, CheckBeforeSearch,
              SearchNote, CheckBeforePost, PostNote, WorkerJob, storeVars
<1>6. CASE AwaitPatch \/ CompleteAlias \/ Complete
  BY <1>6 DEF AwaitPatch, CompleteAlias, Complete
<1>7. CASE SaveResult
  BY <1>7, ZenonT(60) DEF SaveResult, SaveReviewResult
<1>8. CASE HandleFailure \/ HandleFailureFails
  BY <1>8 DEF HandleFailure, HandleFailureFails
<1>9. CASE Shutdown \/ GitLabMoves
  BY <1>9 DEF Shutdown, GitLabMoves, workerVars, storeVars
<1>10. CASE Abandon \/ Crash \/ Restart \/ LoseDatabase
  BY <1>10 DEF Abandon, Crash, Restart, LoseDatabase
<1>11. CASE UNCHANGED vars
  BY <1>11 DEF vars, workerVars, storeVars
<1> QED
  BY <1>1, <1>2, <1>3, <1>4, <1>5, <1>6, <1>7, <1>8, <1>9, <1>10, <1>11
     DEF Next, WorkerStep, Execute

-----------------------------------------------------------------------------
(* The notes. *)

Posted == [identity |-> job.id, result |-> job.result, late |-> FALSE]

\* An earlier note stays, and a new one was posted by this step or comes late.
LEMMA NotesKept ==
  ASSUME WInv, [Next]_vars
  PROVE  /\ \A n \in DOMAIN notes : n \in DOMAIN notes' /\ notes'[n] = notes[n]
         /\ \A n \in DOMAIN notes' \ DOMAIN notes :
              \/ /\ pc = "postNote" /\ PostNote /\ UNCHANGED inflight
                 /\ n = Len(notes) + 1 /\ notes'[n] = Posted
              \/ \E note \in inflight : notes'[n] = [note EXCEPT !.late = TRUE]
         /\ \A note \in inflight' : note \in inflight \/ (DelayedPosts /\ pc = "postNote" /\ note = Posted)
<1> USE DEF WInv, TypeOK
<1>1. CASE UNCHANGED <<notes, inflight>>
  BY <1>1
<1>2. ASSUME pc = "postNote", PostNote, notes' = Append(notes, Posted), UNCHANGED inflight
      PROVE  /\ \A n \in DOMAIN notes : n \in DOMAIN notes' /\ notes'[n] = notes[n]
             /\ \A n \in DOMAIN notes' \ DOMAIN notes :
                  n = Len(notes) + 1 /\ notes'[n] = Posted
  BY <1>2
<1>3. ASSUME NEW note \in inflight, notes' = Append(notes, [note EXCEPT !.late = TRUE]),
             inflight' = inflight \ {note}
      PROVE  /\ \A n \in DOMAIN notes : n \in DOMAIN notes' /\ notes'[n] = notes[n]
             /\ \A n \in DOMAIN notes' \ DOMAIN notes : notes'[n] = [note EXCEPT !.late = TRUE]
  BY <1>3
<1> QED
  BY <1>1, <1>2, <1>3, NotesGrow DEF Posted

\* What a step may add to the notes of the job at hand before it is posted.
LEMMA LateOnly ==
  ASSUME WInv, [Next]_vars, ~PostNote
  PROVE  \A n \in DOMAIN notes' \ DOMAIN notes : notes'[n].late
<1>1. \A note \in inflight : [note EXCEPT !.late = TRUE].late
  BY DEF WInv, TypeOK, Note
<1> QED
  BY <1>1, NotesKept

LEMMA RememberedNoteStays ==
  ASSUME WInv, [Next]_vars
  PROVE  job'.note # NULL => /\ job'.note \in DOMAIN notes'
                             /\ notes'[job'.note].identity = job'.id
<1> DEFINE Known == job'.note # NULL => /\ job'.note \in DOMAIN notes'
                                        /\ notes'[job'.note].identity = job'.id
<1>1. ASSUME job'.note = NULL \/ (job'.note = job.note /\ job'.id = job.id)
      PROVE  Known
  BY <1>1, NotesKept DEF WInv, NotesKnown
<1>2. CASE job' = NoSelection \/ UNCHANGED job
  BY <1>1, <1>2 DEF NoSelection
<1>3. ASSUME NEW i \in Identity, Select(i) PROVE Known
  BY <1>1, <1>3 DEF Select, NoSelection
<1>4. ASSUME pc = "findNote" \/ pc = "searchNote", UNCHANGED notes,
             job' = [job EXCEPT !.note = FindNote(job.id)]
      PROVE  Known
  BY <1>4, FindNoteFinds DEF WInv, TypeOK, WorkerJob
<1>5. CASE PreflightFindNote
  <2>1. UNCHANGED notes
    BY <1>5 DEF PreflightFindNote, gitlabVars
  <2>2. \/ job' = [job EXCEPT !.note = FindNote(job.id)]
        \/ \E err \in RequestFaults : job' = [job EXCEPT !.err = err]
    BY <1>5 DEF PreflightFindNote
  <2>3. ASSUME NEW err, job' = [job EXCEPT !.err = err] PROVE Known
    BY <1>1, <2>3 DEF WInv, TypeOK, WorkerJob
  <2>4. pc = "findNote"
    BY <1>5 DEF PreflightFindNote
  <2> QED
    BY <1>4, <2>1, <2>2, <2>3, <2>4
<1>6. CASE SearchNote
  <2>1. UNCHANGED notes
    BY <1>6 DEF SearchNote, gitlabVars
  <2>2. \/ job' = [job EXCEPT !.note = FindNote(job.id)]
        \/ \E err \in RequestFaults : job' = [job EXCEPT !.err = err]
    BY <1>6 DEF SearchNote, Fail
  <2>3. ASSUME NEW err, job' = [job EXCEPT !.err = err] PROVE Known
    BY <1>1, <2>3 DEF WInv, TypeOK, WorkerJob
  <2>4. pc = "searchNote"
    BY <1>6 DEF SearchNote
  <2> QED
    BY <1>4, <2>1, <2>2, <2>3, <2>4
<1>7. CASE PostNote
  <2>1. ASSUME NEW err, job' = [job EXCEPT !.err = err] PROVE Known
    BY <1>1, <2>1 DEF WInv, TypeOK, WorkerJob
  <2>2. ASSUME notes' = Append(notes, Posted), job' = [job EXCEPT !.note = Len(notes) + 1]
        PROVE  Known
    BY <2>2 DEF WInv, TypeOK, WorkerJob, Posted
  <2> QED
    BY <1>7, <2>1, <2>2 DEF PostNote, AddNote, Fail, Posted
<1>8. CASE Claim
  BY <1>1, <1>8 DEF Claim, WInv, TypeOK, WorkerJob
<1>9. CASE \/ RecoverNote \/ LoadReview \/ LookUpCanonical \/ CheckAlias \/ Generate
           \/ CheckBeforeSearch \/ CheckBeforePost \/ SaveResult
  BY <1>1, <1>9 DEF RecoverNote, LoadReview, LookUpCanonical, CheckAlias, Generate,
     CheckBeforeSearch, CheckBeforePost, SaveResult, StillCurrent, Goto, Fail, WInv, TypeOK,
     WorkerJob
<1>10. CASE AwaitPatch \/ CompleteAlias \/ Complete \/ HandleFailure \/ HandleFailureFails
  BY <1>1, <1>2, <1>10 DEF AwaitPatch, CompleteAlias, Complete, HandleFailure, HandleFailureFails,
     Checkpoint, Return, Fail, Abort, WInv, TypeOK, WorkerJob
<1>11. CASE \/ PreflightCheckCI \/ PreflightDeferCI \/ ClaimNotAdmitted \/ ClaimMisses
            \/ ClaimFails
  BY <1>1, <1>2, <1>11 DEF PreflightCheckCI, PreflightDeferCI, ClaimNotAdmitted, ClaimMisses,
     ClaimFails, Goto, Return, Abort, WInv, TypeOK, WorkerJob
<1>12. ASSUME NEW i \in Identity, Discover(i) \/ Tick(i) \/ OperatorRetry(i) PROVE Known
  BY <1>2, <1>12 DEF Discover, Tick, OperatorRetry, workerVars
<1>13. CASE Shutdown \/ Abandon \/ Crash \/ Restart \/ LoseDatabase \/ GitLabMoves
  BY <1>2, <1>13 DEF Shutdown, Abandon, Crash, Restart, LoseDatabase, GitLabMoves, workerVars, Goto,
     Abort
<1>14. CASE UNCHANGED vars
  BY <1>2, <1>14 DEF vars, workerVars
<1> QED
  BY <1>3, <1>5, <1>6, <1>7, <1>8, <1>9, <1>10, <1>11, <1>12, <1>13, <1>14
     DEF Next, WorkerStep, Execute

\* The POST comes after a search that found nothing.
LEMMA ReachesPost ==
  ASSUME WInv, [Next]_vars, pc' \in {"recheckCurrent", "postNote"}
  PROVE  /\ ~PostNote
         /\ job'.id = job.id
         /\ \/ UNCHANGED notes /\ MarkedNotes(job.id) = {}
            \/ pc \in {"recheckCurrent", "postNote"}
<1> USE DEF KeepRun, Goto, Fail, Return, Abort, Checkpoint, StillCurrent
<1>1. CASE SearchNote
  <2>1. FindNote(job.id) = NULL /\ UNCHANGED notes /\ job'.id = job.id /\ ~PostNote
    BY <1>1 DEF SearchNote, PostNote, gitlabVars, WInv, TypeOK, WorkerJob
  <2> QED
    BY <2>1, FindNoteFinds DEF WInv, TypeOK
<1>2. CASE CheckBeforePost
  BY <1>2 DEF CheckBeforePost, PostNote
<1>3. CASE \/ PreflightFindNote \/ PreflightCheckCI \/ PreflightDeferCI \/ Claim
           \/ ClaimNotAdmitted \/ ClaimMisses \/ ClaimFails
  BY <1>3 DEF PreflightFindNote, PreflightCheckCI, PreflightDeferCI, Claim, FirstCall,
              ClaimNotAdmitted, ClaimMisses, ClaimFails
<1>4. CASE \/ RecoverNote \/ LoadReview \/ AwaitPatch \/ LookUpCanonical \/ CheckAlias
           \/ CompleteAlias \/ Generate \/ SaveResult \/ CheckBeforeSearch \/ PostNote
           \/ Complete \/ HandleFailure \/ HandleFailureFails
  BY <1>4 DEF RecoverNote, LoadReview, AwaitPatch, LookUpCanonical, CheckAlias, CompleteAlias,
              Generate, SaveResult, CheckBeforeSearch, PostNote, Complete, HandleFailure,
              HandleFailureFails
<1>5. ASSUME NEW i \in Identity, Select(i) \/ Discover(i) \/ Tick(i) \/ OperatorRetry(i)
      PROVE  ~PostNote /\ UNCHANGED <<pc, job>>
  <2>1. UNCHANGED <<pc, job>>
    BY <1>5 DEF Select, Discover, Tick, OperatorRetry, workerVars
  <2> QED
    BY <2>1 DEF PostNote
<1>6. CASE Shutdown \/ Abandon \/ Crash \/ Restart \/ LoseDatabase \/ GitLabMoves
  <2>1. UNCHANGED <<pc, job>>
    BY <1>6 DEF Shutdown, Abandon, Crash, Restart, LoseDatabase, GitLabMoves, workerVars
  <2> QED
    BY <2>1 DEF PostNote
<1>7. CASE UNCHANGED vars
  BY <1>7 DEF vars, workerVars, PostNote
<1> QED
  BY <1>1, <1>2, <1>3, <1>4, <1>5, <1>6, <1>7 DEF Next, WorkerStep, Execute

LEMMA NotesKnownStays ==
  ASSUME WInv, [Next]_vars
  PROVE  NotesKnown'
<1>1. ASSUME pc' \in {"recheckCurrent", "postNote"},
             NEW n \in DOMAIN notes', notes'[n].identity = job'.id
      PROVE  notes'[n].late
  <2>1. CASE n \notin DOMAIN notes
    BY <1>1, <2>1, ReachesPost, LateOnly
  <2>2. CASE n \in DOMAIN notes
    BY <1>1, <2>2, ReachesPost, NotesKept DEF MarkedNotes, WInv, NotesKnown
  <2> QED
    BY <2>1, <2>2
<1> QED
  BY <1>1, RememberedNoteStays DEF NotesKnown

LEMMA OneNoteStays ==
  ASSUME WInv, [Next]_vars
  PROVE  AtMostOneNote'
<1> SUFFICES ASSUME NEW m \in DOMAIN notes', NEW n \in DOMAIN notes',
                    notes'[m].identity = notes'[n].identity,
                    m # n, ~notes'[m].late, ~notes'[n].late
             PROVE  FALSE
  BY DEF AtMostOneNote
<1>1. \A k \in DOMAIN notes' \ DOMAIN notes :
        notes'[k].late \/ (pc = "postNote" /\ k = Len(notes) + 1 /\ notes'[k] = Posted)
  BY NotesKept DEF WInv, TypeOK, Note
<1>2. ASSUME NEW k \in DOMAIN notes, NEW j \in DOMAIN notes' \ DOMAIN notes,
             notes'[k].identity = notes'[j].identity, ~notes'[j].late
      PROVE  notes'[k].late
  BY <1>1, <1>2, NotesKept DEF Posted, WInv, NotesKnown
<1>3. CASE m \in DOMAIN notes /\ n \in DOMAIN notes
  BY <1>3, NotesKept DEF WInv, AtMostOneNote
<1>4. CASE m \notin DOMAIN notes /\ n \notin DOMAIN notes
  BY <1>1, <1>4
<1> QED
  BY <1>2, <1>3, <1>4

LEMMA PublicationsStay ==
  ASSUME WInv, [Next]_vars
  PROVE  PublicationsKnown'
<1>1. CASE UNCHANGED publications
  BY <1>1, NotesKept DEF WInv, PublicationsKnown
<1>2. CASE LoseDatabase
  BY <1>2 DEF LoseDatabase, PublicationsKnown
<1>3. CASE Complete
  <2>1. /\ job.id \in Identity /\ job.note # NULL
        /\ job.note \in DOMAIN notes /\ notes[job.note].identity = job.id
    BY <1>3 DEF Complete, WInv, Memory, NotesKnown, Claimed
  <2>2. \/ UNCHANGED publications
        \/ publications' = [publications EXCEPT ![job.id] = job.note]
    BY <1>3 DEF Complete, Checkpoint, Uncertain, CompletePublication, storeVars
  <2>3. UNCHANGED notes
    BY <1>3 DEF Complete, gitlabVars
  <2> QED
    BY <2>1, <2>2, <2>3 DEF WInv, PublicationsKnown, TypeOK, TypeOKStore
<1> QED
  BY <1>1, <1>2, <1>3, ReviewsChange

LEMMA NotesShowReviewStays ==
  ASSUME WInv, [Next]_vars, ~DatabaseLoss
  PROVE  NotesShowReview'
<1> DEFINE Shown == {notes[n] : n \in DOMAIN notes} \cup inflight
<1>1. ASSUME NEW i \in Identity, results[i] # NULL PROVE results'[i] = results[i]
  <2>1. CASE UNCHANGED results
    BY <2>1
  <2>2. CASE SaveResult
    BY <1>1, <2>2 DEF SaveResult, Uncertain, SaveReviewResult, WInv, TypeOK, TypeOKStore, storeVars
  <2>3. ~LoseDatabase
    BY DEF LoseDatabase
  <2> QED
    BY <2>1, <2>2, <2>3, ReviewsChange
<1>2. ASSUME NEW note \in Note, note.result # NULL, note.result = results[note.identity]
      PROVE  note.result = results'[note.identity]
  BY <1>1, <1>2 DEF Note
<1>3. \A note \in Shown : /\ note \in Note
                          /\ note.result # NULL /\ note.result = results[note.identity]
  BY DEF WInv, TypeOK, NotesShowReview
<1>4. pc = "postNote" => /\ Posted \in Note /\ Posted.result # NULL
                         /\ Posted.result = results[Posted.identity]
  BY DEF WInv, TypeOK, WorkerJob, Note, Posted, Memory, ResultKnown, Publishing, Claimed
<1>5. ASSUME NEW old \in inflight
      PROVE  /\ [old EXCEPT !.late = TRUE] \in Note
             /\ [old EXCEPT !.late = TRUE].result = old.result
             /\ [old EXCEPT !.late = TRUE].identity = old.identity
  <2>1. old \in Note
    BY <1>3
  <2> QED
    BY <2>1 DEF Note
<1>6. ASSUME NEW note \in {notes'[n] : n \in DOMAIN notes'} \cup inflight'
      PROVE  /\ note \in Note /\ note.result # NULL
             /\ note.result = results[note.identity]
  <2>1. ASSUME NEW n \in DOMAIN notes', note = notes'[n], n \in DOMAIN notes
        PROVE  note \in Shown
    BY <2>1, NotesKept
  <2>2. ASSUME NEW n \in DOMAIN notes', note = notes'[n], n \notin DOMAIN notes
        PROVE  \/ pc = "postNote" /\ note = Posted
               \/ \E old \in inflight : note = [old EXCEPT !.late = TRUE]
    BY <2>2, NotesKept
  <2>3. ASSUME note \in inflight'
        PROVE  \/ note \in inflight
               \/ pc = "postNote" /\ note = Posted
    BY <2>3, NotesKept
  <2>4. \/ note \in Shown
        \/ pc = "postNote" /\ note = Posted
        \/ \E old \in inflight : note = [old EXCEPT !.late = TRUE]
    BY <2>1, <2>2, <2>3
  <2>5. CASE note \in Shown
    BY <1>3, <2>5
  <2>6. CASE pc = "postNote" /\ note = Posted
    BY <1>4, <2>6
  <2>7. CASE \E old \in inflight : note = [old EXCEPT !.late = TRUE]
    BY <1>3, <1>5, <2>7
  <2> QED
    BY <2>4, <2>5, <2>6, <2>7
<1> QED
  BY <1>2, <1>6 DEF NotesShowReview


\* Where the search of the preflight counts, it was made, and nothing is posted.
LEMMA ReachesReview ==
  ASSUME WInv, [Next]_vars, Searched'
  PROVE  /\ ~PostNote
         /\ job'.id = job.id
         /\ Searched \/ MarkedNotes(job.id) = {}
<1> USE DEF KeepRun, Goto, Fail, Return, Abort, Checkpoint, StillCurrent, Unreviewed
<1>1. CASE PreflightFindNote
  <2>1. FindNote(job.id) = NULL /\ job'.id = job.id /\ pc # "postNote"
    BY <1>1 DEF PreflightFindNote, Searched, WInv, TypeOK, WorkerJob, RequestFaults
  <2> QED
    BY <2>1, FindNoteFinds DEF WInv, TypeOK, PostNote
<1>2. CASE PreflightCheckCI
  BY <1>2 DEF PreflightCheckCI, Searched, PostNote, CheckCI, RequestFaults, WInv, TypeOK, WorkerJob
<1>3. CASE PreflightDeferCI
  BY <1>3 DEF PreflightDeferCI, Searched, PostNote, WInv, TypeOK, WorkerJob
<1>4. CASE Claim
  <2>1. job'.id = job.id /\ pc = "claim" /\ job'.note = job.note /\ job'.err # "none" => pc' = "handleFailure"
    BY <1>4 DEF Claim, FirstCall, WInv, TypeOK, WorkerJob
  <2>2. pc' = "load" => results[job.id] = NULL /\ job.note = NULL /\ job.err = "none"
    BY <1>4 DEF Claim, FirstCall
  <2>3. pc' \in {"load", "handleFailure", "recoverNote", "checkCurrent"}
    BY <1>4 DEF Claim, FirstCall
  <2> QED
    BY <1>4, <2>1, <2>2, <2>3 DEF Searched, PostNote, Claim, WInv, TypeOK, WorkerJob
<1>5. CASE ClaimNotAdmitted \/ ClaimMisses \/ ClaimFails
  BY <1>5 DEF ClaimNotAdmitted, ClaimMisses, ClaimFails, Searched
<1>6. CASE \/ RecoverNote \/ LoadReview \/ LookUpCanonical \/ CheckAlias \/ Generate
  BY <1>6 DEF RecoverNote, LoadReview, LookUpCanonical, CheckAlias, Generate, Searched, PostNote,
              WInv, TypeOK, WorkerJob
<1>7. CASE \/ AwaitPatch \/ CompleteAlias \/ SaveResult \/ CheckBeforeSearch \/ SearchNote
           \/ CheckBeforePost \/ PostNote \/ Complete \/ HandleFailure \/ HandleFailureFails
  BY <1>7 DEF AwaitPatch, CompleteAlias, SaveResult, CheckBeforeSearch, SearchNote,
              CheckBeforePost, PostNote, Complete, HandleFailure, HandleFailureFails, Searched
<1>8. ASSUME NEW i \in Identity, Select(i) PROVE FALSE
  BY <1>8 DEF Select, Searched, NoSelection, storeVars
<1>9. ASSUME NEW i \in Identity, Discover(i) \/ Tick(i) \/ OperatorRetry(i)
      PROVE  UNCHANGED <<pc, job, results>>
  BY <1>9 DEF Discover, Tick, OperatorRetry, workerVars, CreateReviewJob, BecomeDue,
              RetryFailedReviewJob
<1>10. CASE Shutdown \/ GitLabMoves
  <2>1. UNCHANGED <<pc, job, results>>
    BY <1>10 DEF Shutdown, GitLabMoves, workerVars, storeVars, Searched
  <2> QED
    BY <2>1 DEF Searched, PostNote
<1>11. CASE Abandon \/ Crash \/ Restart \/ LoseDatabase
  BY <1>11 DEF Abandon, Crash, Restart, LoseDatabase, Searched
<1>12. CASE UNCHANGED vars
  BY <1>12 DEF vars, workerVars, storeVars, PostNote, Searched
<1>13. ASSUME UNCHANGED <<pc, job, results>> PROVE ~PostNote /\ Searched
  BY <1>13 DEF PostNote, Searched
<1> QED
  BY <1>1, <1>2, <1>3, <1>4, <1>5, <1>6, <1>7, <1>8, <1>9, <1>10, <1>11, <1>12, <1>13
     DEF Next, WorkerStep, Execute

LEMMA SearchHoldsStays ==
  ASSUME WInv, [Next]_vars, ~DelayedPosts
  PROVE  SearchHolds'
<1>1. inflight' = {}
  BY NotesKept DEF WInv, SearchHolds
<1>2. ~PostNote => UNCHANGED notes
  BY NotesGrow DEF WInv, SearchHolds
<1>3. ASSUME Searched' PROVE MarkedNotes(job.id)' = {}
  <2>1. UNCHANGED notes /\ job'.id = job.id
    BY <1>2, <1>3, ReachesReview
  <2>2. MarkedNotes(job.id) = {}
    BY <1>3, ReachesReview DEF WInv, SearchHolds
  <2> QED
    BY <2>1, <2>2 DEF MarkedNotes
<1> QED
  BY <1>1, <1>3 DEF SearchHolds

-----------------------------------------------------------------------------
(* The invariant. *)

LEMMA WInvInit == Init => WInv
<1> SUFFICES ASSUME Init PROVE WInv
  OBVIOUS
<1> USE DEF Init, InitWorker, InitGitLab
<1>1. IInv
  BY InitEstablishes
<1>2. mrs \in [MergeRequests -> MergeRequest] /\ seen \subseteq Identity
  <2>1. ASSUME NEW h \in Heads PROVE [open |-> TRUE, head |-> h] \in MergeRequest
    BY DEF MergeRequest
  <2>2. mrs \in [MergeRequests -> {[open |-> TRUE, head |-> h] : h \in Heads}]
    OBVIOUS
  <2> QED
    BY <2>1, <2>2
<1>3. /\ notes \in Seq(Note) /\ Len(notes) = 0 /\ DOMAIN notes = {}
      /\ \A i \in Identity : publications[i] = NULL
  BY DEF InitStore
<1>4. TypeOK
  <2>1. pc \in PC /\ job \in WorkerJob /\ draining \in BOOLEAN /\ inflight \subseteq Note
    BY NoSelectionTyped DEF PC
  <2> QED
    BY <1>1, <1>2, <1>3, <2>1, BrokerAssumption DEF TypeOK, IInv
<1>5. Memory /\ SelectionStaysValid /\ ResultKnown
  BY DEF Memory, SelectionStaysValid, ResultKnown, Unreviewed, Publishing, Preflight, Claimed
<1>6. Ownership
  BY DEF InitStore, NoJob, Ownership, RunningIsOwned, HasState, Claimed
<1>7. NotesKnown /\ AtMostOneNote /\ PublicationsKnown /\ NotesShowReview
  BY <1>3 DEF NotesKnown, AtMostOneNote, PublicationsKnown, NotesShowReview, NoSelection
<1>8. SearchHolds
  BY <1>3 DEF SearchHolds, MarkedNotes
<1> QED
  BY <1>1, <1>4, <1>5, <1>6, <1>7, <1>8 DEF WInv

LEMMA WInvPreserved == WInv /\ [Next]_vars => WInv'
<1> SUFFICES ASSUME WInv, [Next]_vars PROVE WInv'
  OBVIOUS
<1>1. IInv'
  BY TablesStayRight DEF WInv
<1> QED
  BY <1>1, TypesStay, MemoryStays, OwnershipStays, SelectionStays, ResultStays, NotesKnownStays,
     OneNoteStays, PublicationsStay, NotesShowReviewStays, SearchHoldsStays DEF WInv

LEMMA WInvInvariance == Spec => []WInv
BY WInvInit, WInvPreserved, PTL DEF Spec

-----------------------------------------------------------------------------
(* Waiting for a patch ID. *)

\* What PatchWaitIsBounded asks of one row.
WaitBounded(i) ==
  /\ jobs[i].patch_status # "pending" /\ jobs'[i].patch_status = "pending"
       => MaxJobAttempts - jobs'[i].attempts >= PatchWaitReserve
  /\ jobs[i].patch_status = "pending" /\ jobs'[i].patch_status = "unknown"
       => jobs'[i].state \in {"completed", "absent"}

\* The one call that starts a wait is made with claims left.
LEMMA AwaitIsBounded ==
  ASSUME WInv, AwaitPatch, NEW i \in Identity
  PROVE  WaitBounded(i)
<1>1. UNCHANGED jobs \/ DeferPendingPatchID(job.id)
  BY DEF AwaitPatch, Checkpoint, Uncertain, storeVars
<1>2. CASE UNCHANGED jobs
  BY <1>2 DEF WaitBounded
<1>3. CASE DeferPendingPatchID(job.id)
  <2>1. /\ job.id \in Identity /\ job.attempts = jobs[job.id].attempts
        /\ MaxJobAttempts - job.attempts >= PatchWaitReserve
    BY DEF AwaitPatch, WInv, Memory, Ownership, RunningIsOwned, Claimed, MayAwaitPatch
  <2>2. jobs'[i].attempts = jobs[i].attempts /\ (i # job.id => jobs'[i] = jobs[i])
    BY <1>3, <2>1 DEF DeferPendingPatchID, WInv, TypeOK, TypeOKStore, Job
  <2>3. jobs'[job.id].patch_status = "pending" /\ jobs[job.id].patch_status = "unknown"
    BY <1>3, <2>1 DEF DeferPendingPatchID, WInv, TypeOK, TypeOKStore, Job
  <2> QED
    BY <2>1, <2>2, <2>3 DEF WaitBounded
<1> QED
  BY <1>1, <1>2, <1>3

\* No other transaction starts a wait, and only completion forgets one.
LEMMA OthersDoNotWait ==
  ASSUME IInv, NEW k \in Identity, NEW i \in Identity,
         \/ RecoverInterruptedJobs \/ CreateReviewJob(k) \/ BecomeDue(k)
         \/ ClaimSelectedJob(k) \/ DeferCI(k) \/ RetryJob(k)
         \/ FinishJob(k, "failed") \/ FinishJob(k, "obsolete")
         \/ \E note : CompletePublication(k, note)
         \/ \E c, sha : CompleteEquivalentReview(k, c, sha)
         \/ \E n, status, sha : SaveReviewResult(k, n, status, sha)
         \/ RetryFailedReviewJob(k)
  PROVE  WaitBounded(i)
<1> USE DEF IInv, TypeOKStore, Job, WaitBounded
<1>1. CASE RecoverInterruptedJobs \/ RetryJob(k)
  <2>1. ASSUME NEW row \in Job, NEW due \in BOOLEAN
        PROVE  Requeued(row, due).patch_status = row.patch_status
    BY DEF Requeued
  <2>2. jobs'[i].patch_status = jobs[i].patch_status
    BY <1>1, <2>1 DEF RecoverInterruptedJobs, RetryJob
  <2> QED
    BY <2>2
<1>2. CASE CreateReviewJob(k)
  <2>1. jobs[k].patch_status = "unknown"
    BY <1>2 DEF CreateReviewJob, RowInv
  <2>2. jobs'[k].patch_status = "unknown"
    BY <1>2 DEF CreateReviewJob, NoJob
  <2>3. i # k => jobs'[i] = jobs[i]
    BY <1>2 DEF CreateReviewJob
  <2> QED
    BY <2>1, <2>2, <2>3
<1>3. CASE \/ BecomeDue(k) \/ ClaimSelectedJob(k) \/ DeferCI(k)
           \/ FinishJob(k, "failed") \/ FinishJob(k, "obsolete") \/ RetryFailedReviewJob(k)
  BY <1>3 DEF BecomeDue, ClaimSelectedJob, DeferCI, FinishJob, RetryFailedReviewJob
<1>4. ASSUME NEW note, CompletePublication(k, note) PROVE WaitBounded(i)
  BY <1>4 DEF CompletePublication
<1>5. ASSUME NEW c, NEW sha, CompleteEquivalentReview(k, c, sha) PROVE WaitBounded(i)
  <2>1. jobs'[k].patch_status = "available"
    BY <1>5 DEF CompleteEquivalentReview
  <2>2. i # k => jobs'[i] = jobs[i]
    BY <1>5 DEF CompleteEquivalentReview
  <2> QED
    BY <2>1, <2>2
<1>6. ASSUME NEW n, NEW status, NEW sha, SaveReviewResult(k, n, status, sha)
      PROVE  WaitBounded(i)
  <2>1. jobs'[k].patch_status \in {"available", "unavailable"}
    BY <1>6 DEF SaveReviewResult, ValidReviewPatchID
  <2>2. i # k => jobs'[i] = jobs[i]
    BY <1>6 DEF SaveReviewResult
  <2> QED
    BY <2>1, <2>2
<1> QED
  BY <1>1, <1>2, <1>3, <1>4, <1>5, <1>6

\* What the system does to the rows of the review jobs: nothing, the start of a
\* wait, one of the other transactions, or the loss of them all.
OtherTransaction(k) ==
  \/ RecoverInterruptedJobs \/ CreateReviewJob(k) \/ BecomeDue(k)
  \/ ClaimSelectedJob(k) \/ DeferCI(k) \/ RetryJob(k)
  \/ FinishJob(k, "failed") \/ FinishJob(k, "obsolete")
  \/ \E note : CompletePublication(k, note)
  \/ \E c, sha : CompleteEquivalentReview(k, c, sha)
  \/ \E n, status, sha : SaveReviewResult(k, n, status, sha)
  \/ RetryFailedReviewJob(k)

LEMMA RowsStep ==
  ASSUME WInv, [Next]_vars
  PROVE  \/ UNCHANGED jobs \/ AwaitPatch \/ LoseDatabase \/ RecoverInterruptedJobs
         \/ \E k \in Identity : OtherTransaction(k)
<1> USE DEF Uncertain, Checkpoint, OtherTransaction
<1> DEFINE Goal == \/ UNCHANGED jobs \/ AwaitPatch \/ LoseDatabase \/ RecoverInterruptedJobs
                   \/ \E k \in Identity : OtherTransaction(k)
<1>2. ASSUME NEW k \in Identity, Select(k) \/ Discover(k) \/ Tick(k) \/ OperatorRetry(k)
      PROVE  Goal
  BY <1>2 DEF Select, Discover, Tick, OperatorRetry, storeVars
<1>4. CASE PreflightDeferCI \/ Claim \/ ClaimFails
  <2>1. UNCHANGED jobs \/ DeferCI(job.id) \/ ClaimSelectedJob(job.id)
    BY <1>4 DEF PreflightDeferCI, Claim, ClaimFails, storeVars
  <2>2. job.id \in Identity
    BY <1>4 DEF PreflightDeferCI, Claim, ClaimFails, WInv, Memory, Preflight
  <2> QED
    BY <2>1, <2>2
<1>5. CASE CompleteAlias \/ SaveResult \/ Complete
  <2>1. \/ UNCHANGED jobs
        \/ \E c, sha : CompleteEquivalentReview(job.id, c, sha)
        \/ \E n, status, sha : SaveReviewResult(job.id, n, status, sha)
        \/ \E note : CompletePublication(job.id, note)
    BY <1>5 DEF CompleteAlias, SaveResult, Complete, storeVars
  <2>2. job.id \in Identity
    BY <1>5 DEF CompleteAlias, SaveResult, Complete, WInv, Memory, Claimed
  <2> QED
    BY <2>1, <2>2
<1>6. CASE HandleFailure \/ HandleFailureFails
  <2>1. UNCHANGED jobs \/ Settle(job.id, job.err)
    BY <1>6 DEF HandleFailure, HandleFailureFails, storeVars
  <2>2. job.id \in Identity
    BY <1>6 DEF HandleFailure, HandleFailureFails, WInv, Memory, Claimed
  <2> QED
    BY <2>1, <2>2 DEF Settle
<1>7. CASE \/ PreflightFindNote \/ PreflightCheckCI \/ ClaimNotAdmitted \/ ClaimMisses
           \/ RecoverNote \/ LoadReview \/ LookUpCanonical \/ CheckAlias \/ Generate
           \/ CheckBeforeSearch \/ SearchNote \/ CheckBeforePost \/ PostNote
  BY <1>7 DEF PreflightFindNote, PreflightCheckCI, ClaimNotAdmitted, ClaimMisses,
     RecoverNote, LoadReview, LookUpCanonical, CheckAlias, Generate, CheckBeforeSearch,
     SearchNote, CheckBeforePost, PostNote, StillCurrent, storeVars
<1>8. CASE Restart
  BY <1>8 DEF Restart
<1>10. CASE Shutdown \/ Abandon \/ Crash \/ GitLabMoves \/ UNCHANGED vars
  BY <1>10 DEF Shutdown, Abandon, Crash, GitLabMoves, vars, storeVars
<1> QED
  BY <1>2, <1>4, <1>5, <1>6, <1>7, <1>8, <1>10 DEF Next, WorkerStep, Execute

LEMMA WaitStep ==
  ASSUME WInv, [Next]_vars, NEW i \in Identity
  PROVE  WaitBounded(i)
<1>1. CASE UNCHANGED jobs
  BY <1>1 DEF WaitBounded
<1>2. CASE LoseDatabase
  BY <1>2 DEF LoseDatabase, NoJob, WaitBounded
<1>3. CASE RecoverInterruptedJobs
  BY <1>3, OthersDoNotWait DEF WInv
<1>4. ASSUME NEW k \in Identity, OtherTransaction(k) PROVE WaitBounded(i)
  BY <1>4, OthersDoNotWait DEF WInv, OtherTransaction
<1> QED
  BY <1>1, <1>2, <1>3, <1>4, RowsStep, AwaitIsBounded

-----------------------------------------------------------------------------
(* A queued job can be claimed. *)

\* A queued job whose deadline has passed may be selected: it never waits with
\* its claims used up, where no poll would look at it again and no operator
\* could retry it.  The store does not promise this by itself, for a wait for
\* the patch ID puts any running job back in the queue.
QueuedIsSelectable ==
  \A i \in Identity : HasState(i, "queued") /\ jobs[i].due => Selectable(i)

\* Whether or not the deadline has passed.
QueuedHasClaims ==
  \A i \in Identity : HasState(i, "queued") => jobs[i].attempts < MaxJobAttempts

\* The transactions that put a job into the queue look at its claims.
LEMMA OthersKeepClaims ==
  ASSUME TypeOKStore, QueuedHasClaims, NEW k \in Identity, OtherTransaction(k)
  PROVE  QueuedHasClaims'
<1> USE ReviewJobsAssumption DEF TypeOKStore, Job, QueuedHasClaims, HasState
<1> SUFFICES ASSUME NEW i \in Identity, jobs'[i].state = "queued"
             PROVE  jobs'[i].attempts < MaxJobAttempts
  OBVIOUS
<1>1. CASE RecoverInterruptedJobs \/ RetryJob(k)
  <2>1. ASSUME NEW row \in Job, NEW due \in BOOLEAN, Requeued(row, due).state = "queued",
               row.state = "running"
        PROVE  Requeued(row, due).attempts < MaxJobAttempts
    BY <2>1 DEF Requeued
  <2>2. jobs'[i] = jobs[i] \/ (jobs[i].state = "running" /\ \E due \in BOOLEAN : jobs'[i] = Requeued(jobs[i], due))
    BY <1>1 DEF RecoverInterruptedJobs, RetryJob
  <2> QED
    BY <2>1, <2>2
<1>2. CASE CreateReviewJob(k)
  BY <1>2 DEF CreateReviewJob, NoJob
<1>3. CASE \/ BecomeDue(k) \/ ClaimSelectedJob(k) \/ DeferCI(k)
           \/ FinishJob(k, "failed") \/ FinishJob(k, "obsolete") \/ RetryFailedReviewJob(k)
  BY <1>3 DEF BecomeDue, ClaimSelectedJob, DeferCI, FinishJob, RetryFailedReviewJob
<1>4. ASSUME NEW note, CompletePublication(k, note)
      PROVE  jobs'[i].attempts < MaxJobAttempts
  BY <1>4 DEF CompletePublication
<1>5. ASSUME NEW c, NEW sha, CompleteEquivalentReview(k, c, sha)
      PROVE  jobs'[i].attempts < MaxJobAttempts
  BY <1>5 DEF CompleteEquivalentReview
<1>6. ASSUME NEW n, NEW status, NEW sha, SaveReviewResult(k, n, status, sha)
      PROVE  jobs'[i].attempts < MaxJobAttempts
  BY <1>6 DEF SaveReviewResult
<1> QED
  BY <1>1, <1>2, <1>3, <1>4, <1>5, <1>6 DEF OtherTransaction

\* The wait for a patch ID does not, but the worker does before it waits.
LEMMA AwaitKeepsClaims ==
  ASSUME WInv, QueuedHasClaims, AwaitPatch
  PROVE  QueuedHasClaims'
<1>1. UNCHANGED jobs \/ DeferPendingPatchID(job.id)
  BY DEF AwaitPatch, Checkpoint, Uncertain, storeVars
<1>2. CASE UNCHANGED jobs
  BY <1>2 DEF QueuedHasClaims, HasState
<1>3. CASE DeferPendingPatchID(job.id)
  <2>1. /\ job.id \in Identity /\ job.attempts = jobs[job.id].attempts
        /\ MaxJobAttempts - job.attempts >= PatchWaitReserve
    BY DEF AwaitPatch, WInv, Memory, Ownership, RunningIsOwned, Claimed, MayAwaitPatch
  <2>2. jobs[job.id].attempts \in Nat /\ MaxJobAttempts \in Nat /\ PatchWaitReserve \in Nat \ {0}
    BY <2>1, ReviewJobsAssumption, WorkerAssumption DEF WInv, TypeOK, TypeOKStore, Job
  <2>3. jobs[job.id].attempts < MaxJobAttempts
    BY <2>1, <2>2
  <2>4. \A i \in Identity : /\ jobs'[i].attempts = jobs[i].attempts
                            /\ i # job.id => jobs'[i] = jobs[i]
    BY <1>3, <2>1 DEF DeferPendingPatchID, WInv, TypeOK, TypeOKStore, Job
  <2> QED
    BY <2>3, <2>4 DEF QueuedHasClaims, HasState
<1> QED
  BY <1>1, <1>2, <1>3

-----------------------------------------------------------------------------
(* Theorems. *)

\* Type correctness of the worker, its memory, GitLab and the tables together.
THEOREM WorkerTypeCorrect == Spec => []TypeOK
<1>1. WInv => TypeOK
  BY DEF WInv
<1> QED
  BY <1>1, WInvInvariance, PTL

\* A row is running only while the living worker executes it, with the number
\* of claims it read: every error path of execute and handleFailure either
\* settles the row or stops the service, so startup recovery is enough.
THEOREM NoJobIsLeftRunning == Spec => []RunningIsOwned
<1>1. WInv => RunningIsOwned
  BY DEF WInv, Ownership
<1> QED
  BY <1>1, WInvInvariance, PTL

\* No revision gets a second note, wherever the process stops, whichever
\* answer is lost and whatever operators retry, even when the database is
\* replaced; the only exception is a note that GitLab created after the client
\* had given up on its request.
THEOREM PublicationIsIdempotent == Spec => []AtMostOneNote
<1>1. WInv => AtMostOneNote
  BY DEF WInv
<1> QED
  BY <1>1, WInvInvariance, PTL

\* The job under preflight stays selectable and unreviewed until it is claimed
\* or deferred, so DeferCI cannot return ErrJobNotDue and stop the service.
THEOREM PreflightStaysValid == Spec => []SelectionStaysValid
<1>1. WInv => SelectionStaysValid
  BY DEF WInv
<1> QED
  BY <1>1, WInvInvariance, PTL

\* As long as the database is kept, every note of a revision, a late one too,
\* shows the review that was checkpointed before the first POST, and every
\* recorded publication names a note of its own revision.
THEOREM NotesShowStoredReviews == ~DatabaseLoss => (Spec => []PublishedIsStored)
<1> SUFFICES ASSUME ~DatabaseLoss PROVE Spec => []PublishedIsStored
  OBVIOUS
<1>1. WInv => PublishedIsStored
  BY DEF WInv, NotesShowReview, PublicationsKnown, PublishedIsStored
<1> QED
  BY <1>1, WInvInvariance, PTL

\* The reviewer is asked only for a revision that has neither a stored review,
\* nor a recorded publication, nor a marked note, unless the database was lost
\* and a note of the lost time comes late as well.
THEOREM ReviewsAreNotWasted ==
  ~(DatabaseLoss /\ DelayedPosts) => (Spec => []NoWastedReview)
<1> SUFFICES ASSUME ~(DatabaseLoss /\ DelayedPosts) PROVE Spec => []NoWastedReview
  OBVIOUS
<1>1. WInv => NoWastedReview
  <2> SUFFICES ASSUME WInv, pc \in {"generate", "save"}
               PROVE  /\ results[job.id] = NULL
                      /\ publications[job.id] = NULL
                      /\ MarkedNotes(job.id) = {}
    BY DEF NoWastedReview
  <2>1. job.id \in Identity /\ HasState(job.id, "running") /\ results[job.id] = NULL
    BY DEF WInv, Memory, Ownership, ResultKnown, Unreviewed, Claimed
  <2>2. publications[job.id] = NULL
    BY <2>1 DEF WInv, IInv, RowInv, HasState
  <2>3. CASE ~DelayedPosts
    BY <2>1, <2>2, <2>3 DEF WInv, SearchHolds, Searched, Unreviewed
  <2>4. CASE ~DatabaseLoss
    <3>1. \A n \in DOMAIN notes : notes[n].identity # job.id
      BY <2>1, <2>4 DEF WInv, NotesShowReview
    <3> QED
      BY <2>1, <2>2, <3>1 DEF MarkedNotes
  <2> QED
    BY <2>3, <2>4
<1> QED
  BY <1>1, WInvInvariance, PTL

\* Waiting for a patch ID starts only while the reserve of claims is left, and only a
\* completion (or the loss of the row) forgets that it was waited for.
THEOREM PatchWaitLeavesClaims == Spec => PatchWaitIsBounded
<1>1. WInv /\ [Next]_vars =>
        [\A i \in Identity :
           /\ jobs[i].patch_status # "pending" /\ jobs'[i].patch_status = "pending"
                => MaxJobAttempts - jobs'[i].attempts >= PatchWaitReserve
           /\ jobs[i].patch_status = "pending" /\ jobs'[i].patch_status = "unknown"
                => jobs'[i].state \in {"completed", "absent"}]_vars
  BY WaitStep DEF WaitBounded
<1> QED
  BY <1>1, WInvInvariance, PTL DEF Spec, PatchWaitIsBounded

\* No job waits in the queue with its claims used up: what the store leaves to
\* its caller, the worker's reserve of claims keeps.  With RunningIsOwned this
\* is what makes every job settle as long as the worker polls.
THEOREM QueuedJobsCanBeClaimed == Spec => []QueuedIsSelectable
<1>1. Init => QueuedHasClaims
  BY DEF Init, InitStore, NoJob, QueuedHasClaims, HasState
<1>2. WInv /\ QueuedHasClaims /\ [Next]_vars => QueuedHasClaims'
  <2> SUFFICES ASSUME WInv, QueuedHasClaims, [Next]_vars PROVE QueuedHasClaims'
    OBVIOUS
  <2>1. CASE UNCHANGED jobs
    BY <2>1 DEF QueuedHasClaims, HasState
  <2>2. CASE LoseDatabase
    BY <2>2 DEF LoseDatabase, NoJob, QueuedHasClaims, HasState
  <2>3. CASE RecoverInterruptedJobs
    <3>1. CASE Identity = {}
      BY <3>1 DEF QueuedHasClaims
    <3>2. ASSUME NEW k \in Identity PROVE QueuedHasClaims'
      BY <2>3, OthersKeepClaims DEF OtherTransaction, WInv, TypeOK
    <3> QED
      BY <3>1, <3>2
  <2>4. ASSUME NEW k \in Identity, OtherTransaction(k) PROVE QueuedHasClaims'
    BY <2>4, OthersKeepClaims DEF WInv, TypeOK
  <2> QED
    BY <2>1, <2>2, <2>3, <2>4, RowsStep, AwaitKeepsClaims
<1>3. QueuedHasClaims => QueuedIsSelectable
  BY DEF QueuedHasClaims, QueuedIsSelectable, Selectable
<1> QED
  BY <1>1, <1>2, <1>3, WInvInvariance, PTL DEF Spec

\* As long as the database is kept, whatever the worker, GitLab, operators,
\* shutdowns and crashes do to the review tables is a behaviour of the store.
THEOREM WorkerKeepsContract == ~DatabaseLoss => (Spec => UsesStore)
<1> SUFFICES ASSUME ~DatabaseLoss PROVE Spec => UsesStore
  OBVIOUS
<1>1. WInv /\ [Next]_vars => [NextStore]_storeVars
  BY StoreStep DEF WInv, LoseDatabase
<1>2. Init => InitStore
  BY DEF Init
<1> QED
  BY <1>1, <1>2, WInvInvariance, PTL DEF Spec, UsesStore, SpecStore

\* Therefore the whole system implements the lifecycle of a revision.
THEOREM SystemImplementsLifecycle == ~DatabaseLoss => (Spec => ImplementsLifecycle)
BY WorkerKeepsContract, StoreImplementsLifecycle DEF UsesStore

\* The tables answer soundly in every run of the system, even one that starts
\* again with an empty database.
THEOREM SystemAnswersSoundly == Spec => [](AliasIntegrity /\ CompletedIffAnswered)
<1>1. WInv => AliasIntegrity /\ CompletedIffAnswered
  BY DEF WInv, IInv, RowInv, AliasIntegrity, CompletedIffAnswered, HasState
<1> QED
  BY <1>1, WInvInvariance, PTL
=============================================================================
