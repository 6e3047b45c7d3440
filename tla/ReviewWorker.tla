----------------------------- MODULE ReviewWorker -----------------------------
(***************************************************************************)
(* The review worker of internal/worker over the review tables and GitLab: *)
(* the one process that selects, claims and executes review jobs.  A step  *)
(* is one call to the store, to GitLab or to the reviewer; between two     *)
(* steps GitLab changes, operators retry failed jobs, time passes and the  *)
(* process may be stopped.                                                 *)
(*                                                                         *)
(* The variable job holds what the code keeps in memory between the calls: *)
(* the claimed row as it was read, the validated result, the note found or *)
(* posted, the loaded patch identity and the pending error.                *)
(***************************************************************************)
EXTENDS ReviewJobs, GitLabBroker

CONSTANTS
  WaitOnCI,          \* the wait_on_ci setting
  PatchWaitReserve,  \* claims that waiting for a patch ID must leave (3 in the code)
  DatabaseLoss,      \* may the operator start again with an empty database?
  MaxStops,          \* bound: stops of the process and losses of the database
  MaxRetries         \* bound: `jobs retry review` commands

ASSUME WorkerAssumption ==
  /\ WaitOnCI \in BOOLEAN /\ DatabaseLoss \in BOOLEAN
  /\ PatchWaitReserve \in Nat \ {0}
  /\ MaxStops \in Nat /\ MaxRetries \in Nat
  /\ NoteIDs = 1 .. MaxNotes

VARIABLES
  pc,        \* the call the worker makes next; "down" when no process runs
  job,       \* the worker's memory of the selected or claimed job
  draining,  \* shutdown was requested: admission is cancelled
  stops,     \* how often the process stopped or the database was lost
  retries    \* how often an operator retried a job

workerVars == <<pc, job, draining, stops, retries>>
vars == <<storeVars, gitlabVars, workerVars>>

Preflight == {"findNote", "checkCI", "deferCI", "claim"}
Claimed == {"recoverNote", "load", "deferPatch", "findCanonical", "checkAlias",
            "completeAlias", "generate", "save", "checkCurrent", "searchNote",
            "recheckCurrent", "postNote", "complete", "handleFailure"}
PC == {"down", "idle"} \cup Preflight \cup Claimed

WorkerJob ==
  [id : Identity \cup {NULL}, attempts : 0 .. MaxJobAttempts,
   patch_status : PatchIDStatus, patch_sha : PatchIDs \cup {NULL},
   canonical : Identity \cup {NULL},
   result : (0 .. MaxFindings) \cup {NULL}, note : NoteIDs \cup {NULL},
   err : {"none", "retry", "failed", "obsolete"}]

\* A note as RenderNote makes it, for the identity in its marker.
Note == [identity : Identity, result : (0 .. MaxFindings) \cup {NULL}, late : BOOLEAN]

NoSelection == [id |-> NULL, attempts |-> 0, patch_status |-> "unknown",
                patch_sha |-> NULL, canonical |-> NULL, result |-> NULL,
                note |-> NULL, err |-> "none"]

InitWorker ==
  /\ pc = "idle"
  /\ job = NoSelection
  /\ draining = FALSE
  /\ stops = 0
  /\ retries = 0

Init == InitStore /\ InitGitLab /\ InitWorker

-----------------------------------------------------------------------------
(* Control. *)

Goto(label) == pc' = label /\ UNCHANGED job

\* execute returns an error: handleFailure runs next.
Fail(err) == pc' = "handleFailure" /\ job' = [job EXCEPT !.err = err]

\* processDue returns nil: Run polls again, or ends when shutting down.
Return == pc' = (IF draining THEN "down" ELSE "idle") /\ job' = NoSelection

\* processDue returns an error: Run returns it and the service stops.
Abort ==
  /\ stops < MaxStops
  /\ pc' = "down" /\ job' = NoSelection /\ stops' = stops + 1

KeepRun == UNCHANGED <<draining, stops, retries>>

\* A store call that reports an error: its transaction was rolled back, or
\* committed without the worker learning of it.
Uncertain(call) == call \/ UNCHANGED storeVars

\* CheckCurrent, with what follows when the identity is still current.
StillCurrent(next) ==
  /\ \E outcome \in CheckCurrent(job.id) :
       IF outcome = "ok" THEN Goto(next) ELSE Fail(outcome)
  /\ KeepRun /\ UNCHANGED <<storeVars, gitlabVars>>

\* A store call of execute: on success the worker goes on, any other error
\* is the retryable persistence_failed.
Checkpoint(call) == \/ call /\ Return
                    \/ Uncertain(call) /\ Fail("retry")
-----------------------------------------------------------------------------
(* Run and processDue: selection, uncharged preflight, claim. *)

\* NextJob.  The choice among due jobs is by deadline; see the fairness below.
Select(i) ==
  /\ pc = "idle" /\ ~draining
  /\ Selectable(i)
  /\ pc' = (IF results[i] = NULL THEN "findNote" ELSE "claim")
  /\ job' = [NoSelection EXCEPT !.id = i]
  /\ KeepRun /\ UNCHANGED <<storeVars, gitlabVars>>

\* Mutant: no search for an existing note before the claim.
PreflightSkipsNote ==
  /\ pc = "findNote"
  /\ Goto(IF WaitOnCI THEN "checkCI" ELSE "claim")
  /\ KeepRun /\ UNCHANGED <<storeVars, gitlabVars>>

PreflightFindNote ==
  /\ pc = "findNote"
  /\ \/ /\ job' = [job EXCEPT !.note = FindNote(job.id)]
        /\ pc' = (IF WaitOnCI /\ FindNote(job.id) = NULL THEN "checkCI" ELSE "claim")
     \/ \E err \in RequestFaults :
          pc' = "claim" /\ job' = [job EXCEPT !.err = err]
  /\ KeepRun /\ UNCHANGED <<storeVars, gitlabVars>>

PreflightCheckCI ==
  /\ pc = "checkCI"
  /\ \E outcome \in CheckCI(job.id) :
       CASE outcome = "green"     -> Goto("claim")
         [] outcome = "not_green" -> Goto("deferCI")
         [] OTHER -> pc' = "claim" /\ job' = [job EXCEPT !.err = outcome]
  /\ KeepRun /\ UNCHANGED <<storeVars, gitlabVars>>

\* Mutant: after a store error the deferral is tried again.
DeferCIAgain ==
  /\ pc = "deferCI"
  /\ \/ DeferCI(job.id) /\ Return
     \/ Uncertain(DeferCI(job.id)) /\ Goto("deferCI")
  /\ KeepRun /\ UNCHANGED gitlabVars

\* A store error turns into a charged, retryable failure; a job that is not
\* due any more (ErrJobNotDue) would stop the service.
PreflightDeferCI ==
  /\ pc = "deferCI"
  /\ \/ DeferCI(job.id) /\ Return
     \/ /\ Uncertain(DeferCI(job.id))
        /\ pc' = "claim" /\ job' = [job EXCEPT !.err = "retry"]
  /\ KeepRun /\ UNCHANGED gitlabVars

\* Mutant: a stored result is not used.
FirstCallIgnoresResult(i, note, err) ==
  IF err # "none" THEN "handleFailure"
  ELSE IF note # NULL THEN "recoverNote" ELSE "load"

\* What execute does first with a freshly claimed job.
FirstCall(i, note, err) ==
  IF err # "none" THEN "handleFailure"
  ELSE IF note # NULL THEN "recoverNote"
  ELSE IF results[i] = NULL THEN "load" ELSE "checkCurrent"

\* ClaimSelectedJob returns the row, the stored result and its findings, whose
\* numbers must agree (applyFindingIDs).
Claim ==
  /\ pc = "claim" /\ ~draining
  /\ ClaimSelectedJob(job.id)
  /\ LET i   == job.id
         err == IF job.err = "none" /\ results[i] # NULL /\ findings[i] # results[i]
                THEN "failed" ELSE job.err
     IN /\ job' = [job EXCEPT !.attempts = jobs'[i].attempts,
                              !.patch_status = jobs[i].patch_status,
                              !.result = results[i],
                              !.err = err]
        /\ pc' = FirstCall(i, job.note, err)
  /\ KeepRun /\ UNCHANGED gitlabVars

\* Shutdown before the claim leaves the job queued and uncharged.
ClaimNotAdmitted ==
  /\ pc = "claim" /\ draining
  /\ Return
  /\ KeepRun /\ UNCHANGED <<storeVars, gitlabVars>>

\* No row to claim (a CI deferral was committed after all): nothing happens.
ClaimMisses ==
  /\ pc = "claim" /\ ~draining
  /\ ~Selectable(job.id)
  /\ Return
  /\ KeepRun /\ UNCHANGED <<storeVars, gitlabVars>>

\* The claim fails, or its commit does: the service stops.
ClaimFails ==
  /\ pc = "claim" /\ ~draining
  /\ Uncertain(ClaimSelectedJob(job.id))
  /\ Abort
  /\ UNCHANGED <<gitlabVars, draining, retries>>

-----------------------------------------------------------------------------
(* execute. *)

\* The preflight found the marked note: confirm the head, then record it.
RecoverNote == pc = "recoverNote" /\ StillCurrent("complete")

\* Mutant: no claims are reserved for the review itself.
MayAlwaysAwaitPatch == job.patch_status = "unknown"

\* LoadReview.  The first pending patch ID is waited for when enough claims
\* are left; otherwise it counts as unavailable.
MayAwaitPatch ==
  /\ job.patch_status = "unknown"
  /\ MaxJobAttempts - job.attempts >= PatchWaitReserve

LoadReview ==
  /\ pc = "load"
  /\ \/ /\ Current(job.id)
        /\ \E patch \in PatchIDOutcomes(job.id) :
             CASE patch[1] = "pending" /\ MayAwaitPatch -> Goto("deferPatch")
               [] patch[1] = "available" ->
                    /\ pc' = "findCanonical"
                    /\ job' = [job EXCEPT !.patch_sha = patch[2]]
               [] OTHER -> Goto("generate")
     \/ ~Current(job.id) /\ Fail("obsolete")
     \/ \E err \in RequestFaults : Fail(err)
  /\ KeepRun /\ UNCHANGED <<storeVars, gitlabVars>>

AwaitPatch ==
  /\ pc = "deferPatch"
  /\ Checkpoint(DeferPendingPatchID(job.id))
  /\ KeepRun /\ UNCHANGED gitlabVars

LookUpCanonical ==
  /\ pc = "findCanonical"
  /\ \/ /\ FindCanonicalReviewJob(job.id, job.patch_sha) = {}
        /\ Goto("generate")
     \/ \E c \in FindCanonicalReviewJob(job.id, job.patch_sha) :
          pc' = "checkAlias" /\ job' = [job EXCEPT !.canonical = c]
     \/ Fail("retry")
  /\ KeepRun /\ UNCHANGED <<storeVars, gitlabVars>>

CheckAlias == pc = "checkAlias" /\ StillCurrent("completeAlias")

CompleteAlias ==
  /\ pc = "completeAlias"
  /\ Checkpoint(CompleteEquivalentReview(job.id, job.canonical, job.patch_sha))
  /\ KeepRun /\ UNCHANGED gitlabVars

\* ListReviewMemories, Prepare, Review and the workspace's Close, up to the
\* validated result in memory; Prepare notices a head that moved.
Generate ==
  /\ pc = "generate"
  /\ \/ \E n \in 0 .. MaxFindings : pc' = "save" /\ job' = [job EXCEPT !.result = n]
     \/ mrs[MergeRequestOf(job.id)].head # HeadOf(job.id) /\ Fail("obsolete")
     \/ \E err \in RequestFaults : Fail(err)
  /\ KeepRun /\ UNCHANGED <<storeVars, gitlabVars>>

SaveResult ==
  LET save == SaveReviewResult(job.id, job.result,
                IF job.patch_sha = NULL THEN "unavailable" ELSE "available",
                job.patch_sha)
  IN /\ pc = "save"
     /\ \/ save /\ Goto("checkCurrent")
        \/ Uncertain(save) /\ Fail("retry")
     /\ KeepRun /\ UNCHANGED gitlabVars

CheckBeforeSearch == pc = "checkCurrent" /\ StillCurrent("searchNote")

\* Mutant: the search before the POST is left out.
SearchNoteSkipped ==
  /\ pc = "searchNote"
  /\ Goto("recheckCurrent")
  /\ KeepRun /\ UNCHANGED <<storeVars, gitlabVars>>

SearchNote ==
  /\ pc = "searchNote"
  /\ \/ /\ job' = [job EXCEPT !.note = FindNote(job.id)]
        /\ pc' = (IF FindNote(job.id) = NULL THEN "recheckCurrent" ELSE "complete")
     \/ \E err \in RequestFaults : Fail(err)
  /\ KeepRun /\ UNCHANGED <<storeVars, gitlabVars>>

CheckBeforePost == pc = "recheckCurrent" /\ StillCurrent("postNote")

\* RenderNote and PostNote.  The note is created and its id returned; or the
\* request fails before it has an effect, after it (the answer is lost or
\* unusable), or while GitLab is still about to create the note.
PostNote ==
  LET note == [identity |-> job.id, result |-> job.result, late |-> FALSE]
  IN /\ pc = "postNote"
     /\ \/ /\ AddNote(note)
           /\ UNCHANGED inflight
           /\ \/ pc' = "complete" /\ job' = [job EXCEPT !.note = Len(notes) + 1]
              \/ \E err \in RequestFaults : Fail(err)
        \/ /\ UNCHANGED <<notes, inflight>>
           /\ \E err \in RequestFaults : Fail(err)
        \/ /\ DelayedPosts
           /\ inflight' = inflight \cup {note}
           /\ UNCHANGED notes
           /\ Fail("retry")
     /\ KeepRun /\ UNCHANGED <<storeVars, mrs, seen, moves>>

Complete ==
  /\ pc = "complete"
  /\ Checkpoint(CompletePublication(job.id, job.note))
  /\ KeepRun /\ UNCHANGED gitlabVars

\* handleFailure: finish the job for good or schedule its retry.
Settle(i, err) ==
  CASE err = "obsolete" -> FinishJob(i, "obsolete")
    [] err = "failed"   -> FinishJob(i, "failed")
    [] OTHER            -> RetryJob(i)

\* Mutant: the failure is only logged.
HandleFailureLogsOnly ==
  /\ pc = "handleFailure"
  /\ Return
  /\ KeepRun /\ UNCHANGED <<storeVars, gitlabVars>>

HandleFailure ==
  /\ pc = "handleFailure"
  /\ Settle(job.id, job.err) /\ Return
  /\ KeepRun /\ UNCHANGED gitlabVars

\* The failure cannot be recorded, or the row is not running any more because
\* an earlier commit went through unnoticed: the service stops.
HandleFailureFails ==
  /\ pc = "handleFailure"
  /\ \/ Uncertain(Settle(job.id, job.err)) /\ Abort
     \/ /\ ~HasState(job.id, "running")
        /\ pc' = "down" /\ job' = NoSelection
        /\ UNCHANGED <<storeVars, stops>>
  /\ UNCHANGED <<gitlabVars, draining, retries>>

Execute ==
  \/ RecoverNote \/ LoadReview \/ AwaitPatch \/ LookUpCanonical \/ CheckAlias
  \/ CompleteAlias \/ Generate \/ SaveResult \/ CheckBeforeSearch \/ SearchNote
  \/ CheckBeforePost \/ PostNote \/ Complete \/ HandleFailure \/ HandleFailureFails

-----------------------------------------------------------------------------
(* The process and everybody else. *)

\* SIGTERM: no new claims; claimed work may finish, an idle worker ends.
Shutdown ==
  /\ pc # "down" /\ ~draining
  /\ stops < MaxStops
  /\ stops' = stops + 1
  /\ draining' = TRUE
  /\ IF pc = "idle" THEN Goto("down") ELSE UNCHANGED <<pc, job>>
  /\ UNCHANGED <<storeVars, gitlabVars, retries>>

\* The grace period of the shutdown ends: the job context is cancelled and the
\* worker returns, leaving a claimed job running.
Abandon ==
  /\ draining /\ pc # "down"
  /\ pc' = "down" /\ job' = NoSelection
  /\ KeepRun /\ UNCHANGED <<storeVars, gitlabVars>>

Crash ==
  /\ pc # "down"
  /\ Abort
  /\ UNCHANGED <<storeVars, gitlabVars, draining, retries>>

\* Startup: RecoverInterruptedJobs commits before any worker runs.
Restart ==
  /\ pc = "down"
  /\ RecoverInterruptedJobs
  /\ pc' = "idle" /\ draining' = FALSE
  /\ UNCHANGED <<gitlabVars, job, stops, retries>>

\* The operator replaces the database while no process runs.
LoseDatabase ==
  /\ DatabaseLoss /\ pc = "down"
  /\ stops < MaxStops
  /\ stops' = stops + 1
  /\ jobs' = [i \in Identity |-> NoJob] /\ lastID' = 0
  /\ results' = [i \in Identity |-> NULL]
  /\ findings' = [i \in Identity |-> 0]
  /\ publications' = [i \in Identity |-> NULL]
  /\ UNCHANGED <<gitlabVars, pc, job, draining, retries>>

\* Mutant: a reported identity is queued again whatever state its job has.
DiscoverAgain(i) ==
  /\ pc # "down"
  /\ i \in seen
  /\ ~HasState(i, "running")
  /\ jobs' = [jobs EXCEPT ![i].state = "queued", ![i].due = TRUE]
  /\ UNCHANGED <<lastID, results, findings, publications, gitlabVars, workerVars>>

\* A webhook, possibly late, or a reconciliation scan reports the identity.
Discover(i) ==
  /\ pc # "down"
  /\ i \in seen
  /\ CreateReviewJob(i)
  /\ UNCHANGED <<gitlabVars, workerVars>>

Tick(i) == BecomeDue(i) /\ UNCHANGED <<gitlabVars, workerVars>>

\* `jobs retry review`, from another process, whether the service runs or not.
OperatorRetry(i) ==
  /\ retries < MaxRetries
  /\ RetryFailedReviewJob(i)
  /\ retries' = retries + 1
  /\ UNCHANGED <<gitlabVars, pc, job, draining, stops>>

GitLabMoves == NextGitLab /\ UNCHANGED <<storeVars, workerVars>>

WorkerStep ==
  \/ PreflightFindNote \/ PreflightCheckCI \/ PreflightDeferCI
  \/ Claim \/ ClaimNotAdmitted \/ ClaimMisses \/ ClaimFails
  \/ Execute

Next ==
  \/ \E i \in Identity : Select(i) \/ Discover(i) \/ Tick(i) \/ OperatorRetry(i)
  \/ WorkerStep
  \/ Shutdown \/ Abandon \/ Crash \/ Restart \/ LoseDatabase
  \/ GitLabMoves

Spec == Init /\ [][Next]_vars

(* Fairness: the goroutine of the worker keeps running and its calls return  *)
(* (every request has a deadline); the container is restarted; time passes;  *)
(* reconciliation scans for ever.  Select(i) is strongly fair because        *)
(* NextJob takes the earliest deadline: a job that is selected and put back  *)
(* gets a deadline in the future, behind every job that is due already.      *)
Fairness ==
  /\ WF_vars(WorkerStep)
  /\ WF_vars(Restart)
  /\ \A i \in Identity : /\ SF_vars(Select(i))
                         /\ WF_vars(Tick(i))
                         /\ WF_vars(Current(i) /\ Discover(i))

FairSpec == Spec /\ Fairness

-----------------------------------------------------------------------------
(* Properties. *)

\* Type invariant of the worker and of GitLab.
TypeOK ==
  /\ TypeOKStore
  /\ mrs \in [MergeRequests -> MergeRequest]
  /\ notes \in Seq(Note)
  /\ Len(notes) <= MaxNotes
  /\ inflight \subseteq Note
  /\ seen \subseteq Identity
  /\ pc \in PC
  /\ job \in WorkerJob
  /\ draining \in BOOLEAN

\* Idempotent publication: no revision ever gets two notes, although the note
\* and its record cannot be committed together, the answer to the POST may be
\* lost, the process may stop anywhere and operators may retry failed jobs.
\* The one exception is a note GitLab creates after the client gave up on its
\* request, which no search can foresee.
AtMostOneNote ==
  \A m, n \in DOMAIN notes :
    notes[m].identity = notes[n].identity => m = n \/ notes[m].late \/ notes[n].late

\* Every note of a revision, the late ones included, shows the one review that
\* was checkpointed before the first POST, and a recorded publication names
\* such a note of exactly that revision: a crash between checkpoint and POST,
\* a lost answer or a retry can at worst repeat a note (see DelayedPosts),
\* never publish a second opinion.
PublishedIsStored ==
  /\ \A note \in {notes[n] : n \in DOMAIN notes} \cup inflight :
       note.result = results[note.identity]
  /\ \A i \in Identity :
       publications[i] # NULL => /\ publications[i] \in DOMAIN notes
                                 /\ notes[publications[i]].identity = i

\* A running row belongs to the job the living worker is executing: no error
\* path of the worker leaves a claimed job behind while the service goes on,
\* so startup recovery is enough to find every interrupted job.
RunningIsOwned ==
  \A i \in Identity :
    HasState(i, "running") /\ pc # "down" => /\ pc \in Claimed
                                             /\ job.id = i
                                             /\ job.attempts = jobs[i].attempts

\* The model is asked for a review only when there is none: neither stored,
\* nor recorded as published, nor visible as a marked note.
NoWastedReview ==
  pc \in {"generate", "save"} => /\ results[job.id] = NULL
                                 /\ publications[job.id] = NULL
                                 /\ MarkedNotes(job.id) = {}

\* The job selected for preflight stays the due, queued and unreviewed row it
\* was, so that its CI deferral cannot miss (ErrJobNotDue stops the service).
SelectionStaysValid ==
  pc \in {"findNote", "checkCI", "deferCI"} =>
    Selectable(job.id) /\ results[job.id] = NULL

\* Action property: waiting for a patch ID consumes at most one claim and
\* leaves the reserve, the next one included.
PatchWaitIsBounded ==
  [][\A i \in Identity :
       /\ jobs[i].patch_status # "pending" /\ jobs'[i].patch_status = "pending"
            => MaxJobAttempts - jobs'[i].attempts >= PatchWaitReserve
       /\ jobs[i].patch_status = "pending" /\ jobs'[i].patch_status = "unknown"
            => jobs'[i].state \in {"completed", "absent"}]_vars

\* The worker, GitLab, operators and crashes together do to the review tables
\* only what the store's contract allows.
UsesStore == SpecStore

\* Liveness: no job is queued or running for ever, so that it is completed,
\* failed or obsolete in the end, unless it waits for CI; also the job that a
\* scan discovers again after the database was lost.
JobsSettle ==
  \A i \in Identity :
    []<>(jobs[i].state \notin {"queued", "running"} \/ jobs[i].waiting_on_ci)

\* Liveness, docs/agents/reliability.md: "must not silently lose a merge
\* request revision".  A revision that stays current is reviewed or visibly
\* failed.
NoRevisionLost ==
  \A i \in Identity :
    <>[]Current(i) => <>(jobs[i].state \in {"completed", "failed"})
=============================================================================
