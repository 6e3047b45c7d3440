------------------------------ MODULE ReviewJobs ------------------------------
(***************************************************************************)
(* The review tables of internal/store: review_jobs, review_results,       *)
(* review_findings and publications.  Every action is one transaction of   *)
(* the store and carries the guard of its SQL statement, so the module is  *)
(* the contract that the store keeps towards ANY caller; what the review   *)
(* worker adds to it is in ReviewWorker.                                   *)
(*                                                                         *)
(* A row is found by its review identity (merge request, head SHA), which  *)
(* the schema makes UNIQUE; instance and project are part of the merge     *)
(* request.  A deadline (next_attempt_at) is abstracted to the flag due:   *)
(* whether it has passed.  Error texts, CI status texts, timestamps and    *)
(* the memory-retrieval audit rows are left out.  A validated review is    *)
(* represented by its number of findings.                                  *)
(***************************************************************************)
EXTENDS Integers, Identities

CONSTANTS
  NoteIDs,         \* ids GitLab may give to a note
  MaxFindings,     \* most findings of one review (20 in the code)
  MaxJobAttempts,  \* claims per job (5 in the code)
  GracePeriod      \* is the grace_period of a new job positive?

ASSUME ReviewJobsAssumption ==
  /\ MaxJobAttempts \in Nat \ {0}
  /\ MaxFindings \in Nat
  /\ GracePeriod \in BOOLEAN
  /\ NULL \notin NoteIDs
  /\ NULL \notin Nat

JobState == {"absent", "queued", "running", "completed", "failed", "obsolete"}
PatchIDStatus == {"unknown", "pending", "available", "unavailable"}

\* A row of review_jobs; the state "absent" stands for no such row.
Job == [id            : Nat,
        state         : JobState,
        attempts      : 0 .. MaxJobAttempts,
        due           : BOOLEAN,
        waiting_on_ci : BOOLEAN,
        patch_status  : PatchIDStatus,
        patch_sha     : PatchIDs \cup {NULL},
        equivalent_to : Identity \cup {NULL}]

VARIABLES
  jobs,          \* review_jobs
  lastID,        \* the rowid given last
  results,       \* review_results: the number of findings of the stored review
  findings,      \* review_findings: how many rows the job has
  publications   \* publications: the note recorded for the job

storeVars == <<jobs, lastID, results, findings, publications>>

NoJob == [id |-> 0, state |-> "absent", attempts |-> 0, due |-> FALSE,
          waiting_on_ci |-> FALSE, patch_status |-> "unknown",
          patch_sha |-> NULL, equivalent_to |-> NULL]

InitStore ==
  /\ jobs = [i \in Identity |-> NoJob]
  /\ lastID = 0
  /\ results = [i \in Identity |-> NULL]
  /\ findings = [i \in Identity |-> 0]
  /\ publications = [i \in Identity |-> NULL]

-----------------------------------------------------------------------------
(* Row predicates the statements share. *)

HasState(i, s) == jobs[i].state = s

\* A job the worker may select: queued, claims left, deadline passed.
Selectable(i) ==
  /\ HasState(i, "queued")
  /\ jobs[i].attempts < MaxJobAttempts
  /\ jobs[i].due

\* A job whose published review may stand for another head of the same MR.
Canonical(c, sha) ==
  /\ HasState(c, "completed")
  /\ jobs[c].patch_status = "available"
  /\ jobs[c].patch_sha = sha
  /\ jobs[c].equivalent_to = NULL
  /\ results[c] # NULL
  /\ publications[c] # NULL

\* FindCanonicalReviewJob: the newest canonical job of the same merge request.
FindCanonicalReviewJob(i, sha) ==
  {c \in Identity \ {i} :
     /\ MergeRequestOf(c) = MergeRequestOf(i)
     /\ Canonical(c, sha)
     /\ \A d \in Identity \ {i} :
          (MergeRequestOf(d) = MergeRequestOf(i) /\ Canonical(d, sha))
             => jobs[d].id <= jobs[c].id}

-----------------------------------------------------------------------------
(* Transactions. *)

\* createReviewJob, for a webhook event or a reconciled merge request.  An
\* existing row of the identity is left alone, whatever its state.
CreateReviewJob(i) ==
  /\ HasState(i, "absent")
  /\ lastID' = lastID + 1
  /\ jobs' = [jobs EXCEPT ![i] = [NoJob EXCEPT !.id = lastID + 1,
                                               !.state = "queued",
                                               !.due = ~GracePeriod]]
  /\ UNCHANGED <<results, findings, publications>>

\* The clock reaches the row's next_attempt_at.
BecomeDue(i) ==
  /\ HasState(i, "queued")
  /\ ~jobs[i].due
  /\ jobs' = [jobs EXCEPT ![i].due = TRUE]
  /\ UNCHANGED <<lastID, results, findings, publications>>

\* Mutant: one claim too many before a job counts as failed.
RequeuedOffByOne(row, due) ==
  IF row.attempts > MaxJobAttempts
  THEN [row EXCEPT !.state = "failed"]
  ELSE [row EXCEPT !.state = "queued", !.due = due]

\* What a retry does to a running row: back to the queue while claims are
\* left (due now or later), failed otherwise, with its deadline kept.
Requeued(row, due) ==
  IF row.attempts >= MaxJobAttempts
  THEN [row EXCEPT !.state = "failed"]
  ELSE [row EXCEPT !.state = "queued", !.due = due]

\* RecoverInterruptedJobs, at service startup before the workers begin.
RecoverInterruptedJobs ==
  /\ jobs' = [i \in Identity |-> IF HasState(i, "running")
                                 THEN Requeued(jobs[i], TRUE)
                                 ELSE jobs[i]]
  /\ UNCHANGED <<lastID, results, findings, publications>>

\* Mutant: the claim is not charged.
ClaimUncharged(i) ==
  /\ Selectable(i)
  /\ jobs' = [jobs EXCEPT ![i].state = "running", ![i].waiting_on_ci = FALSE]
  /\ UNCHANGED <<lastID, results, findings, publications>>

ClaimSelectedJob(i) ==
  /\ Selectable(i)
  /\ jobs' = [jobs EXCEPT ![i].state = "running",
                       ![i].attempts = @ + 1,
                       ![i].waiting_on_ci = FALSE]
  /\ UNCHANGED <<lastID, results, findings, publications>>

DeferCI(i) ==
  /\ Selectable(i)
  /\ results[i] = NULL
  /\ jobs' = [jobs EXCEPT ![i].waiting_on_ci = TRUE,
                       ![i].due = FALSE]
  /\ UNCHANGED <<lastID, results, findings, publications>>

DeferPendingPatchID(i) ==
  /\ HasState(i, "running")
  /\ jobs[i].patch_status = "unknown"
  /\ jobs' = [jobs EXCEPT ![i].state = "queued",
                       ![i].patch_status = "pending",
                       ![i].patch_sha = NULL,
                       ![i].due = FALSE]
  /\ UNCHANGED <<lastID, results, findings, publications>>

\* Mutant: any other completed job of the merge request will do.
CompleteEquivalentToAny(i, c, sha) ==
  /\ HasState(i, "running")
  /\ results[i] = NULL
  /\ i # c
  /\ MergeRequestOf(i) = MergeRequestOf(c)
  /\ HasState(c, "completed")
  /\ jobs' = [jobs EXCEPT ![i].state = "completed",
                       ![i].patch_status = "available",
                       ![i].patch_sha = sha,
                       ![i].equivalent_to = c]
  /\ UNCHANGED <<lastID, results, findings, publications>>

\* Source and canonical are validated in the transaction that links them.
CompleteEquivalentReview(i, c, sha) ==
  /\ HasState(i, "running")
  /\ jobs[i].patch_status \in {"unknown", "pending"}
  /\ jobs[i].patch_sha = NULL
  /\ jobs[i].equivalent_to = NULL
  /\ results[i] = NULL
  /\ publications[i] = NULL
  /\ i # c
  /\ MergeRequestOf(i) = MergeRequestOf(c)
  /\ Canonical(c, sha)
  /\ jobs' = [jobs EXCEPT ![i].state = "completed",
                       ![i].patch_status = "available",
                       ![i].patch_sha = sha,
                       ![i].equivalent_to = c]
  /\ UNCHANGED <<lastID, results, findings, publications>>

\* validReviewPatchID: a result is stored with a settled patch identity.
ValidReviewPatchID(status, sha) ==
  \/ status = "available" /\ sha \in PatchIDs
  \/ status = "unavailable" /\ sha = NULL

\* SaveReviewResult.  The result insert does nothing on conflict; the finding
\* inserts fail on the primary key when the job has findings already, and
\* roll everything back.
SaveReviewResult(i, n, status, sha) ==
  /\ ValidReviewPatchID(status, sha)
  /\ n = 0 \/ findings[i] = 0
  /\ HasState(i, "running")
  /\ jobs[i].equivalent_to = NULL
  /\ results' = [results EXCEPT ![i] = IF @ = NULL THEN n ELSE @]
  /\ findings' = [findings EXCEPT ![i] = @ + n]
  /\ jobs' = [jobs EXCEPT ![i].patch_status = status,
                       ![i].patch_sha = sha]
  /\ UNCHANGED <<lastID, publications>>

RetryJob(i) ==
  /\ HasState(i, "running")
  /\ jobs' = [jobs EXCEPT ![i] = Requeued(@, FALSE)]
  /\ UNCHANGED <<lastID, results, findings, publications>>

\* Mutant: the row's state is not checked.
FinishAnyJob(i, state) ==
  /\ state \in {"failed", "obsolete"}
  /\ ~HasState(i, "absent")
  /\ jobs' = [jobs EXCEPT ![i].state = state]
  /\ UNCHANGED <<lastID, results, findings, publications>>

FinishJob(i, state) ==
  /\ state \in {"failed", "obsolete"}
  /\ HasState(i, "running")
  /\ jobs' = [jobs EXCEPT ![i].state = state]
  /\ UNCHANGED <<lastID, results, findings, publications>>

\* Mutant: the publication is recorded without completing the job.
RecordPublicationOnly(i, note) ==
  /\ HasState(i, "running")
  /\ publications' = [publications EXCEPT ![i] = note]
  /\ UNCHANGED <<jobs, lastID, results, findings>>

\* CompletePublication: the publication record and the completed state commit
\* together.  A note found without a local result forgets the patch identity.
CompletePublication(i, note) ==
  /\ HasState(i, "running")
  /\ jobs[i].equivalent_to = NULL
  /\ publications' = [publications EXCEPT ![i] = note]
  /\ jobs' = [jobs EXCEPT ![i] =
                IF results[i] # NULL
                THEN [@ EXCEPT !.state = "completed"]
                ELSE [@ EXCEPT !.state = "completed",
                               !.patch_status = "unknown",
                               !.patch_sha = NULL]]
  /\ UNCHANGED <<lastID, results, findings>>

\* Mutant: completed jobs may be retried as well.
RetryFinishedReviewJob(i) ==
  /\ jobs[i].state \in {"failed", "completed"}
  /\ jobs' = [jobs EXCEPT ![i].state = "queued",
                       ![i].attempts = 0,
                       ![i].due = TRUE]
  /\ UNCHANGED <<lastID, results, findings, publications>>

\* RetryFailedReviewJob: `wormtamer jobs retry review <id>`.
RetryFailedReviewJob(i) ==
  /\ HasState(i, "failed")
  /\ jobs' = [jobs EXCEPT ![i].state = "queued",
                       ![i].attempts = 0,
                       ![i].due = TRUE]
  /\ UNCHANGED <<lastID, results, findings, publications>>

NextStore ==
  \/ RecoverInterruptedJobs
  \/ \E i \in Identity :
       \/ CreateReviewJob(i)
       \/ BecomeDue(i)
       \/ ClaimSelectedJob(i)
       \/ DeferCI(i)
       \/ DeferPendingPatchID(i)
       \/ \E c \in Identity, sha \in PatchIDs : CompleteEquivalentReview(i, c, sha)
       \/ \E n \in 0 .. MaxFindings, status \in PatchIDStatus, sha \in PatchIDs \cup {NULL} :
            SaveReviewResult(i, n, status, sha)
       \/ RetryJob(i)
       \/ \E state \in {"failed", "obsolete"} : FinishJob(i, state)
       \/ \E note \in NoteIDs : CompletePublication(i, note)
       \/ RetryFailedReviewJob(i)

SpecStore == InitStore /\ [][NextStore]_storeVars

-----------------------------------------------------------------------------
(* What the tables promise, whoever calls the store. *)

\* Type invariant of the review tables.
TypeOKStore ==
  /\ jobs \in [Identity -> Job]
  /\ lastID \in Nat
  /\ results \in [Identity -> (0 .. MaxFindings) \cup {NULL}]
  /\ findings \in [Identity -> 0 .. MaxFindings]
  /\ publications \in [Identity -> NoteIDs \cup {NULL}]

\* The CHECK constraints of the schema: no statement of the store can fail on
\* one of them, because no transition asks for a row they reject.
SchemaChecks ==
  \A i \in Identity :
    /\ jobs[i].patch_status = "available" <=> jobs[i].patch_sha # NULL
    /\ jobs[i].equivalent_to # NULL => /\ jobs[i].equivalent_to # i
                                       /\ jobs[i].patch_status = "available"

\* An equivalent revision answers through a canonical job of the same merge
\* request and patch that is completed with a review and a publication of its
\* own and is no alias itself (so aliases form no chains), and keeps doing so
\* for ever although the canonical job was only validated once.
AliasIntegrity ==
  \A i \in Identity :
    LET c == jobs[i].equivalent_to IN
    c # NULL => /\ HasState(i, "completed")
                /\ results[i] = NULL
                /\ publications[i] = NULL
                /\ MergeRequestOf(c) = MergeRequestOf(i)
                /\ Canonical(c, jobs[i].patch_sha)

\* A job is completed exactly when its revision is answered: by a recorded
\* publication of its own or by its canonical job, never by both.
CompletedIffAnswered ==
  \A i \in Identity :
    /\ HasState(i, "completed")
         <=> (publications[i] # NULL \/ jobs[i].equivalent_to # NULL)
    /\ publications[i] = NULL \/ jobs[i].equivalent_to = NULL

\* A stored review settles its job's patch identity for ever, so that a retry
\* can neither wait for the patch ID again nor turn the job into an alias.
ResultSettlesPatch ==
  \A i \in Identity :
    results[i] # NULL => jobs[i].patch_status \in {"available", "unavailable"}

\* Action property: completed and obsolete rows never change again, and a
\* stored review, once written, is never replaced (a repeated checkpoint, a
\* recovery or an operator's retry leaves it as it is).
SettledForever ==
  [][\A i \in Identity :
       /\ jobs[i].state \in {"completed", "obsolete"}
            => /\ jobs'[i] = jobs[i]
               /\ publications'[i] = publications[i]
       /\ results[i] # NULL => results'[i] = results[i]]_storeVars

\* The job begins to run: it is claimed from the queue.
BeginsToRun(i) == jobs[i].state = "queued" /\ jobs'[i].state = "running"

\* The operator puts the failed job back.
IsPutBack(i) == jobs[i].state = "failed" /\ jobs'[i].state = "queued"

\* Action property: the claims of a job are counted.  A job begins to run only
\* from the queue, and each time this adds one claim; nothing else changes the
\* count but the operator's retry of a failed job, which forgets it; and no job
\* runs on more claims than it may have, or on none.
ClaimsAreCounted ==
  [][\A i \in Identity :
       /\ jobs[i].state # "running" /\ jobs'[i].state = "running" => BeginsToRun(i)
       /\ jobs'[i].attempts = (IF BeginsToRun(i) THEN jobs[i].attempts + 1
                               ELSE IF IsPutBack(i) THEN 0 ELSE jobs[i].attempts)
       /\ jobs'[i].state = "running" => jobs'[i].attempts \in 1 .. MaxJobAttempts]_storeVars

-----------------------------------------------------------------------------
(* The abstract lifecycle that the tables implement. *)

\* The revision's place in the abstract lifecycle.
StatusOf(i) ==
  CASE jobs[i].state \in {"queued", "running"} -> "pending"
    [] jobs[i].state = "completed" -> "answered"
    [] OTHER -> jobs[i].state

\* The revision whose publication answers it.
AnswerOf(i) ==
  CASE publications[i] # NULL -> i
    [] OTHER -> jobs[i].equivalent_to

InOneMR(i, c) == MergeRequestOf(i) = MergeRequestOf(c)

Lifecycle == INSTANCE ReviewLifecycle
  WITH Revisions <- Identity, SameMR <- InOneMR, Nobody <- NULL,
       status <- [i \in Identity |-> StatusOf(i)],
       answer <- [i \in Identity |-> AnswerOf(i)]

\* The tables implement the abstract lifecycle: an answered revision stays
\* answered by the same published review, whatever the store is asked to do.
ImplementsLifecycle == Lifecycle!Spec
=============================================================================
