---------------------------- MODULE FeedbackWorker ----------------------------
(***************************************************************************)
(* The feedback worker of internal/feedback: it claims due feedback jobs   *)
(* and derives at most one lesson per merge request.  It shares the        *)
(* database with the review side, which takes any step its contract        *)
(* allows, and with the webhook handler, whose AcceptEvent creates the     *)
(* jobs while merge requests are closed, reopened and pushed to.           *)
(***************************************************************************)
EXTENDS FeedbackJobs, GitLabBroker

CONSTANTS
  MaxStops,    \* bound: how often the process stops
  MaxRetries   \* bound: `jobs retry feedback` commands

ASSUME FeedbackWorkerAssumption == MaxStops \in Nat /\ MaxRetries \in Nat

VARIABLES
  pc,       \* the call the feedback worker makes next; "down": no process
  job,      \* the claimed job in memory
  stops,
  retries

workerVars == <<pc, job, stops, retries>>
vars == <<storeVars, feedbackVars, gitlabVars, workerVars>>

FeedbackClaimed == {"load", "evaluate", "complete", "handleFailure"}

NoClaim == [mr |-> NULL, head |-> NULL, attempts |-> 0, lesson |-> FALSE, err |-> "none"]

Init ==
  /\ InitStore /\ InitFeedback /\ InitGitLab
  /\ pc = "idle" /\ job = NoClaim
  /\ stops = 0 /\ retries = 0

Goto(label) == pc' = label /\ UNCHANGED job
Fail(err) == pc' = "handleFailure" /\ job' = [job EXCEPT !.err = err]
Return == pc' = "idle" /\ job' = NoClaim
Stop == pc' = "down" /\ job' = NoClaim
KeepRun == UNCHANGED <<stops, retries>>
KeepStore == UNCHANGED <<storeVars, feedbackVars>>

\* A claim that fails is rolled back and the worker polls again.
Claim(m) ==
  /\ pc = "idle"
  /\ ClaimFeedbackJob(m)
  /\ pc' = "load"
  /\ job' = [NoClaim EXCEPT !.mr = m, !.head = feedback[m].head,
                            !.attempts = feedback'[m].attempts]
  /\ KeepRun /\ UNCHANGED gitlabVars

Load ==
  /\ pc = "load"
  /\ \E outcome \in LoadFeedback(<<job.mr, job.head>>) :
       IF outcome = "ok" THEN Goto("evaluate") ELSE Fail(outcome)
  /\ KeepRun /\ KeepStore /\ UNCHANGED gitlabVars

\* The memory evaluator, by the failures of its steps: the input is refused,
\* the request fails, or its answer is unreadable.  Otherwise the model decides
\* on a lesson or none.
ValidateInput == {"failed"}
ClassifyGeminiError == {"retry", "failed"}
DecodeResult == {"retry"}
EvaluatorFaults == ValidateInput \cup ClassifyGeminiError \cup DecodeResult
MemoryDecisions == BOOLEAN

\* Decoding the stored review, then the evaluation.
Evaluate ==
  /\ pc = "evaluate"
  /\ \/ \E lesson \in MemoryDecisions :
          pc' = "complete" /\ job' = [job EXCEPT !.lesson = lesson]
     \/ \E err \in EvaluatorFaults : Fail(err)
  /\ KeepRun /\ KeepStore /\ UNCHANGED gitlabVars

\* An error of the completion is an internal, retryable failure, whether the
\* transaction was rolled back or not.
Complete ==
  /\ pc = "complete"
  /\ \/ CompleteFeedbackJob(job.mr, job.lesson) /\ Return
     \/ CompleteFeedbackJob(job.mr, job.lesson) /\ Fail("retry")
     \/ KeepStore /\ Fail("retry")
  /\ KeepRun /\ UNCHANGED gitlabVars

\* Mutant: the failure is only logged.
HandleFailureLogsOnly ==
  /\ pc = "handleFailure"
  /\ Return
  /\ KeepRun /\ KeepStore /\ UNCHANGED gitlabVars

HandleFailure ==
  /\ pc = "handleFailure"
  /\ IF job.err = "failed" THEN FinishFeedbackJob(job.mr) ELSE RetryFeedbackJob(job.mr)
  /\ Return
  /\ KeepRun /\ UNCHANGED gitlabVars

\* The failure cannot be recorded, or the job is not running any more: the
\* service stops.  (Recorded although the call failed is HandleFailure, then
\* StopProcess.)
HandleFailureFails ==
  /\ pc = "handleFailure"
  /\ \/ stops < MaxStops /\ stops' = stops + 1
     \/ ~FeedbackHasState(job.mr, "running") /\ UNCHANGED stops
  /\ Stop
  /\ KeepStore /\ UNCHANGED <<gitlabVars, retries>>

\* Mutant: shutdown puts a claimed job back without charging it.
StopGivesBack ==
  /\ pc \in FeedbackClaimed
  /\ stops < MaxStops
  /\ stops' = stops + 1
  /\ FeedbackHasState(job.mr, "running")
  /\ feedback' = [feedback EXCEPT ![job.mr].state = "queued", ![job.mr].attempts = @ - 1]
  /\ Stop
  /\ UNCHANGED <<storeVars, events, memories, gitlabVars, retries>>

\* Shutdown cancels the worker's context at once: a claimed job stays running.
StopProcess ==
  /\ pc # "down"
  /\ stops < MaxStops
  /\ stops' = stops + 1
  /\ Stop
  /\ KeepStore /\ UNCHANGED <<gitlabVars, retries>>

Restart ==
  /\ pc = "down"
  /\ RecoverAll
  /\ pc' = "idle"
  /\ UNCHANGED <<gitlabVars, job, stops, retries>>

OperatorRetry(m) ==
  /\ retries < MaxRetries
  /\ RetryFailedFeedbackJob(m)
  /\ retries' = retries + 1
  /\ UNCHANGED <<gitlabVars, pc, job, stops>>

Tick(m) == FeedbackBecomesDue(m) /\ UNCHANGED <<gitlabVars, workerVars>>

\* A webhook delivery, possibly late or repeated, about a head that the merge
\* request has or had.
Deliver(d) ==
  /\ pc # "down"
  /\ \/ AcceptIgnored(d)
     \/ \E i \in seen : AcceptReview(d, i)
     \/ \E i \in seen : AcceptFeedback(d, MergeRequestOf(i), HeadOf(i))
  /\ UNCHANGED <<gitlabVars, workerVars>>

ReviewSideStep == pc # "down" /\ ReviewSide /\ UNCHANGED <<gitlabVars, workerVars>>
GitLabMoves == NextGitLab /\ UNCHANGED <<storeVars, feedbackVars, workerVars>>

WorkerStep == Load \/ Evaluate \/ Complete \/ HandleFailure \/ HandleFailureFails

Next ==
  \/ \E m \in MergeRequests : Claim(m) \/ OperatorRetry(m) \/ Tick(m)
  \/ WorkerStep
  \/ StopProcess \/ Restart
  \/ \E d \in Deliveries : Deliver(d)
  \/ ReviewSideStep
  \/ GitLabMoves

Spec == Init /\ [][Next]_vars

(* The goroutine keeps running, its calls return, the service is restarted   *)
(* and time passes.  A claimable job is claimed: nothing else is first in    *)
(* line for ever, since every claim uses up an attempt.                      *)
Fairness ==
  /\ WF_vars(WorkerStep) /\ WF_vars(Restart)
  /\ \A m \in MergeRequests : SF_vars(Claim(m)) /\ WF_vars(Tick(m))

FairSpec == Spec /\ Fairness

-----------------------------------------------------------------------------

\* Type invariant.
TypeOK ==
  /\ TypeOKFeedback
  /\ pc \in {"down", "idle"} \cup FeedbackClaimed
  /\ job \in [mr : MergeRequests \cup {NULL}, head : Heads \cup {NULL},
              attempts : 0 .. MaxJobAttempts, lesson : BOOLEAN,
              err : {"none", "retry", "failed"}]

\* A running feedback job belongs to the living worker, which no error path
\* leaves behind; and it works on the binding the row has.
FeedbackRunningIsOwned ==
  \A m \in MergeRequests :
    FeedbackHasState(m, "running") /\ pc # "down" => /\ pc \in FeedbackClaimed
                                                     /\ job.mr = m
                                                     /\ job.head = feedback[m].head

\* The worker, webhooks, the review side and restarts together do to the
\* tables only what the contract of the feedback store allows.
UsesFeedbackStore == SpecFeedback

\* Liveness: every feedback job is completed or failed in the end; in
\* particular no queued job blocks the line.
FeedbackSettles ==
  \A m \in MergeRequests :
    FeedbackHasState(m, "queued") ~> feedback[m].state \in {"completed", "failed"}
=============================================================================
