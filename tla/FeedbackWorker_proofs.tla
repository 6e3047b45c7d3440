------------------------ MODULE FeedbackWorker_proofs ------------------------
(***************************************************************************)
(* Machine-checked proofs about the feedback worker, for every set of      *)
(* merge requests, heads and deliveries, any number of stops, retries and  *)
(* moves, and every bound on the attempts.  What holds of the tables alone *)
(* is in Store_proofs.                                                     *)
(***************************************************************************)
EXTENDS FeedbackWorker, Store_proofs

\* What webhooks may report are revisions.
Reported ==
  /\ mrs \in [MergeRequests -> MergeRequest]
  /\ seen \subseteq Identity

\* The inductive invariant.  Ownership is inductive on its own, because no call
\* of the worker goes back to polling while its row is running.
FWInv ==
  /\ FInv /\ TypeOK /\ Reported
  /\ pc \in FeedbackClaimed => job.mr \in MergeRequests
  /\ FeedbackRunningIsOwned

-----------------------------------------------------------------------------
\* Whatever the worker, webhooks, operators and the review side do is one
\* transaction of the database or none.
LEMMA DatabaseStep ==
  ASSUME FWInv, [Next]_vars
  PROVE  [NextFeedback]_<<storeVars, feedbackVars>>
<1> USE DEF NextFeedback, FWInv, KeepStore
<1>1. ASSUME NEW m \in MergeRequests, Claim(m) \/ OperatorRetry(m) \/ Tick(m)
      PROVE  NextFeedback
  BY <1>1 DEF Claim, OperatorRetry, Tick
<1>2. CASE Load \/ Evaluate \/ HandleFailureFails \/ StopProcess \/ GitLabMoves
  BY <1>2 DEF Load, Evaluate, HandleFailureFails, StopProcess, GitLabMoves
<1>3. CASE Complete
  <2>1. job.mr \in MergeRequests /\ job.lesson \in BOOLEAN
    BY <1>3 DEF Complete, FeedbackClaimed, TypeOK
  <2> QED
    BY <1>3, <2>1 DEF Complete
<1>4. CASE HandleFailure
  BY <1>4 DEF HandleFailure, FeedbackClaimed
<1>5. CASE Restart \/ ReviewSideStep
  BY <1>5 DEF Restart, ReviewSideStep
<1>6. ASSUME NEW d \in Deliveries, Deliver(d) PROVE NextFeedback
  <2>1. ASSUME NEW i \in seen
        PROVE  i \in Identity /\ MergeRequestOf(i) \in MergeRequests /\ HeadOf(i) \in Heads
    BY DEF Reported, Identity, MergeRequestOf, HeadOf
  <2> QED
    BY <1>6, <2>1 DEF Deliver
<1>7. CASE UNCHANGED vars
  BY <1>7 DEF vars
<1> QED
  BY <1>1, <1>2, <1>3, <1>4, <1>5, <1>6, <1>7 DEF Next, WorkerStep

\* GitLab reports only revisions of the configured merge requests.
LEMMA ReportedStays ==
  ASSUME Reported, [Next]_vars
  PROVE  Reported'
<1>1. UNCHANGED gitlabVars \/ NextGitLab
  BY DEF Next, Claim, OperatorRetry, Tick, WorkerStep, Load, Evaluate, Complete, HandleFailure,
         HandleFailureFails, StopProcess, Restart, Deliver, ReviewSideStep, GitLabMoves, vars
<1>2. CASE UNCHANGED gitlabVars
  BY <1>2 DEF gitlabVars, Reported
<1>3. ASSUME NEW m \in MergeRequests, NEW mr \in MergeRequest, Move(m, mr)
      PROVE  Reported'
  BY <1>3 DEF Move, Reported, Identity, MergeRequest
<1>4. ASSUME NEW m \in MergeRequests, Close(m) \/ Reopen(m) \/ \E h \in Heads : Push(m, h)
      PROVE  \E mr \in MergeRequest : Move(m, mr)
  <2>1. mrs[m] \in MergeRequest
    BY DEF Reported
  <2>2. /\ [mrs[m] EXCEPT !.open = FALSE] \in MergeRequest
        /\ [mrs[m] EXCEPT !.open = TRUE] \in MergeRequest
        /\ \A h \in Heads : [mrs[m] EXCEPT !.head = h] \in MergeRequest
    BY <2>1 DEF MergeRequest
  <2> QED
    BY <1>4, <2>2 DEF Close, Reopen, Push
<1>5. ASSUME NEW note \in inflight, Land(note) PROVE Reported'
  BY <1>5 DEF Land, Reported
<1> QED
  BY <1>1, <1>2, <1>3, <1>4, <1>5 DEF NextGitLab

WorkerJob == [mr : MergeRequests \cup {NULL}, head : Heads \cup {NULL},
              attempts : 0 .. MaxJobAttempts, lesson : BOOLEAN,
              err : {"none", "retry", "failed"}]

LEMMA NoClaimTyped == NoClaim \in WorkerJob
BY ReviewJobsAssumption DEF NoClaim, WorkerJob

\* The worker's own variables.
LEMMA WorkerTyped ==
  ASSUME FWInv, FInv', [Next]_vars
  PROVE  /\ pc' \in {"down", "idle"} \cup FeedbackClaimed
         /\ job' \in WorkerJob
         /\ pc' \in FeedbackClaimed => job'.mr \in MergeRequests
<1>1. /\ job \in WorkerJob /\ pc \in {"down", "idle"} \cup FeedbackClaimed
      /\ pc \in FeedbackClaimed => job.mr \in MergeRequests
      /\ feedback \in [MergeRequests -> FeedbackJob]
      /\ feedback' \in [MergeRequests -> FeedbackJob]
  BY DEF FWInv, FInv, TypeOK, TypeOKFeedback, WorkerJob
<1> USE <1>1, NoClaimTyped DEF FeedbackClaimed
<1>2. ASSUME NEW e \in {"retry", "failed"}
      PROVE  [job EXCEPT !.err = e] \in WorkerJob /\ [job EXCEPT !.err = e].mr = job.mr
  BY DEF WorkerJob
<1>3. ASSUME NEW lesson \in BOOLEAN
      PROVE  [job EXCEPT !.lesson = lesson] \in WorkerJob /\ [job EXCEPT !.lesson = lesson].mr = job.mr
  BY DEF WorkerJob
<1>4. ASSUME NEW m \in MergeRequests, Claim(m)
      PROVE  job' \in WorkerJob /\ job'.mr = m /\ pc' = "load"
  <2>1. feedback[m].head \in Heads \cup {NULL} /\ feedback'[m].attempts \in 0 .. MaxJobAttempts
    BY DEF FeedbackJob
  <2>2. job' = [mr |-> m, head |-> feedback[m].head, attempts |-> feedback'[m].attempts,
                lesson |-> FALSE, err |-> "none"]
    BY <1>4 DEF Claim, NoClaim
  <2> QED
    BY <1>4, <2>1, <2>2 DEF Claim, WorkerJob
<1>5. ASSUME NEW m \in MergeRequests, OperatorRetry(m) \/ Tick(m) PROVE UNCHANGED <<pc, job>>
  BY <1>5 DEF OperatorRetry, Tick, workerVars
<1>6. CASE Load
  <2>1. ASSUME NEW o \in LoadFeedback(<<job.mr, job.head>>), o # "ok" PROVE o \in {"retry", "failed"}
    BY <2>1 DEF LoadFeedback, RequestFaults
  <2> QED
    BY <1>2, <1>6, <2>1 DEF Load, Goto, Fail
<1>7. CASE Evaluate
  BY <1>2, <1>3, <1>7 DEF Evaluate, Fail, MemoryDecisions, EvaluatorFaults, ValidateInput,
                          ClassifyGeminiError, DecodeResult
<1>8. CASE Complete
  BY <1>2, <1>8 DEF Complete, Fail, Return
<1>9. CASE HandleFailure \/ HandleFailureFails \/ StopProcess
  BY <1>9 DEF HandleFailure, HandleFailureFails, StopProcess, Return, Stop
<1>10. CASE Restart
  BY <1>10 DEF Restart
<1>11. ASSUME NEW d \in Deliveries, Deliver(d) PROVE UNCHANGED <<pc, job>>
  BY <1>11 DEF Deliver, workerVars
<1>12. CASE ReviewSideStep \/ GitLabMoves \/ UNCHANGED vars
  BY <1>12 DEF ReviewSideStep, GitLabMoves, vars, workerVars
<1> QED
  BY <1>4, <1>5, <1>6, <1>7, <1>8, <1>9, <1>10, <1>11, <1>12 DEF Next, WorkerStep

-----------------------------------------------------------------------------
\* The worker leaves no row running behind.
LEMMA OwnershipStays ==
  ASSUME FWInv, [Next]_vars
  PROVE  FeedbackRunningIsOwned'
<1>1. /\ job \in WorkerJob /\ feedback \in [MergeRequests -> FeedbackJob]
      /\ pc \in FeedbackClaimed => job.mr \in MergeRequests
  BY DEF FWInv, FInv, TypeOK, TypeOKFeedback, WorkerJob
<1>2. ASSUME NEW n \in MergeRequests, feedback[n].state = "running", pc # "down"
      PROVE  pc \in FeedbackClaimed /\ job.mr = n /\ job.head = feedback[n].head
  BY <1>2 DEF FWInv, FeedbackRunningIsOwned, FeedbackHasState
\* The memory is kept and no other row starts to run.
<1>3. ASSUME pc' \in FeedbackClaimed \/ pc' = pc,
             pc # "down",
             job'.mr = job.mr, job'.head = job.head,
             \A n \in MergeRequests : feedback'[n].state = "running" =>
               feedback[n].state = "running" /\ feedback'[n].head = feedback[n].head
      PROVE  FeedbackRunningIsOwned'
  BY <1>2, <1>3 DEF FeedbackRunningIsOwned, FeedbackHasState
\* Nothing is running any more.
<1>4. ASSUME pc \in FeedbackClaimed, feedback'[job.mr].state # "running",
             \A n \in MergeRequests \ {job.mr} : feedback'[n] = feedback[n]
      PROVE  FeedbackRunningIsOwned'
  BY <1>2, <1>4 DEF FeedbackRunningIsOwned, FeedbackHasState, FeedbackClaimed
<1>5. ASSUME pc' = "down" PROVE FeedbackRunningIsOwned'
  BY <1>5 DEF FeedbackRunningIsOwned
<1>6. ASSUME NEW m \in MergeRequests, Claim(m) PROVE FeedbackRunningIsOwned'
  <2>1. \A n \in MergeRequests : feedback[n].state # "running"
    BY <1>2, <1>6 DEF Claim, FeedbackClaimed
  <2>2. feedback'[m].head = feedback[m].head /\ \A n \in MergeRequests \ {m} : feedback'[n] = feedback[n]
    BY <1>1, <1>6 DEF Claim, ClaimFeedbackJob, FeedbackJob
  <2>3. pc' = "load" /\ job'.mr = m /\ job'.head = feedback[m].head
    BY <1>6 DEF Claim, NoClaim
  <2> QED
    BY <2>1, <2>2, <2>3 DEF FeedbackRunningIsOwned, FeedbackHasState, FeedbackClaimed
<1>7. ASSUME NEW m \in MergeRequests, OperatorRetry(m) \/ Tick(m) PROVE FeedbackRunningIsOwned'
  <2>1. UNCHANGED <<pc, job>>
    BY <1>7 DEF OperatorRetry, Tick, workerVars
  <2>2. feedback'[m].state = "queued" /\ \A n \in MergeRequests \ {m} : feedback'[n] = feedback[n]
    BY <1>1, <1>7 DEF OperatorRetry, Tick, RetryFailedFeedbackJob, FeedbackBecomesDue, FeedbackJob,
                      FeedbackHasState
  <2> QED
    BY <1>3, <1>5, <2>1, <2>2
<1>8. CASE Load \/ Evaluate
  <2>1. UNCHANGED feedback /\ pc # "down" /\ pc' \in FeedbackClaimed
    BY <1>8 DEF Load, Evaluate, KeepStore, feedbackVars, Goto, Fail, FeedbackClaimed
  <2>2. job'.mr = job.mr /\ job'.head = job.head
    BY <1>1, <1>8 DEF Load, Evaluate, Goto, Fail, WorkerJob
  <2> QED
    BY <1>3, <2>1, <2>2
<1>9. CASE Complete
  <2>1. CASE CompleteFeedbackJob(job.mr, job.lesson)
    <3>1. pc \in FeedbackClaimed
      BY <1>9 DEF Complete, FeedbackClaimed
    <3>2. /\ feedback'[job.mr].state = "completed"
          /\ \A n \in MergeRequests \ {job.mr} : feedback'[n] = feedback[n]
      BY <1>1, <2>1, <3>1 DEF CompleteFeedbackJob, FeedbackJob
    <3> QED
      BY <1>4, <3>1, <3>2
  <2>2. CASE KeepStore /\ Fail("retry")
    <3>1. UNCHANGED feedback /\ pc # "down" /\ pc' \in FeedbackClaimed
      BY <1>9, <2>2 DEF Complete, KeepStore, feedbackVars, Fail, FeedbackClaimed
    <3>2. job'.mr = job.mr /\ job'.head = job.head
      BY <1>1, <2>2 DEF Fail, WorkerJob
    <3> QED
      BY <1>3, <3>1, <3>2
  <2> QED
    BY <1>9, <2>1, <2>2 DEF Complete
<1>10. CASE HandleFailure
  <2>1. pc \in FeedbackClaimed
    BY <1>10 DEF HandleFailure, FeedbackClaimed
  <2>2. feedback[job.mr] \in FeedbackJob
    BY <1>1, <2>1
  <2>3. /\ feedback'[job.mr].state # "running"
        /\ \A n \in MergeRequests \ {job.mr} : feedback'[n] = feedback[n]
    <3>1. CASE FinishFeedbackJob(job.mr)
      BY <1>1, <2>1, <2>2, <3>1 DEF FinishFeedbackJob, FeedbackJob
    <3>2. CASE RetryFeedbackJob(job.mr)
      <4>1. FeedbackRequeued(feedback[job.mr], FALSE).state \in {"queued", "failed"}
        BY <2>2, RowsTyped
      <4> QED
        BY <1>1, <2>1, <3>2, <4>1 DEF RetryFeedbackJob
    <3> QED
      BY <1>10, <3>1, <3>2 DEF HandleFailure
  <2> QED
    BY <1>4, <2>1, <2>3
<1>11. CASE HandleFailureFails \/ StopProcess
  BY <1>5, <1>11 DEF HandleFailureFails, StopProcess, Stop
<1>12. CASE Restart
  <2>1. \A n \in MergeRequests : feedback'[n].state # "running"
    BY <1>1, <1>12, RowsTyped, ZenonT(60) DEF Restart, RecoverAll, FeedbackHasState
  <2> QED
    BY <2>1 DEF FeedbackRunningIsOwned, FeedbackHasState
<1>13. ASSUME NEW d \in Deliveries, Deliver(d) PROVE FeedbackRunningIsOwned'
  <2>1. UNCHANGED <<pc, job>> /\ pc # "down"
    BY <1>13 DEF Deliver, workerVars
  <2>2. ASSUME NEW m, NEW h, AcceptFeedback(d, m, h)
        PROVE  \A n \in MergeRequests : feedback'[n] = feedback[n] \/ feedback'[n].state = "queued"
    BY <1>1, <2>2 DEF AcceptFeedback
  <2>3. \A n \in MergeRequests : feedback'[n] = feedback[n] \/ feedback'[n].state = "queued"
    BY <1>13, <2>2 DEF Deliver, AcceptIgnored, AcceptReview
  <2> QED
    BY <1>3, <2>1, <2>3
<1>14. CASE ReviewSideStep \/ GitLabMoves \/ UNCHANGED vars
  <2>1. UNCHANGED <<pc, job, feedback>>
    BY <1>14 DEF ReviewSideStep, ReviewSide, GitLabMoves, vars, workerVars, feedbackVars
  <2> QED
    BY <1>3, <1>5, <2>1
<1> QED
  BY <1>6, <1>7, <1>8, <1>9, <1>10, <1>11, <1>12, <1>13, <1>14 DEF Next, WorkerStep

-----------------------------------------------------------------------------
(* The invariant. *)

LEMMA FWInvInit == Init => FWInv
<1> SUFFICES ASSUME Init PROVE FWInv
  OBVIOUS
<1>1. FInv
  BY FInvInit DEF Init
<1>2. Reported
  <2>1. ASSUME NEW h \in Heads PROVE [open |-> TRUE, head |-> h] \in MergeRequest
    BY DEF MergeRequest
  <2>2. mrs \in [MergeRequests -> {[open |-> TRUE, head |-> h] : h \in Heads}]
    BY DEF Init, InitGitLab
  <2>3. seen \subseteq Identity
    BY DEF Init, InitGitLab
  <2> QED
    BY <2>1, <2>2, <2>3 DEF Reported
<1>3. TypeOK
  BY <1>1, NoClaimTyped DEF Init, FInv, TypeOK, WorkerJob
<1>4. pc = "idle" /\ \A m \in MergeRequests : feedback[m].state = "absent"
  BY DEF Init, InitFeedback, NoFeedback
<1> QED
  BY <1>1, <1>2, <1>3, <1>4 DEF FWInv, FeedbackRunningIsOwned, FeedbackHasState, FeedbackClaimed

LEMMA FWInvPreserved == FWInv /\ [Next]_vars => FWInv'
<1> SUFFICES ASSUME FWInv, [Next]_vars PROVE FWInv'
  OBVIOUS
<1>1. FInv'
  BY DatabaseStep, FInvPreserved DEF FWInv
<1>2. TypeOK' /\ (pc' \in FeedbackClaimed => job'.mr \in MergeRequests)
  BY <1>1, WorkerTyped DEF TypeOK, FInv, WorkerJob
<1> QED
  BY <1>1, <1>2, ReportedStays, OwnershipStays DEF FWInv

LEMMA FWInvInvariance == Spec => []FWInv
BY FWInvInit, FWInvPreserved, PTL DEF Spec

-----------------------------------------------------------------------------
(* Theorems. *)

\* A feedback row is running only while the living worker evaluates it, with
\* the terminal head it was bound to: no error path of process, handleFailure
\* or a failed completion leaves one behind, so startup recovery is enough.
THEOREM NoFeedbackIsLeftRunning == Spec => []FeedbackRunningIsOwned
<1>1. FWInv => FeedbackRunningIsOwned
  BY DEF FWInv
<1> QED
  BY <1>1, FWInvInvariance, PTL

\* The feedback worker, webhooks, operators, the review side, stops and
\* restarts together do to the database what its transactions allow.
THEOREM FeedbackKeepsContract == Spec => UsesFeedbackStore
<1>1. Init => InitDatabase
  BY DEF Init, InitDatabase
<1>2. FWInv /\ [Next]_vars => [NextFeedback]_<<storeVars, feedbackVars>>
  BY DatabaseStep
<1> QED
  BY <1>1, <1>2, FWInvInvariance, PTL DEF Spec, UsesFeedbackStore, SpecFeedback

\* Therefore, in every run of the system, the job at the head of the line can
\* be claimed: its bound review stays eligible, and its completion cannot fail
\* on an earlier lesson.
THEOREM FeedbackNeverBlocks ==
  Spec => [](BoundReviewStaysEligible /\ MemoryOnlyWhenCompleted /\ QueuedFeedbackIsClaimable)
BY FeedbackKeepsContract, BindingsStayEligible, LessonsAreOfCompletedJobs,
   QueuedFeedbackCanBeClaimed, PTL DEF UsesFeedbackStore
=============================================================================
