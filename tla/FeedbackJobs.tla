----------------------------- MODULE FeedbackJobs -----------------------------
(***************************************************************************)
(* The rest of internal/store's workflow tables: webhook_events,           *)
(* feedback_jobs and review_memories, over the review tables.  AcceptEvent *)
(* is one transaction over all of them.  A feedback row is found by its    *)
(* merge request, which the schema makes UNIQUE.                           *)
(***************************************************************************)
EXTENDS ReviewJobs

CONSTANT Deliveries   \* webhook delivery identifiers

VARIABLES
  events,     \* webhook_events: the outcome recorded for each delivery
  feedback,   \* feedback_jobs
  memories    \* review_memories: the merge requests that left a lesson

feedbackVars == <<events, feedback, memories>>

Outcome == {"queued", "duplicate_review", "feedback_queued", "duplicate_feedback",
            "ignored_feedback_no_review", "ignored"}

ASSUME OutcomeAssumption == NULL \notin Outcome

\* A row of feedback_jobs; the state "absent" stands for no such row.
FeedbackJob == [state    : {"absent", "queued", "running", "completed", "failed"},
                attempts : 0 .. MaxJobAttempts,
                due      : BOOLEAN,
                head     : Heads \cup {NULL},       \* the terminal head
                review   : Identity \cup {NULL}]    \* the bound review job

NoFeedback == [state |-> "absent", attempts |-> 0, due |-> FALSE,
               head |-> NULL, review |-> NULL]

InitFeedback ==
  /\ events = [d \in Deliveries |-> NULL]
  /\ feedback = [m \in MergeRequests |-> NoFeedback]
  /\ memories = {}

FeedbackHasState(m, s) == feedback[m].state = s

-----------------------------------------------------------------------------
(* AcceptEvent.  A delivery identifier that is known changes nothing. *)

Record(d, outcome) == events' = [events EXCEPT ![d] = outcome]

\* An event that queues no work.
AcceptIgnored(d) ==
  /\ events[d] = NULL
  /\ Record(d, "ignored")
  /\ UNCHANGED <<storeVars, feedback, memories>>

\* Mutant: the conflict on the delivery identifier is not looked at.
AcceptReviewAgain(d, i) ==
  /\ \/ CreateReviewJob(i) /\ Record(d, "queued")
     \/ /\ ~HasState(i, "absent")
        /\ Record(d, "duplicate_review")
        /\ UNCHANGED storeVars
  /\ UNCHANGED <<feedback, memories>>

\* An opened or updated merge request: create or confirm its review job.
AcceptReview(d, i) ==
  /\ events[d] = NULL
  /\ \/ CreateReviewJob(i) /\ Record(d, "queued")
     \/ /\ ~HasState(i, "absent")
        /\ Record(d, "duplicate_review")
        /\ UNCHANGED storeVars
  /\ UNCHANGED <<feedback, memories>>

\* The job that answers a completed revision: itself or its canonical job.
Effective(i) == IF jobs[i].equivalent_to # NULL THEN jobs[i].equivalent_to ELSE i

\* A review that feedback may be bound to.
Reviewed(r) ==
  /\ HasState(r, "completed")
  /\ jobs[r].equivalent_to = NULL
  /\ results[r] # NULL
  /\ publications[r] # NULL

\* Mutant: the review of a completed revision is not looked at.
FeedbackCandidatesUnchecked(m) ==
  {i \in Identity : MergeRequestOf(i) = m /\ HasState(i, "completed")}

\* The most recently created completed revision with an eligible review.
FeedbackCandidates(m) ==
  {i \in Identity : /\ MergeRequestOf(i) = m
                    /\ HasState(i, "completed")
                    /\ MergeRequestOf(Effective(i)) = m
                    /\ Reviewed(Effective(i))}
FeedbackReview(m) ==
  {Effective(i) : i \in {c \in FeedbackCandidates(m) :
                           \A k \in FeedbackCandidates(m) : jobs[k].id <= jobs[c].id}}

\* Mutant: a later terminal event rebinds the job.
AcceptFeedbackAgain(d, m, head) ==
  /\ events[d] = NULL
  /\ \E r \in FeedbackReview(m) :
       /\ Record(d, "feedback_queued")
       /\ feedback' = [feedback EXCEPT ![m].state = "queued", ![m].due = TRUE,
                                        ![m].head = head, ![m].review = r]
  /\ UNCHANGED <<storeVars, memories>>

\* A closed or merged merge request.  The job is due at once.
AcceptFeedback(d, m, head) ==
  /\ events[d] = NULL
  /\ \/ /\ FeedbackReview(m) = {}
        /\ Record(d, "ignored_feedback_no_review")
        /\ UNCHANGED feedback
     \/ /\ FeedbackReview(m) # {}
        /\ ~FeedbackHasState(m, "absent")
        /\ Record(d, "duplicate_feedback")
        /\ UNCHANGED feedback
     \/ \E r \in FeedbackReview(m) :
          /\ FeedbackHasState(m, "absent")
          /\ Record(d, "feedback_queued")
          /\ feedback' = [feedback EXCEPT ![m] =
                            [state |-> "queued", attempts |-> 0, due |-> TRUE,
                             head |-> head, review |-> r]]
  /\ UNCHANGED <<storeVars, memories>>

-----------------------------------------------------------------------------
(* Transactions of the feedback worker and of operators. *)

FeedbackSelectable(m) ==
  /\ FeedbackHasState(m, "queued")
  /\ feedback[m].attempts < MaxJobAttempts
  /\ feedback[m].due

\* The claim also reads the bound review; when that fails the claim is rolled
\* back and the job stays first in line.
ClaimFeedbackJob(m) ==
  /\ FeedbackSelectable(m)
  /\ MergeRequestOf(feedback[m].review) = m
  /\ Reviewed(feedback[m].review)
  /\ feedback' = [feedback EXCEPT ![m].state = "running", ![m].attempts = @ + 1]
  /\ UNCHANGED <<storeVars, events, memories>>

\* Mutant: the memory is stored before the job is completed.
StoreMemoryOnly(m, lesson) ==
  /\ FeedbackHasState(m, "running")
  /\ memories' = (IF lesson THEN memories \cup {m} ELSE memories)
  /\ UNCHANGED <<storeVars, events, feedback>>

\* Completion and the optional memory are one transaction.
CompleteFeedbackJob(m, lesson) ==
  /\ FeedbackHasState(m, "running")
  /\ lesson => m \notin memories
  /\ feedback' = [feedback EXCEPT ![m].state = "completed"]
  /\ memories' = (IF lesson THEN memories \cup {m} ELSE memories)
  /\ UNCHANGED <<storeVars, events>>

FeedbackRequeued(row, due) ==
  IF row.attempts >= MaxJobAttempts
  THEN [row EXCEPT !.state = "failed"]
  ELSE [row EXCEPT !.state = "queued", !.due = due]

RetryFeedbackJob(m) ==
  /\ FeedbackHasState(m, "running")
  /\ feedback' = [feedback EXCEPT ![m] = FeedbackRequeued(@, FALSE)]
  /\ UNCHANGED <<storeVars, events, memories>>

FinishFeedbackJob(m) ==
  /\ FeedbackHasState(m, "running")
  /\ feedback' = [feedback EXCEPT ![m].state = "failed"]
  /\ UNCHANGED <<storeVars, events, memories>>

RetryFailedFeedbackJob(m) ==
  /\ FeedbackHasState(m, "failed")
  /\ feedback' = [feedback EXCEPT ![m].state = "queued", ![m].attempts = 0, ![m].due = TRUE]
  /\ UNCHANGED <<storeVars, events, memories>>

FeedbackBecomesDue(m) ==
  /\ FeedbackHasState(m, "queued")
  /\ ~feedback[m].due
  /\ feedback' = [feedback EXCEPT ![m].due = TRUE]
  /\ UNCHANGED <<storeVars, events, memories>>

\* RecoverInterruptedJobs recovers both kinds of jobs in one transaction.
RecoverAll ==
  /\ RecoverInterruptedJobs
  /\ feedback' = [m \in MergeRequests |-> IF FeedbackHasState(m, "running")
                                          THEN FeedbackRequeued(feedback[m], TRUE)
                                          ELSE feedback[m]]
  /\ UNCHANGED <<events, memories>>

\* Everything the review worker, reconciliation and time do to the review
\* tables while the service runs.
ReviewSide ==
  /\ NextStore
  /\ UNCHANGED feedbackVars

NextFeedback ==
  \/ RecoverAll
  \/ ReviewSide
  \/ \E d \in Deliveries :
       \/ AcceptIgnored(d)
       \/ \E i \in Identity : AcceptReview(d, i)
       \/ \E m \in MergeRequests, h \in Heads : AcceptFeedback(d, m, h)
  \/ \E m \in MergeRequests :
       \/ ClaimFeedbackJob(m)
       \/ \E lesson \in BOOLEAN : CompleteFeedbackJob(m, lesson)
       \/ RetryFeedbackJob(m)
       \/ FinishFeedbackJob(m)
       \/ RetryFailedFeedbackJob(m)
       \/ FeedbackBecomesDue(m)

\* A database as applySchema creates it.
InitDatabase == InitStore /\ InitFeedback

SpecFeedback == InitDatabase /\ [][NextFeedback]_<<storeVars, feedbackVars>>

-----------------------------------------------------------------------------
(* Properties of the tables. *)

\* Type invariant of the feedback tables.
TypeOKFeedback ==
  /\ events \in [Deliveries -> Outcome \cup {NULL}]
  /\ feedback \in [MergeRequests -> FeedbackJob]
  /\ memories \subseteq MergeRequests

\* The review a feedback job was bound to when its merge request was closed
\* stays eligible for ever, whatever happens to that merge request's jobs
\* later.  Otherwise ClaimFeedbackJob would fail for this job on every poll
\* and, being first in line, block all feedback.
BoundReviewStaysEligible ==
  \A m \in MergeRequests :
    ~FeedbackHasState(m, "absent") => /\ feedback[m].review \in Identity
                                      /\ MergeRequestOf(feedback[m].review) = m
                                      /\ Reviewed(feedback[m].review)

\* A lesson exists only for a completed feedback job: a job that fails, is
\* interrupted or is retried by an operator has left none, so the INSERT of its
\* completion cannot fail on the UNIQUE source of a lesson.
MemoryOnlyWhenCompleted ==
  \A m \in memories : FeedbackHasState(m, "completed")

\* Action property: the first eligible terminal event fixes the terminal head
\* and the bound review; later events, retries and recoveries keep them.
BindingIsFixed ==
  [][\A m \in MergeRequests :
       ~FeedbackHasState(m, "absent") => /\ feedback'[m].review = feedback[m].review
                                         /\ feedback'[m].head = feedback[m].head
    ]_<<storeVars, feedbackVars>>
=============================================================================
