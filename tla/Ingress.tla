------------------------------- MODULE Ingress -------------------------------
(***************************************************************************)
(* Webhook ingress (internal/webhook): concurrent HTTP requests that carry *)
(* deliveries of GitLab, the admission limit, and the transaction that     *)
(* records a delivery before it is acknowledged.  GitLab may send a        *)
(* delivery again, also while an earlier request with it is being served;  *)
(* responses may be lost, transactions may fail with an unknown outcome,   *)
(* and the process may crash between commit and response.                  *)
(***************************************************************************)
EXTENDS FeedbackJobs, FiniteSets

CONSTANTS
  Requests,               \* connections of GitLab
  MaxConcurrentWebhooks,  \* maxConcurrentWebhooks (4 in the code)
  MaxCrashes              \* bound: crashes of the process

ASSUME IngressAssumption == MaxConcurrentWebhooks \in Nat \ {0} /\ MaxCrashes \in Nat

VARIABLES
  content,    \* what each delivery says; it never changes
  requests,   \* the state of each connection
  admission,  \* slots taken in the admission channel
  up,         \* is the process running?
  crashes,
  acked,      \* ghost: deliveries GitLab saw acknowledged with 200
  answers     \* ghost: the results AcceptEvent returned for each delivery

ingressVars == <<content, requests, admission, up, crashes, acked, answers>>
vars == <<storeVars, feedbackVars, ingressVars>>

\* A delivery as the handler classifies it.  "invalid" stands for every
\* delivery it answers with 4xx: too large, unreadable, malformed, of an
\* unsupported event or of an unauthorized repository.  "ignored" is a draft,
\* an update of a merge request that is not open, or another action.
Content == [kind : {"review", "terminal", "ignored"}, about : Identity]
           \cup [kind : {"note", "invalid"}, about : {NULL}]

MergeRequestEvent(d) == content[d].kind \in {"review", "terminal", "ignored"}

Idle == [pc |-> "idle", delivery |-> NULL, ok |-> FALSE, slot |-> FALSE]

Init ==
  /\ InitStore /\ InitFeedback
  /\ content \in [Deliveries -> Content]
  /\ requests = [r \in Requests |-> Idle]
  /\ admission = 0 /\ up = TRUE /\ crashes = 0
  /\ acked = {} /\ answers = [d \in Deliveries |-> {}]

KeepStore == UNCHANGED <<storeVars, feedbackVars>>
KeepProcess == UNCHANGED <<content, up, crashes>>

\* Answer with 200, or with an error.
Answer(r, ok) == requests' = [requests EXCEPT ![r].pc = "reply", ![r].ok = ok]

-----------------------------------------------------------------------------
(* gitLabWebhook. *)

\* An authenticated request is admitted, or answered 503 when all slots are
\* taken.  (401 leaves no trace and is left out.)
Arrive(r, d) ==
  /\ up /\ requests[r].pc = "idle"
  /\ IF admission < MaxConcurrentWebhooks
     THEN /\ admission' = admission + 1
          /\ requests' = [requests EXCEPT ![r] = [pc |-> "read", delivery |-> d,
                                                  ok |-> FALSE, slot |-> TRUE]]
     ELSE /\ requests' = [requests EXCEPT ![r] = [pc |-> "reply", delivery |-> d,
                                                  ok |-> FALSE, slot |-> FALSE]]
          /\ UNCHANGED admission
  /\ KeepStore /\ KeepProcess /\ UNCHANGED <<acked, answers>>

\* Read and classify the body.  Reading may fail for every delivery.
ReadBody(r) ==
  LET d == requests[r].delivery
  IN /\ requests[r].pc = "read"
     /\ \/ Answer(r, FALSE)
        \/ content[d].kind = "note" /\ Answer(r, TRUE)
        \/ MergeRequestEvent(d) /\ requests' = [requests EXCEPT ![r].pc = "store"]
     /\ KeepStore /\ KeepProcess /\ UNCHANGED <<admission, acked, answers>>

-----------------------------------------------------------------------------
(* mergeRequestEvent. *)

\* The first transaction of a delivery.
AcceptFirst(d) ==
  LET i == content[d].about
  IN \/ content[d].kind = "ignored" /\ AcceptIgnored(d)
     \/ content[d].kind = "review" /\ AcceptReview(d, i)
     \/ content[d].kind = "terminal" /\ AcceptFeedback(d, MergeRequestOf(i), HeadOf(i))

AcceptDuplicate(d) == events[d] # NULL /\ KeepStore

\* What AcceptEvent returns: the outcome of the event and the rows joined to it.
Result(d) ==
  LET i == content[d].about
  IN [outcome  |-> events[d],
      job      |-> IF events[d] \in {"queued", "duplicate_review"} THEN jobs[i].id ELSE 0,
      feedback |-> IF events[d] \in {"feedback_queued", "duplicate_feedback"}
                   THEN feedback[MergeRequestOf(i)].review ELSE NULL]

\* Mutant: the event is acknowledged first and stored by a later request.
AcceptAcknowledgesFirst(r, d) ==
  /\ requests[r].pc = "store" /\ requests[r].delivery = d
  /\ KeepStore /\ Answer(r, TRUE)
  /\ KeepProcess /\ UNCHANGED <<admission, acked, answers>>

Accept(r, d) ==
  /\ requests[r].pc = "store" /\ requests[r].delivery = d
  /\ AcceptFirst(d) \/ AcceptDuplicate(d)
  /\ KeepProcess
  /\ answers' = [answers EXCEPT ![d] = @ \cup {Result(d)'}]
  /\ Answer(r, TRUE)
  /\ UNCHANGED <<admission, acked>>

\* AcceptEvent returns an error: the transaction was rolled back, or its commit
\* went through although the caller was told otherwise.
AcceptFails(r) ==
  /\ requests[r].pc = "store"
  /\ KeepStore \/ AcceptFirst(requests[r].delivery)
  /\ Answer(r, FALSE)
  /\ KeepProcess /\ UNCHANGED <<admission, acked, answers>>

\* The response is written: GitLab reads it, or has hung up.
Reply(r) ==
  LET q == requests[r]
  IN /\ q.pc = "reply"
     /\ requests' = [requests EXCEPT ![r] = [Idle EXCEPT !.pc = "leave", !.slot = q.slot]]
     /\ \/ acked' = IF q.ok THEN acked \cup {q.delivery} ELSE acked
        \/ UNCHANGED acked
     /\ KeepStore /\ KeepProcess /\ UNCHANGED <<admission, answers>>

\* Mutant: a refused request gives a slot back as well.
LeaveAlwaysReleases(r) ==
  /\ requests[r].pc = "leave"
  /\ admission' = IF admission > 0 THEN admission - 1 ELSE 0
  /\ requests' = [requests EXCEPT ![r] = Idle]
  /\ KeepStore /\ KeepProcess /\ UNCHANGED <<acked, answers>>

\* The handler returns and its deferred function gives the slot back.
Leave(r) ==
  /\ requests[r].pc = "leave"
  /\ admission' = IF requests[r].slot THEN admission - 1 ELSE admission
  /\ requests' = [requests EXCEPT ![r] = Idle]
  /\ KeepStore /\ KeepProcess /\ UNCHANGED <<acked, answers>>

-----------------------------------------------------------------------------
(* The process. *)

Crash ==
  /\ up /\ crashes < MaxCrashes
  /\ up' = FALSE /\ crashes' = crashes + 1
  /\ requests' = [r \in Requests |-> Idle] /\ admission' = 0
  /\ KeepStore /\ UNCHANGED <<content, acked, answers>>

\* Startup recovers the interrupted jobs before it listens.
Restart ==
  /\ ~up
  /\ RecoverAll
  /\ up' = TRUE
  /\ UNCHANGED <<content, requests, admission, crashes, acked, answers>>

\* The workers, reconciliation and operators use the same tables.
OtherWriters ==
  /\ up
  /\ \/ ReviewSide
     \/ \E m \in MergeRequests :
          \/ ClaimFeedbackJob(m) \/ CompleteFeedbackJob(m, TRUE) \/ RetryFeedbackJob(m)
          \/ FinishFeedbackJob(m) \/ RetryFailedFeedbackJob(m) \/ FeedbackBecomesDue(m)
  /\ UNCHANGED ingressVars

Serve(r) == ReadBody(r) \/ AcceptFails(r) \/ Reply(r) \/ Leave(r)

Next ==
  \/ \E r \in Requests : Serve(r) \/ \E d \in Deliveries : Arrive(r, d) \/ Accept(r, d)
  \/ Crash \/ Restart \/ OtherWriters

Spec == Init /\ [][Next]_vars

-----------------------------------------------------------------------------
(* Properties. *)

\* docs/agents/reliability.md: "Never acknowledge an accepted merge request
\* event before commit."  A merge request event that GitLab saw acknowledged
\* is in the database, with the job it asked for, whatever crashes and
\* failures follow.
AckedIsDurable ==
  \A d \in acked :
    MergeRequestEvent(d) =>
      /\ events[d] # NULL
      /\ content[d].kind = "review" => ~HasState(content[d].about, "absent")
      /\ events[d] \in {"feedback_queued", "duplicate_feedback"} =>
           ~FeedbackHasState(MergeRequestOf(content[d].about), "absent")

\* docs/agents/reliability.md: "Duplicate delivery must resolve to the same
\* event or job".  Every request that carries a delivery gets the same result,
\* however the jobs move on between them.
DuplicatesResolveAlike == \A d \in Deliveries : Cardinality(answers[d]) <= 1

\* The admission channel holds one entry for every request that was admitted and
\* has not returned, and never more than its capacity: no path through the
\* handler loses a slot or gives one back that it does not hold.
SlotsAreReturned ==
  /\ admission = Cardinality({r \in Requests : requests[r].slot})
  /\ admission <= MaxConcurrentWebhooks
=============================================================================
