--------------------------- MODULE Discovery_proofs ---------------------------
(***************************************************************************)
(* Theorems about the two ways in which a revision comes to have a job:    *)
(* webhook ingress, for any number of deliveries, connections, slots and   *)
(* crashes, while the workers, the reconciler and operators use the same   *)
(* tables; and reconciliation, for lists, pages and projects of any size.  *)
(***************************************************************************)
EXTENDS Ingress, Reconciler, Store_proofs, FiniteSetTheorems

Request == [pc : {"idle", "read", "store", "reply", "leave"}, delivery : Deliveries \cup {NULL},
            ok : BOOLEAN, slot : BOOLEAN]

TypeOK ==
  /\ content \in [Deliveries -> Content]
  /\ requests \in [Requests -> Request]
  /\ acked \subseteq Deliveries
  /\ DOMAIN answers = Deliveries

\* The requests that hold a slot of the admission channel.
Holders == {r \in Requests : requests[r].slot}

\* What the handler knows of a request, by where it is.
Handling ==
  \A r \in Requests :
    /\ requests[r].pc = "idle" => ~requests[r].slot
    /\ requests[r].pc \in {"read", "store", "reply"} => requests[r].delivery \in Deliveries
    /\ requests[r].pc = "store" => MergeRequestEvent(requests[r].delivery)

\* What is acknowledged, or is about to be, is stored.
Stored(d) == MergeRequestEvent(d) => events[d] # NULL
Durable ==
  /\ \A d \in acked : Stored(d)
  /\ \A r \in Requests :
       requests[r].pc = "reply" /\ requests[r].ok => Stored(requests[r].delivery)

\* The recorded outcome of a delivery is one of its kind, and the job it
\* stands for exists.
EventFits(d) ==
  LET i == content[d].about
  IN \/ content[d].kind = "ignored" /\ events[d] = "ignored"
     \/ /\ content[d].kind = "review" /\ events[d] \in {"queued", "duplicate_review"}
        /\ ~HasState(i, "absent")
     \/ content[d].kind = "terminal" /\ events[d] = "ignored_feedback_no_review"
     \/ /\ content[d].kind = "terminal" /\ events[d] \in {"feedback_queued", "duplicate_feedback"}
        /\ ~FeedbackHasState(MergeRequestOf(i), "absent")

\* AcceptEvent returned nothing but what it would return now.
Answered(d) == answers[d] # {} => events[d] # NULL /\ answers[d] = {Result(d)}

EventsKnown == \A d \in Deliveries : (events[d] # NULL => EventFits(d)) /\ Answered(d)

\* The inductive invariant.
IngressInv ==
  /\ FInv /\ TypeOK /\ Handling /\ Durable /\ EventsKnown
  /\ IsFiniteSet(Holders) /\ SlotsAreReturned

-----------------------------------------------------------------------------
(* The database. *)

\* A merge request event is about a revision.
LEMMA AboutRevision ==
  ASSUME TypeOK, NEW d \in Deliveries, MergeRequestEvent(d)
  PROVE  /\ content[d].about \in Identity
         /\ MergeRequestOf(content[d].about) \in MergeRequests
         /\ HeadOf(content[d].about) \in Heads
<1>1. content[d] \in Content /\ content[d].kind \in {"review", "terminal", "ignored"}
  BY DEF TypeOK, MergeRequestEvent
<1>2. content[d].about \in Identity
  BY <1>1 DEF Content
<1> QED
  BY <1>2 DEF Identity, MergeRequestOf, HeadOf

\* The first transaction of a delivery is one of the database, and records an
\* outcome of its kind.
LEMMA FirstAccept ==
  ASSUME FInv, TypeOK, NEW d \in Deliveries, MergeRequestEvent(d), AcceptFirst(d),
         UNCHANGED content
  PROVE  /\ NextFeedback
         /\ EventFits(d)' /\ events'[d] # NULL
         /\ \A e \in Deliveries \ {d} : events'[e] = events[e]
<1> DEFINE i == content[d].about
<1>1. i \in Identity /\ MergeRequestOf(i) \in MergeRequests /\ HeadOf(i) \in Heads
  BY AboutRevision
<1>2. /\ events \in [Deliveries -> Outcome \cup {NULL}]
      /\ jobs \in [Identity -> Job] /\ feedback \in [MergeRequests -> FeedbackJob]
  BY DEF FInv, IInv, TypeOKStore, TypeOKFeedback
<1>3. ASSUME NEW o \in Outcome, Record(d, o)
      PROVE  events'[d] = o /\ o # NULL /\ \A e \in Deliveries \ {d} : events'[e] = events[e]
  BY <1>2, <1>3, OutcomeAssumption DEF Record
<1> HIDE DEF i
<1>4. CASE content[d].kind = "ignored" /\ AcceptIgnored(d)
  <2>1. Record(d, "ignored") /\ "ignored" \in Outcome
    BY <1>4 DEF AcceptIgnored, Outcome
  <2> QED
    BY <1>3, <1>4, <2>1 DEF NextFeedback, EventFits
<1>5. CASE content[d].kind = "review" /\ AcceptReview(d, i)
  <2>1. PICK o \in {"queued", "duplicate_review"} : Record(d, o)
    BY <1>5 DEF AcceptReview
  <2>2. o \in Outcome
    BY DEF Outcome
  <2>3. jobs'[i].state # "absent"
    BY <1>1, <1>2, <1>5, ZenonT(60) DEF AcceptReview, CreateReviewJob, NoJob, HasState, storeVars
  <2> QED
    BY <1>1, <1>3, <1>5, <2>1, <2>2, <2>3 DEF NextFeedback, EventFits, HasState, i
<1>6. CASE content[d].kind = "terminal" /\ AcceptFeedback(d, MergeRequestOf(i), HeadOf(i))
  <2>1. \/ Record(d, "ignored_feedback_no_review")
        \/ \E o \in {"feedback_queued", "duplicate_feedback"} :
             Record(d, o) /\ feedback'[MergeRequestOf(i)].state # "absent"
    BY <1>1, <1>2, <1>6 DEF AcceptFeedback, FeedbackHasState
  <2>2. /\ "ignored_feedback_no_review" \in Outcome
        /\ "feedback_queued" \in Outcome /\ "duplicate_feedback" \in Outcome
    BY DEF Outcome
  <2>3. NextFeedback
    BY <1>1, <1>6 DEF NextFeedback
  <2> QED
    BY <1>3, <1>6, <2>1, <2>2, <2>3 DEF EventFits, FeedbackHasState, i
<1> QED
  BY <1>4, <1>5, <1>6 DEF AcceptFirst, i

\* Whatever the handler, the process and the other writers do is one
\* transaction of the database or none, and a new event fits its delivery.
LEMMA DatabaseStep ==
  ASSUME IngressInv, [Next]_vars
  PROVE  /\ [NextFeedback]_<<storeVars, feedbackVars>>
         /\ UNCHANGED content
         /\ \A e \in Deliveries : events'[e] = events[e] \/ (events'[e] # NULL /\ EventFits(e)')
<1> USE DEF KeepStore, KeepProcess
<1>1. ASSUME UNCHANGED <<storeVars, feedbackVars>> PROVE \A e \in Deliveries : events'[e] = events[e]
  BY <1>1 DEF feedbackVars
<1>2. ASSUME NEW r \in Requests, ReadBody(r) \/ Reply(r) \/ Leave(r)
      PROVE  UNCHANGED <<storeVars, feedbackVars, content>>
  BY <1>2 DEF ReadBody, Reply, Leave
<1>3. ASSUME NEW r \in Requests, NEW d \in Deliveries, Arrive(r, d)
      PROVE  UNCHANGED <<storeVars, feedbackVars, content>>
  BY <1>3 DEF Arrive
<1>4. ASSUME NEW r \in Requests, NEW d \in Deliveries, Accept(r, d)
      PROVE  /\ UNCHANGED content
             /\ UNCHANGED <<storeVars, feedbackVars>> \/ (MergeRequestEvent(d) /\ AcceptFirst(d))
  BY <1>4 DEF Accept, AcceptDuplicate, IngressInv, Handling
<1>5. ASSUME NEW r \in Requests, AcceptFails(r)
      PROVE  /\ UNCHANGED content
             /\ \/ UNCHANGED <<storeVars, feedbackVars>>
                \/ \E d \in Deliveries : MergeRequestEvent(d) /\ AcceptFirst(d)
  BY <1>5 DEF AcceptFails, IngressInv, Handling
<1>6. ASSUME NEW d \in Deliveries, MergeRequestEvent(d), AcceptFirst(d), UNCHANGED content
      PROVE  /\ NextFeedback
             /\ \A e \in Deliveries : events'[e] = events[e] \/ (events'[e] # NULL /\ EventFits(e)')
  BY <1>6, FirstAccept DEF IngressInv
<1>7. CASE Crash \/ UNCHANGED vars
  BY <1>1, <1>7 DEF Crash, vars, ingressVars
<1>8. CASE Restart
  BY <1>8 DEF Restart, RecoverAll, NextFeedback
<1>9. CASE OtherWriters
  <2>1. NextFeedback /\ UNCHANGED content
    BY <1>9 DEF OtherWriters, NextFeedback, ingressVars
  <2>2. UNCHANGED events
    BY <1>9 DEF OtherWriters, ReviewSide, feedbackVars, ClaimFeedbackJob, CompleteFeedbackJob,
                RetryFeedbackJob, FinishFeedbackJob, RetryFailedFeedbackJob, FeedbackBecomesDue
  <2> QED
    BY <2>1, <2>2
<1> QED
  BY <1>1, <1>2, <1>3, <1>4, <1>5, <1>6, <1>7, <1>8, <1>9 DEF Next, Serve

\* The rows that an event stands for stay what AcceptEvent returned.
LEMMA ResultStays ==
  ASSUME IngressInv, [Next]_vars, NEW d \in Deliveries, events[d] # NULL
  PROVE  events'[d] = events[d] /\ EventFits(d)' /\ Result(d)' = Result(d)
<1> DEFINE i == content[d].about
<1>1. [NextFeedback]_<<storeVars, feedbackVars>> /\ [NextStore]_storeVars /\ content' = content
  BY DatabaseStep, ReviewTablesStep
<1>2. EventFits(d)
  BY DEF IngressInv, EventsKnown
<1>3. MergeRequestEvent(d)
  BY <1>2 DEF EventFits, MergeRequestEvent
<1>4. i \in Identity /\ MergeRequestOf(i) \in MergeRequests
  BY <1>3, AboutRevision DEF IngressInv
<1>5. events'[d] = events[d]
  BY <1>1, EventStays DEF IngressInv
<1>6. jobs[i].state # "absent" => jobs'[i].state # "absent" /\ jobs'[i].id = jobs[i].id
  BY <1>1, <1>4, ReviewRowStays DEF IngressInv, FInv
<1>7. feedback[MergeRequestOf(i)].state # "absent" =>
        /\ feedback'[MergeRequestOf(i)].state # "absent"
        /\ feedback'[MergeRequestOf(i)].review = feedback[MergeRequestOf(i)].review
  BY <1>1, <1>4, FeedbackRowStays DEF IngressInv
<1> QED
  BY <1>1, <1>2, <1>5, <1>6, <1>7 DEF EventFits, Result, HasState, FeedbackHasState

\* Every delivery keeps its event, and every request with it its answer.
LEMMA EventsKnownStays ==
  ASSUME IngressInv, [Next]_vars
  PROVE  EventsKnown'
<1>1. ASSUME NEW d \in Deliveries, events'[d] # NULL PROVE EventFits(d)'
  BY <1>1, DatabaseStep, ResultStays
<1>2. ASSUME NEW d \in Deliveries, answers'[d] = answers[d] PROVE Answered(d)'
  BY <1>2, ResultStays DEF IngressInv, EventsKnown, Answered
<1>3. ASSUME NEW r \in Requests, NEW d \in Deliveries, Accept(r, d), NEW e \in Deliveries
      PROVE  Answered(e)'
  <2>1. /\ answers'[d] = answers[d] \cup {Result(d)'}
        /\ \A x \in Deliveries \ {d} : answers'[x] = answers[x]
    BY <1>3 DEF Accept, IngressInv, TypeOK
  <2>2. events'[d] # NULL
    <3>1. CASE AcceptFirst(d)
      BY <1>3, <3>1, FirstAccept DEF Accept, IngressInv, Handling, KeepProcess
    <3>2. CASE AcceptDuplicate(d)
      BY <3>2 DEF AcceptDuplicate, KeepStore, feedbackVars
    <3> QED
      BY <1>3, <3>1, <3>2 DEF Accept
  <2>3. answers[d] # {} => answers[d] = {Result(d)'}
    BY ResultStays DEF IngressInv, EventsKnown, Answered
  <2>4. answers'[d] = {Result(d)'}
    BY <2>1, <2>3
  <2>5. Answered(d)'
    BY <2>2, <2>4 DEF Answered
  <2> QED
    BY <1>2, <2>1, <2>5
<1>4. (\E r \in Requests, d \in Deliveries : Accept(r, d)) \/ UNCHANGED answers
  BY DEF Next, Serve, ReadBody, AcceptFails, Reply, Leave, Arrive, Crash, Restart, OtherWriters,
         vars, ingressVars
<1> QED
  BY <1>1, <1>2, <1>3, <1>4 DEF EventsKnown

-----------------------------------------------------------------------------
(* The requests. *)

\* A request moves on: it takes or gives back a slot, or neither, and what is
\* acknowledged to GitLab is the answer it had.
Moves(r, q) ==
  /\ q \in Request
  /\ requests' = [requests EXCEPT ![r] = q]
  /\ \/ admission' = admission /\ q.slot = requests[r].slot
     \/ /\ admission < MaxConcurrentWebhooks /\ admission' = admission + 1
        /\ ~requests[r].slot /\ q.slot
     \/ admission' = admission - 1 /\ requests[r].slot /\ ~q.slot
  /\ q.pc = "idle" => ~q.slot
  /\ q.pc \in {"read", "store", "reply"} => q.delivery \in Deliveries
  /\ q.pc = "store" => MergeRequestEvent(q.delivery)
  /\ q.pc = "reply" /\ q.ok => Stored(q.delivery)'
  /\ \/ UNCHANGED acked
     \/ /\ requests[r].pc = "reply" /\ requests[r].ok
        /\ acked' = acked \cup {requests[r].delivery}

LEMMA RequestsStep ==
  ASSUME IngressInv, [Next]_vars
  PROVE  \/ UNCHANGED <<requests, acked, admission>>
         \/ requests' = [r \in Requests |-> Idle] /\ admission' = 0 /\ UNCHANGED acked
         \/ \E r \in Requests, q \in Request : Moves(r, q)
<1>0. requests \in [Requests -> Request]
  BY DEF IngressInv, TypeOK
<1>1. ASSUME NEW r \in Requests, requests[r].pc \in {"read", "store"}, NEW ok \in BOOLEAN,
             Answer(r, ok), UNCHANGED <<admission, acked>>,
             ok => Stored(requests[r].delivery)'
      PROVE  \E q \in Request : Moves(r, q)
  <2>1. requests[r] \in Request /\ requests[r].delivery \in Deliveries
    BY <1>0, <1>1 DEF IngressInv, Handling
  <2>2. PICK q \in Request : q = [requests[r] EXCEPT !.pc = "reply", !.ok = ok]
    BY <1>1, <2>1 DEF Request
  <2>3. /\ q.slot = requests[r].slot /\ q.pc = "reply" /\ q.ok = ok
        /\ q.delivery = requests[r].delivery
    BY <2>1, <2>2 DEF Request
  <2>4. requests' = [requests EXCEPT ![r] = q]
    BY <1>0, <1>1, <2>2 DEF Answer
  <2>5. requests'[r].delivery = q.delivery
    BY <1>0, <2>4
  <2>6. ok => Stored(q.delivery)'
    BY <1>1, <2>5 DEF Stored, MergeRequestEvent
  <2> QED
    BY <1>1, <2>1, <2>3, <2>4, <2>6 DEF Moves
<1>2. ASSUME NEW r \in Requests, NEW d \in Deliveries, Arrive(r, d)
      PROVE  \E q \in Request : Moves(r, q)
  <2> DEFINE p == [pc |-> "read", delivery |-> d, ok |-> FALSE, slot |-> TRUE]
             q == [pc |-> "reply", delivery |-> d, ok |-> FALSE, slot |-> FALSE]
  <2>1. p \in Request /\ q \in Request
    BY DEF Request
  <2>2. ~requests[r].slot
    BY <1>2 DEF Arrive, IngressInv, Handling
  <2>3. CASE admission < MaxConcurrentWebhooks
    <3>1. /\ requests' = [requests EXCEPT ![r] = p] /\ admission' = admission + 1
          /\ UNCHANGED acked
      BY <1>2, <2>3 DEF Arrive
    <3>2. p.slot /\ p.pc = "read" /\ p.delivery \in Deliveries
      OBVIOUS
    <3> HIDE DEF p
    <3> QED
      BY <2>1, <2>2, <2>3, <3>1, <3>2 DEF Moves
  <2>4. CASE ~(admission < MaxConcurrentWebhooks)
    <3>1. q.slot = requests[r].slot
      BY <1>0, <2>2 DEF Request
    <3> QED
      BY <1>2, <2>1, <2>4, <3>1 DEF Arrive, Moves
  <2> QED
    BY <2>3, <2>4
<1>3. ASSUME NEW r \in Requests, ReadBody(r) PROVE \E q \in Request : Moves(r, q)
  <2>1. CASE Answer(r, FALSE)
    BY <1>1, <1>3, <2>1 DEF ReadBody
  <2>2. CASE content[requests[r].delivery].kind = "note" /\ Answer(r, TRUE)
    <3>1. Stored(requests[r].delivery)'
      <4>1. requests'[r].delivery = requests[r].delivery /\ content' = content
        BY <1>0, <1>3, <2>2 DEF ReadBody, KeepProcess, Answer, Request
      <4> QED
        BY <2>2, <4>1 DEF Stored, MergeRequestEvent
    <3> QED
      BY <1>1, <1>3, <2>2, <3>1 DEF ReadBody
  <2>3. CASE /\ MergeRequestEvent(requests[r].delivery)
             /\ requests' = [requests EXCEPT ![r].pc = "store"]
    <3> DEFINE q == [requests[r] EXCEPT !.pc = "store"]
    <3>1. requests[r] \in Request /\ requests[r].delivery \in Deliveries
      BY <1>0, <1>3 DEF ReadBody, IngressInv, Handling
    <3>2. /\ q \in Request /\ q.slot = requests[r].slot /\ q.pc = "store"
          /\ q.delivery = requests[r].delivery
      BY <3>1 DEF Request
    <3>3. requests' = [requests EXCEPT ![r] = q] /\ UNCHANGED <<admission, acked>>
      BY <1>0, <1>3, <2>3 DEF ReadBody
    <3> HIDE DEF q
    <3> QED
      BY <2>3, <3>1, <3>2, <3>3 DEF Moves
  <2> QED
    BY <1>3, <2>1, <2>2, <2>3 DEF ReadBody
<1>4. ASSUME NEW r \in Requests, NEW d \in Deliveries, Accept(r, d)
      PROVE  \E q \in Request : Moves(r, q)
  <2>1. events'[d] # NULL
    <3>1. CASE AcceptFirst(d)
      BY <1>4, <3>1, FirstAccept DEF Accept, IngressInv, Handling, KeepProcess
    <3>2. CASE AcceptDuplicate(d)
      BY <3>2 DEF AcceptDuplicate, KeepStore, feedbackVars
    <3> QED
      BY <1>4, <3>1, <3>2 DEF Accept
  <2>2. requests'[r].delivery = d
    BY <1>0, <1>4 DEF Accept, Answer, Request
  <2>3. Stored(requests[r].delivery)'
    BY <2>1, <2>2 DEF Stored
  <2> QED
    BY <1>1, <1>4, <2>3 DEF Accept
<1>5. ASSUME NEW r \in Requests, AcceptFails(r) PROVE \E q \in Request : Moves(r, q)
  BY <1>1, <1>5 DEF AcceptFails
<1>6. ASSUME NEW r \in Requests, Reply(r) PROVE \E q \in Request : Moves(r, q)
  <2> DEFINE q == [Idle EXCEPT !.pc = "leave", !.slot = requests[r].slot]
  <2>1. q \in Request /\ q.slot = requests[r].slot /\ q.pc = "leave"
    BY <1>0 DEF Idle, Request
  <2>2. requests' = [requests EXCEPT ![r] = q] /\ UNCHANGED admission
    BY <1>6 DEF Reply
  <2>3. \/ UNCHANGED acked
        \/ /\ requests[r].pc = "reply" /\ requests[r].ok
           /\ acked' = acked \cup {requests[r].delivery}
    BY <1>6 DEF Reply
  <2> HIDE DEF q
  <2> QED
    BY <2>1, <2>2, <2>3 DEF Moves
<1>7. ASSUME NEW r \in Requests, Leave(r) PROVE \E q \in Request : Moves(r, q)
  <2>1. Idle \in Request /\ Idle.slot = FALSE /\ Idle.pc = "idle"
    BY DEF Idle, Request
  <2>2. requests' = [requests EXCEPT ![r] = Idle] /\ UNCHANGED acked
    BY <1>7 DEF Leave
  <2>3. requests[r].slot \in BOOLEAN
    BY <1>0 DEF Request
  <2>4. \/ admission' = admission /\ Idle.slot = requests[r].slot
        \/ admission' = admission - 1 /\ requests[r].slot /\ ~Idle.slot
    BY <1>7, <2>1, <2>3 DEF Leave
  <2> QED
    BY <2>1, <2>2, <2>4 DEF Moves
<1>8. CASE Crash
  BY <1>8 DEF Crash
<1>9. CASE Restart \/ OtherWriters \/ UNCHANGED vars
  BY <1>9 DEF Restart, OtherWriters, vars, ingressVars
<1> QED
  BY <1>2, <1>3, <1>4, <1>5, <1>6, <1>7, <1>8, <1>9 DEF Next, Serve

LEMMA RequestsStay ==
  ASSUME IngressInv, [Next]_vars
  PROVE  TypeOK' /\ Handling' /\ Durable'
<1>1. /\ requests \in [Requests -> Request] /\ content \in [Deliveries -> Content]
      /\ acked \subseteq Deliveries /\ DOMAIN answers = Deliveries /\ Handling /\ Durable
  BY DEF IngressInv, TypeOK
<1>2. UNCHANGED content
  BY DatabaseStep
<1>3. DOMAIN answers' = Deliveries
  <2>1. (\E r \in Requests, d \in Deliveries : Accept(r, d)) \/ UNCHANGED answers
    BY DEF Next, Serve, ReadBody, AcceptFails, Reply, Leave, Arrive, Crash, Restart, OtherWriters,
           vars, ingressVars
  <2> QED
    BY <1>1, <2>1 DEF Accept
<1>4. ASSUME NEW d \in Deliveries, Stored(d) PROVE Stored(d)'
  BY <1>2, <1>4, ResultStays DEF Stored, MergeRequestEvent
<1>5. ASSUME UNCHANGED <<requests, acked>> PROVE TypeOK' /\ Handling' /\ Durable'
  <2>1. TypeOK' /\ Handling'
    BY <1>1, <1>2, <1>3, <1>5 DEF TypeOK, Handling, MergeRequestEvent
  <2>2. \A r \in Requests : requests[r].pc = "reply" /\ requests[r].ok =>
          requests[r].delivery \in Deliveries /\ Stored(requests[r].delivery)
    BY <1>1 DEF Handling, Durable
  <2>3. \A d \in acked : Stored(d)
    BY <1>1 DEF Durable
  <2> QED
    BY <1>1, <1>4, <1>5, <2>1, <2>2, <2>3 DEF Durable, Stored, MergeRequestEvent
<1>6. ASSUME requests' = [r \in Requests |-> Idle], UNCHANGED acked
      PROVE  TypeOK' /\ Handling' /\ Durable'
  <2>1. Idle \in Request /\ Idle.pc = "idle" /\ Idle.slot = FALSE
    BY DEF Idle, Request
  <2>2. TypeOK' /\ Handling'
    BY <1>1, <1>2, <1>3, <1>6, <2>1 DEF TypeOK, Handling
  <2> QED
    BY <1>1, <1>4, <1>6, <2>1, <2>2 DEF Durable
<1>7. ASSUME NEW r \in Requests, NEW q \in Request, Moves(r, q)
      PROVE  TypeOK' /\ Handling' /\ Durable'
  <2>1. requests'[r] = q /\ \A s \in Requests \ {r} : requests'[s] = requests[s]
    BY <1>1, <1>7 DEF Moves
  <2>2. requests' \in [Requests -> Request]
    BY <1>1, <1>7 DEF Moves
  <2>3. /\ q.pc = "idle" => ~q.slot
        /\ q.pc \in {"read", "store", "reply"} => q.delivery \in Deliveries
        /\ q.pc = "store" => MergeRequestEvent(q.delivery)
        /\ q.pc = "reply" /\ q.ok => Stored(q.delivery)'
    BY <1>7 DEF Moves
  <2>4. /\ acked' \subseteq Deliveries
        /\ \A d \in acked' : Stored(d)
    BY <1>1, <1>7 DEF Moves, Handling, Durable
  <2>5. Handling'
    BY <1>1, <1>2, <2>1, <2>3 DEF Handling, MergeRequestEvent
  <2>6. TypeOK'
    BY <1>1, <1>2, <1>3, <2>2, <2>4 DEF TypeOK
  <2>7. ASSUME NEW s \in Requests, requests'[s].pc = "reply", requests'[s].ok
        PROVE  Stored(requests[s].delivery)'
    <3>1. CASE s = r
      BY <2>1, <2>3, <2>7, <3>1 DEF Stored, MergeRequestEvent
    <3>2. CASE s # r
      <4>1. requests[s].delivery \in Deliveries /\ Stored(requests[s].delivery)
        BY <1>1, <2>1, <2>7, <3>2 DEF Handling, Durable
      <4>2. PICK d \in Deliveries : d = requests[s].delivery /\ Stored(d)
        BY <4>1
      <4>3. requests'[s].delivery = d /\ Stored(d)'
        BY <1>4, <2>1, <3>2, <4>2
      <4> QED
        BY <4>3 DEF Stored, MergeRequestEvent
    <3> QED
      BY <3>1, <3>2
  <2> QED
    BY <1>4, <2>4, <2>5, <2>6, <2>7 DEF Durable
<1> QED
  BY <1>5, <1>6, <1>7, RequestsStep

\* The admission channel counts the requests that hold a slot.
LEMMA SlotsStay ==
  ASSUME IngressInv, [Next]_vars
  PROVE  IsFiniteSet(Holders)' /\ SlotsAreReturned'
<1>1. /\ IsFiniteSet(Holders) /\ admission = Cardinality(Holders)
      /\ admission <= MaxConcurrentWebhooks /\ requests \in [Requests -> Request]
  BY DEF IngressInv, SlotsAreReturned, Holders, TypeOK
<1>2. admission \in Nat
  BY <1>1, FS_CardinalityType
<1>3. SUFFICES /\ IsFiniteSet(Holders') /\ admission' = Cardinality(Holders')
               /\ admission' <= MaxConcurrentWebhooks
  BY DEF SlotsAreReturned, Holders
<1>4. CASE UNCHANGED <<requests, acked, admission>>
  BY <1>1, <1>4 DEF Holders
<1>5. CASE requests' = [r \in Requests |-> Idle] /\ admission' = 0 /\ UNCHANGED acked
  <2>1. Holders' = {}
    BY <1>5 DEF Holders, Idle
  <2> QED
    BY <1>5, <2>1, FS_EmptySet, IngressAssumption
<1>6. ASSUME NEW r \in Requests, NEW q \in Request, Moves(r, q)
      PROVE  /\ IsFiniteSet(Holders') /\ admission' = Cardinality(Holders')
             /\ admission' <= MaxConcurrentWebhooks
  <2>1. requests'[r] = q /\ \A s \in Requests \ {r} : requests'[s] = requests[s]
    BY <1>1, <1>6 DEF Moves
  <2>2. CASE admission' = admission /\ q.slot = requests[r].slot
    <3>1. Holders' = Holders
      BY <2>1, <2>2 DEF Holders
    <3> QED
      BY <1>1, <2>2, <3>1
  <2>3. CASE /\ admission < MaxConcurrentWebhooks /\ admission' = admission + 1
             /\ ~requests[r].slot /\ q.slot
    <3>1. Holders' = Holders \cup {r} /\ r \notin Holders
      BY <2>1, <2>3 DEF Holders
    <3>2. IsFiniteSet(Holders') /\ Cardinality(Holders') = Cardinality(Holders) + 1
      BY <1>1, <3>1, FS_AddElement
    <3> QED
      BY <1>1, <1>2, <2>3, <3>2, IngressAssumption
  <2>4. CASE admission' = admission - 1 /\ requests[r].slot /\ ~q.slot
    <3>1. Holders' = Holders \ {r} /\ r \in Holders
      BY <2>1, <2>4 DEF Holders
    <3>2. IsFiniteSet(Holders') /\ Cardinality(Holders') = Cardinality(Holders) - 1
      BY <1>1, <3>1, FS_RemoveElement
    <3> QED
      BY <1>1, <1>2, <2>4, <3>2, IngressAssumption
  <2> QED
    BY <1>6, <2>2, <2>3, <2>4 DEF Moves
<1> QED
  BY <1>4, <1>5, <1>6, RequestsStep

-----------------------------------------------------------------------------
(* The invariant. *)

LEMMA IngressInvInit == Init => IngressInv
<1> SUFFICES ASSUME Init PROVE IngressInv
  OBVIOUS
<1>1. FInv
  BY FInvInit DEF Init
<1>2. Idle \in Request /\ Idle.pc = "idle" /\ Idle.slot = FALSE
  BY DEF Idle, Request
<1>3. TypeOK /\ Handling /\ Durable
  BY <1>2 DEF Init, TypeOK, Handling, Durable
<1>4. EventsKnown
  BY DEF Init, InitFeedback, EventsKnown, Answered
<1>5. Holders = {}
  BY <1>2 DEF Init, Holders
<1>6. IsFiniteSet(Holders) /\ SlotsAreReturned
  <2>1. IsFiniteSet(Holders) /\ Cardinality(Holders) = 0
    BY <1>5, FS_EmptySet
  <2>2. admission = 0 /\ 0 <= MaxConcurrentWebhooks
    BY IngressAssumption DEF Init
  <2> QED
    BY <2>1, <2>2 DEF SlotsAreReturned, Holders
<1> QED
  BY <1>1, <1>3, <1>4, <1>6 DEF IngressInv

LEMMA IngressInvPreserved == IngressInv /\ [Next]_vars => IngressInv'
<1> SUFFICES ASSUME IngressInv, [Next]_vars PROVE IngressInv'
  OBVIOUS
<1>1. FInv'
  BY DatabaseStep, FInvPreserved DEF IngressInv
<1> QED
  BY <1>1, EventsKnownStays, RequestsStay, SlotsStay DEF IngressInv

LEMMA IngressInvariance == Spec => []IngressInv
BY IngressInvInit, IngressInvPreserved, PTL DEF Spec

-----------------------------------------------------------------------------
(* Theorems. *)

\* A merge request event that GitLab saw acknowledged is stored with the job it
\* asked for, whatever answers are lost, transactions fail with an unknown
\* outcome or crashes come between commit and response.
THEOREM AcknowledgedIsStored == Spec => []AckedIsDurable
<1>1. IngressInv => AckedIsDurable
  <2> SUFFICES ASSUME IngressInv, NEW d \in acked, MergeRequestEvent(d)
               PROVE  /\ events[d] # NULL
                      /\ content[d].kind = "review" => ~HasState(content[d].about, "absent")
                      /\ events[d] \in {"feedback_queued", "duplicate_feedback"} =>
                           ~FeedbackHasState(MergeRequestOf(content[d].about), "absent")
    BY DEF AckedIsDurable
  <2>1. d \in Deliveries /\ events[d] # NULL
    BY DEF IngressInv, TypeOK, Durable, Stored
  <2>2. EventFits(d)
    BY <2>1 DEF IngressInv, EventsKnown
  <2> QED
    BY <2>1, <2>2 DEF EventFits
<1> QED
  BY <1>1, IngressInvariance, PTL

\* However often a delivery is sent, one after the other or at the same time,
\* AcceptEvent returns one result: the recorded outcome and the same job.
THEOREM DeliveriesResolveAlike == Spec => []DuplicatesResolveAlike
<1>1. IngressInv => DuplicatesResolveAlike
  <2> SUFFICES ASSUME IngressInv, NEW d \in Deliveries PROVE Cardinality(answers[d]) <= 1
    BY DEF DuplicatesResolveAlike
  <2>1. CASE answers[d] = {}
    BY <2>1, FS_EmptySet
  <2>2. CASE answers[d] = {Result(d)}
    <3>1. Cardinality({Result(d)}) = 1
      BY FS_Singleton
    <3> QED
      BY <2>2, <3>1
  <2> QED
    BY <2>1, <2>2 DEF IngressInv, EventsKnown, Answered
<1> QED
  BY <1>1, IngressInvariance, PTL

\* No path through the handler, and no crash, loses a slot of the admission
\* channel or gives back one it does not hold.
THEOREM SlotsAreKept == Spec => []SlotsAreReturned
<1>1. IngressInv => SlotsAreReturned
  BY DEF IngressInv
<1> QED
  BY <1>1, IngressInvariance, PTL

\* The handler uses the database as specified: what is proved of its tables
\* holds while webhooks, workers and crashes interleave.
THEOREM IngressKeepsContract == Spec => SpecFeedback
<1>1. Init => InitDatabase
  BY DEF Init, InitDatabase
<1>2. IngressInv /\ [Next]_vars => [NextFeedback]_<<storeVars, feedbackVars>>
  BY DatabaseStep
<1> QED
  BY <1>1, <1>2, IngressInvariance, PTL DEF Spec, SpecFeedback

\* Therefore deliveries that are repeated, lost or served at once, and crashes
\* between commit and answer, do nothing to a revision that its abstract
\* lifecycle does not allow: above all, none reopens an answered revision.
THEOREM IngressImplementsLifecycle == Spec => ImplementsLifecycle
BY IngressKeepsContract, DatabaseUsesReviewStore, StoreImplementsLifecycle
-----------------------------------------------------------------------------
(* Reconciliation.                                                         *)
(*                                                                         *)
(* A page boundary is a number of places, and the list only grows while    *)
(* no merge request leaves it: so a merge request that was listed when the *)
(* scan began can only move to later pages, never behind the scan.         *)

Row == [open : BOOLEAN, head : Heads, ready : BOOLEAN]
ScanTypes ==
  /\ jobs = [i \in Identity |-> jobs[i]]
  /\ mrs \in [MergeRequests -> Row]
  /\ DOMAIN batch \subseteq MergeRequests /\ \A m \in DOMAIN batch : batch[m] \in Row
  /\ page \in Nat /\ next \in {0, page + 1}
  /\ pc \in {"idle", "resolve", "list", "insert"}
  /\ pc = "resolve" => page = 1
  /\ shrunk \in BOOLEAN

\* The ghost variable means what it says: a stable identity is listed as ready.
StableIsReady ==
  /\ pc = "idle" => stable = {}
  /\ \A i \in stable : \E m \in MergeRequests :
       i = ReadyIdentity(m) /\ Listed(m) /\ mrs[m].ready

\* Where a stable merge request is: in the store, on the page being inserted as
\* it is now, or on a page that will still be listed.
Ahead(m) ==
  \/ Known(ReadyIdentity(m))
  \/ /\ pc \in {"resolve", "list"}
     /\ (page - 1) * PageSize <= Position(m)
  \/ /\ pc = "insert"
     /\ \/ m \in DOMAIN batch /\ batch[m].ready /\ batch[m].head = mrs[m].head
        \/ next # 0 /\ page * PageSize <= Position(m)
NoneIsMissed == ~shrunk => \A m \in MergeRequests : ReadyIdentity(m) \in stable => Ahead(m)

ScanInv == ScanTypes /\ StableIsReady /\ NoneIsMissed

\* The lists of merge requests are finite, so that positions are numbers.
LEMMA PositionsAreNumbers ==
  ASSUME NEW m \in MergeRequests PROVE IsFiniteSet(Newer(m)) /\ Position(m) \in Nat
<1>1. Newer(m) \in SUBSET MergeRequests
  BY DEF Newer
<1> QED BY <1>1, ReconcilerAssumption, FS_Subset, FS_CardinalityType DEF Position

\* A listed merge request has its place within the list.
LEMMA PositionIsWithin ==
  ASSUME NEW m \in MergeRequests, Listed(m)
  PROVE  /\ Position(m) < Cardinality({n \in MergeRequests : Listed(n)})
         /\ Cardinality({n \in MergeRequests : Listed(n)}) \in Nat
<1> DEFINE all == {n \in MergeRequests : Listed(n)}
<1>1. all \in SUBSET MergeRequests /\ Newer(m) \in SUBSET all /\ m \in all /\ m \notin Newer(m)
  BY ReconcilerAssumption DEF Newer
<1>2. IsFiniteSet(all) /\ Cardinality(all) \in Nat
  BY <1>1, ReconcilerAssumption, FS_Subset, FS_CardinalityType
<1>3. Position(m) <= Cardinality(all) /\ Position(m) # Cardinality(all)
  BY <1>1, <1>2, FS_Subset DEF Position
<1> QED BY <1>2, <1>3, PositionsAreNumbers

\* The empty scan.
LEMMA ScanInvInit == InitScan => ScanInv
<1> SUFFICES ASSUME InitScan PROVE ScanInv
  OBVIOUS
<1>1. (CHOOSE h \in Heads : TRUE) \in Heads
  BY ReconcilerAssumption
<1>2. ScanTypes
  <2>1. mrs \in [MergeRequests -> Row]
    BY <1>1 DEF InitScan, Row
  <2>2. jobs = [i \in Identity |-> jobs[i]]
    BY DEF InitScan, InitStore
  <2>3. DOMAIN batch = {}
    BY DEF InitScan
  <2> QED BY <2>1, <2>2, <2>3 DEF InitScan, ScanTypes
<1> QED BY <1>2 DEF InitScan, ScanInv, StableIsReady, NoneIsMissed

\* A merge request changes: what was known stays known, a stable one does not
\* change, and while none leaves the list no place in it moves forward.
LEMMA ChangeScan ==
  ASSUME ScanInv, NEW m \in MergeRequests, NEW row \in Row, Change(m, row)
  PROVE  ScanInv'
<1>1. /\ mrs' = [mrs EXCEPT ![m] = row] /\ mrs' \in [MergeRequests -> Row]
      /\ mrs \in [MergeRequests -> Row]
      /\ stable' = {i \in stable : MergeRequestOf(i) # m \/
                                   (row.open /\ row.ready /\ row.head = HeadOf(i))}
      /\ shrunk' = (shrunk \/ (Listed(m) /\ ~row.open))
      /\ UNCHANGED <<jobs, pc, at, page, batch, next>>
  BY DEF Change, ScanInv, ScanTypes, storeVars, scanVars
<1>2. ScanTypes'
  BY <1>1 DEF ScanInv, ScanTypes
<1>3. ASSUME NEW n \in MergeRequests, ReadyIdentity(n)' \in stable'
      PROVE  /\ ReadyIdentity(n)' = ReadyIdentity(n) /\ ReadyIdentity(n) \in stable
             /\ mrs'[n].head = mrs[n].head
  <2>1. PICK k \in MergeRequests : ReadyIdentity(n)' = ReadyIdentity(k)
    BY <1>1, <1>3 DEF ScanInv, StableIsReady
  <2>2. k = n /\ mrs'[n].head = mrs[n].head
    BY <2>1 DEF ReadyIdentity
  <2> QED BY <1>1, <1>3, <2>1, <2>2
<1>4. StableIsReady'
  <2>1. ASSUME NEW i \in stable' PROVE \E n \in MergeRequests :
          i = ReadyIdentity(n)' /\ Listed(n)' /\ mrs'[n].ready
    <3>1. PICK n \in MergeRequests : i = ReadyIdentity(n) /\ Listed(n) /\ mrs[n].ready
      BY <1>1, <2>1 DEF ScanInv, StableIsReady
    <3>2. MergeRequestOf(i) = n /\ HeadOf(i) = mrs[n].head
      BY <3>1 DEF ReadyIdentity, MergeRequestOf, HeadOf
    <3>3. mrs'[n].open /\ mrs'[n].ready /\ mrs'[n].head = mrs[n].head
      <4>1. CASE n = m
        BY <1>1, <2>1, <3>2, <4>1
      <4>2. CASE n # m
        BY <1>1, <3>1, <4>2 DEF Listed
      <4> QED BY <4>1, <4>2
    <3> QED BY <1>1, <3>1, <3>3 DEF ReadyIdentity, Listed
  <2> QED BY <1>1, <2>1 DEF ScanInv, StableIsReady
<1>5. ASSUME NEW n \in MergeRequests, ~shrunk' PROVE Position(n) <= Position(n)'
  <2>1. Newer(n)' \in SUBSET MergeRequests
    BY DEF Newer
  <2>2. \A k \in MergeRequests : Listed(k) => Listed(k)'
    BY <1>1, <1>5 DEF Listed
  <2>3. Newer(n) \in SUBSET Newer(n)'
    BY <2>2 DEF Newer
  <2>4. IsFiniteSet(Newer(n)')
    BY <2>1, ReconcilerAssumption, FS_Subset
  <2> QED BY <2>3, <2>4, FS_Subset DEF Position
<1>6. NoneIsMissed'
  <2> SUFFICES ASSUME ~shrunk', NEW n \in MergeRequests, ReadyIdentity(n)' \in stable'
               PROVE  Ahead(n)'
    BY DEF NoneIsMissed
  <2>1. /\ ReadyIdentity(n)' = ReadyIdentity(n) /\ mrs'[n].head = mrs[n].head
        /\ Ahead(n)
    BY <1>1, <1>3 DEF ScanInv, NoneIsMissed
  <2>2. Position(n) <= Position(n)' /\ Position(n) \in Nat
    BY <1>5, PositionsAreNumbers
  <2>3. Position(n)' \in Nat
    <3>1. IsFiniteSet(Newer(n)')
      <4>1. Newer(n)' \in SUBSET MergeRequests
        BY DEF Newer
      <4> QED BY <4>1, ReconcilerAssumption, FS_Subset
    <3> QED BY <3>1, FS_CardinalityType DEF Position
  <2>4. page \in Nat /\ PageSize \in Nat
    BY ReconcilerAssumption DEF ScanInv, ScanTypes
  <2>5. CASE Known(ReadyIdentity(n))
    BY <1>1, <2>1, <2>5 DEF Ahead, Known, HasState
  <2>6. ASSUME NEW b \in Int, b <= Position(n) PROVE b <= Position(n)'
    BY <2>2, <2>3, <2>6
  <2>7. (page - 1) * PageSize \in Int /\ page * PageSize \in Int
    BY <2>4
  <2>8. CASE pc \in {"resolve", "list"} /\ (page - 1) * PageSize <= Position(n)
    <3>1. (page - 1) * PageSize <= Position(n)'
      BY <2>6, <2>7, <2>8
    <3> QED BY <1>1, <2>8, <3>1 DEF Ahead
  <2>9. CASE pc = "insert" /\ m \in MergeRequests /\ n \in DOMAIN batch /\ batch[n].ready
             /\ batch[n].head = mrs[n].head
    BY <1>1, <2>1, <2>9 DEF Ahead
  <2>10. CASE pc = "insert" /\ next # 0 /\ page * PageSize <= Position(n)
    <3>1. page * PageSize <= Position(n)'
      BY <2>6, <2>7, <2>10
    <3> QED BY <1>1, <2>10, <3>1 DEF Ahead
  <2> QED BY <2>1, <2>5, <2>8, <2>9, <2>10 DEF Ahead
<1> QED BY <1>2, <1>4, <1>6 DEF ScanInv

\* The scan of a project begins, at the first page, or the cycle ends.
LEMMA BeginScan ==
  ASSUME ScanInv, NEW k, BeginProject(k), KeepGitLab, UNCHANGED storeVars
  PROVE  ScanInv'
<1>1. UNCHANGED <<jobs, mrs>>
  BY DEF KeepGitLab, storeVars
<1>2. DOMAIN batch' = {} /\ page' \in {0, 1} /\ next' = 0 /\ shrunk' = FALSE
  BY DEF BeginProject
<1>3. CASE pc' = "idle" /\ page' = 0 /\ stable' = {}
  <2>1. ScanTypes'
    BY <1>1, <1>2, <1>3 DEF ScanInv, ScanTypes
  <2> QED BY <1>3, <2>1 DEF ScanInv, StableIsReady, NoneIsMissed
<1>4. CASE pc' = "resolve" /\ at' = k /\ page' = 1 /\ stable' = ReadyNow(k)
  <2>1. ScanTypes'
    BY <1>1, <1>2, <1>4 DEF ScanInv, ScanTypes
  <2>2. StableIsReady'
    BY <1>1, <1>4 DEF StableIsReady, ReadyNow, ReadyIdentity, Listed
  <2>3. ASSUME NEW m \in MergeRequests PROVE Ahead(m)'
    <3>1. Newer(m)' \in SUBSET MergeRequests
      BY DEF Newer
    <3>2. Position(m)' \in Nat
      BY <3>1, ReconcilerAssumption, FS_Subset, FS_CardinalityType DEF Position
    <3>3. (page' - 1) * PageSize = 0
      BY <1>4, ReconcilerAssumption
    <3> QED BY <1>4, <3>2, <3>3 DEF Ahead
  <2> QED BY <2>1, <2>2, <2>3 DEF ScanInv, NoneIsMissed
<1> QED BY <1>3, <1>4 DEF BeginProject

\* A page is listed: what is not on it comes later, and then there is a next page.
LEMMA ListScan ==
  ASSUME ScanInv, NEW k, NEW p \in 1 .. MaxPages, ListPage(k, p)
  PROVE  ScanInv'
<1> DEFINE rows == {m \in MergeRequests : /\ Listed(m)
                                         /\ (p - 1) * PageSize <= Position(m)
                                         /\ Position(m) < p * PageSize}
           all == {m \in MergeRequests : Listed(m)}
<1>1. /\ pc = "list" /\ page = p /\ pc' = "insert"
      /\ batch' = [m \in rows |-> mrs[m]]
      /\ next' = (IF Cardinality(all) > p * PageSize THEN p + 1 ELSE 0)
      /\ UNCHANGED <<jobs, mrs, at, page, stable, shrunk>>
  BY DEF ListPage, ListOpenMergeRequests, KeepGitLab, storeVars
<1>2. p \in Nat /\ PageSize \in Nat /\ MaxPages \in Nat
  BY ReconcilerAssumption
<1>3. DOMAIN batch' = rows /\ \A m \in rows : batch'[m] = mrs[m]
  BY <1>1
<1>4. ScanTypes'
  BY <1>1, <1>2, <1>3 DEF ScanInv, ScanTypes
<1>5. StableIsReady'
  BY <1>1 DEF ScanInv, StableIsReady, ReadyIdentity, Listed
<1>6. NoneIsMissed'
  <2> SUFFICES ASSUME ~shrunk, NEW m \in MergeRequests, ReadyIdentity(m) \in stable
               PROVE  Ahead(m)'
    BY <1>1 DEF NoneIsMissed, ReadyIdentity
  <2>1. Ahead(m) /\ Listed(m) /\ mrs[m].ready
    <3>1. PICK n \in MergeRequests : ReadyIdentity(m) = ReadyIdentity(n) /\ Listed(n) /\ mrs[n].ready
      BY DEF ScanInv, StableIsReady
    <3>2. n = m
      BY <3>1 DEF ReadyIdentity
    <3> QED BY <3>1, <3>2 DEF ScanInv, NoneIsMissed
  <2>2. Position(m) \in Nat /\ Position(m)' = Position(m) /\ ReadyIdentity(m)' = ReadyIdentity(m)
    BY <1>1, PositionsAreNumbers DEF Position, Newer, Listed, ReadyIdentity
  <2>3. CASE Known(ReadyIdentity(m))
    BY <1>1, <2>2, <2>3 DEF Ahead, Known, HasState
  <2>4. CASE (page - 1) * PageSize <= Position(m)
    <3>1. CASE Position(m) < p * PageSize
      <4>1. m \in rows
        BY <1>1, <2>1, <2>4, <3>1
      <4> QED BY <1>1, <1>3, <2>1, <4>1 DEF Ahead
    <3>2. CASE ~(Position(m) < p * PageSize)
      <4> DEFINE b == p * PageSize
      <4>1. b \in Nat
        BY <1>2
      <4>2. Position(m) < Cardinality(all) /\ Cardinality(all) \in Nat
        BY <2>1, PositionIsWithin
      <4>3. b <= Position(m) /\ Cardinality(all) > b
        BY <2>2, <3>2, <4>1, <4>2
      <4>4. next' # 0
        BY <1>1, <1>2, <4>3
      <4> QED BY <1>1, <2>2, <4>3, <4>4 DEF Ahead
    <3> QED BY <3>1, <3>2
  <2> QED BY <1>1, <2>1, <2>3, <2>4 DEF Ahead
<1> QED BY <1>4, <1>5, <1>6 DEF ScanInv

\* A row is inserted: a stable one becomes known.
LEMMA InsertScan ==
  ASSUME ScanInv, NEW m \in MergeRequests, InsertRow(m)
  PROVE  /\ ScanInv'
         /\ UNCHANGED storeVars \/ \E i \in Identity : CreateReviewJob(i)
<1>1. /\ pc = "insert" /\ m \in DOMAIN batch /\ batch[m] \in Row
      /\ batch' = [n \in DOMAIN batch \ {m} |-> batch[n]]
      /\ UNCHANGED <<mrs, pc, at, page, next, stable, shrunk>>
      /\ jobs = [j \in Identity |-> jobs[j]]
      /\ batch[m].ready \in BOOLEAN
  BY DEF InsertRow, NextRow, KeepGitLab, ScanInv, ScanTypes, Row
<1>2. PICK i \in Identity : i = <<m, batch[m].head>>
  BY <1>1 DEF Row, Identity
<1>3. /\ \/ ~batch[m].ready /\ UNCHANGED storeVars
         \/ ~HasState(i, "absent") /\ UNCHANGED storeVars
         \/ CreateReviewJob(i)
  BY <1>1, <1>2 DEF InsertRow
<1>4. /\ jobs' = [j \in Identity |-> jobs'[j]]
      /\ \A j \in Identity : Known(j) => Known(j)'
      /\ batch[m].ready => Known(i)'
  <2>1. CASE ~batch[m].ready /\ UNCHANGED storeVars
    BY <1>1, <2>1 DEF storeVars, Known, HasState
  <2>2. CASE ~HasState(i, "absent") /\ UNCHANGED storeVars
    BY <1>1, <2>2 DEF storeVars, Known, HasState
  <2>3. CASE CreateReviewJob(i)
    <3> DEFINE q == [NoJob EXCEPT !.id = lastID + 1, !.state = "queued", !.due = ~GracePeriod]
    <3>0. jobs' = [jobs EXCEPT ![i] = q] /\ q.state = "queued"
      BY <2>3 DEF CreateReviewJob, NoJob
    <3>1. PICK r : jobs' = [jobs EXCEPT ![i] = r] /\ r.state = "queued"
      BY <3>0
    <3>2. /\ jobs' = [j \in Identity |-> jobs'[j]] /\ jobs'[i] = r
          /\ \A j \in Identity \ {i} : jobs'[j] = jobs[j]
      BY <1>1, <1>2, <3>1
    <3> QED BY <1>2, <3>1, <3>2 DEF Known, HasState
  <2> QED BY <1>3, <2>1, <2>2, <2>3
<1>5. /\ DOMAIN batch' = DOMAIN batch \ {m}
      /\ \A n \in DOMAIN batch \ {m} : batch'[n] = batch[n]
  BY <1>1
<1>6. ScanTypes'
  BY <1>1, <1>4, <1>5 DEF ScanInv, ScanTypes
<1>7. StableIsReady'
  BY <1>1 DEF ScanInv, StableIsReady, ReadyIdentity, Listed
<1>8. NoneIsMissed'
  <2> SUFFICES ASSUME ~shrunk, NEW n \in MergeRequests, ReadyIdentity(n) \in stable
               PROVE  Ahead(n)'
    BY <1>1 DEF NoneIsMissed, ReadyIdentity
  <2>1. Ahead(n)
    BY DEF ScanInv, NoneIsMissed
  <2>2. /\ Position(n)' = Position(n) /\ ReadyIdentity(n)' = ReadyIdentity(n)
        /\ ReadyIdentity(n) \in Identity
    BY <1>1 DEF Position, Newer, Listed, ReadyIdentity, ScanInv, ScanTypes, Row, Identity
  <2>3. CASE Known(ReadyIdentity(n))
    <3>1. Known(ReadyIdentity(n))'
      BY <1>4, <2>2, <2>3 DEF Known, HasState
    <3> QED BY <3>1 DEF Ahead
  <2>4. CASE n \in DOMAIN batch /\ batch[n].ready /\ batch[n].head = mrs[n].head
    <3>1. CASE n = m
      <4>1. ReadyIdentity(n) = i /\ Known(i)'
        BY <1>2, <1>4, <2>4, <3>1 DEF ReadyIdentity
      <4>2. Known(ReadyIdentity(n))'
        BY <2>2, <4>1 DEF Known, HasState
      <4> QED BY <4>2 DEF Ahead
    <3>2. CASE n # m
      BY <1>1, <1>5, <2>4, <3>2 DEF Ahead
    <3> QED BY <3>1, <3>2
  <2>5. CASE next # 0 /\ page * PageSize <= Position(n)
    BY <1>1, <2>2, <2>5 DEF Ahead
  <2> QED BY <1>1, <2>1, <2>3, <2>4, <2>5 DEF Ahead
<1> QED BY <1>2, <1>3, <1>6, <1>7, <1>8 DEF ScanInv

LEMMA TurnScan ==
  ASSUME ScanInv, TurnPage
  PROVE  ScanInv'
<1>1. CASE BeginProject(at + 1)
  BY <1>1, BeginScan DEF TurnPage
<1>2. CASE /\ next # 0 /\ pc' = "list" /\ page' = next /\ next' = 0
           /\ UNCHANGED <<at, batch, stable, shrunk>>
  <2>1. /\ pc = "insert" /\ DOMAIN batch = {} /\ UNCHANGED <<jobs, mrs>>
        /\ page \in Nat /\ page' = page + 1 /\ page' - 1 = page
    BY <1>2 DEF TurnPage, KeepGitLab, storeVars, ScanInv, ScanTypes
  <2>2. ScanTypes'
    BY <1>2, <2>1 DEF ScanInv, ScanTypes
  <2>3. StableIsReady'
    BY <1>2, <2>1 DEF ScanInv, StableIsReady, ReadyIdentity, Listed
  <2>4. NoneIsMissed'
    <3> SUFFICES ASSUME ~shrunk, NEW m \in MergeRequests, ReadyIdentity(m) \in stable
                 PROVE  Ahead(m)'
      BY <1>2, <2>1 DEF NoneIsMissed, ReadyIdentity
    <3>1. Position(m)' = Position(m) /\ ReadyIdentity(m)' = ReadyIdentity(m)
      BY <1>2, <2>1 DEF Position, Newer, Listed, ReadyIdentity
    <3>2. Known(ReadyIdentity(m)) \/ page * PageSize <= Position(m)
      BY <2>1 DEF ScanInv, NoneIsMissed, Ahead
    <3>3. CASE Known(ReadyIdentity(m))
      BY <2>1, <3>1, <3>3 DEF Ahead, Known, HasState
    <3>4. CASE page * PageSize <= Position(m)
      <4>1. (page' - 1) * PageSize = page * PageSize
        BY <2>1
      <4> QED BY <1>2, <3>1, <3>4, <4>1 DEF Ahead
    <3> QED BY <3>2, <3>3, <3>4
  <2> QED BY <2>2, <2>3, <2>4 DEF ScanInv
<1> QED BY <1>1, <1>2 DEF TurnPage

\* A step that changes only where the scan is within its present page.
LEMMA ResolveScan ==
  ASSUME ScanInv,
         \/ pc = "resolve" /\ pc' = "list"
         \/ pc' = pc,
         UNCHANGED <<jobs, mrs, at, page, batch, next, stable, shrunk>>
  PROVE  ScanInv'
<1>1. ScanTypes'
  BY DEF ScanInv, ScanTypes
<1>2. StableIsReady'
  BY DEF ScanInv, StableIsReady, ReadyIdentity, Listed
<1>3. ASSUME NEW m \in MergeRequests, Ahead(m) PROVE Ahead(m)'
  <2>1. Position(m)' = Position(m) /\ ReadyIdentity(m)' = ReadyIdentity(m)
    BY DEF Position, Newer, Listed, ReadyIdentity
  <2>2. Known(ReadyIdentity(m))' <=> Known(ReadyIdentity(m))
    BY <2>1 DEF Known, HasState
  <2> QED BY <1>3, <2>1, <2>2 DEF Ahead
<1>4. NoneIsMissed'
  BY <1>3 DEF ScanInv, NoneIsMissed, ReadyIdentity
<1> QED BY <1>1, <1>2, <1>4 DEF ScanInv

\* Every change of a merge request is a Change to a row.
LEMMA ChangesAreRows ==
  ASSUME ScanInv, NEW m \in MergeRequests,
         Opens(m) \/ Closes(m) \/ Pushed(m) \/ DraftToggled(m)
  PROVE  \E row \in Row : Change(m, row)
<1>1. mrs[m] \in Row
  BY DEF ScanInv, ScanTypes
<1>2. CASE Opens(m)
  BY <1>1, <1>2 DEF Opens, Row
<1>3. CASE Closes(m)
  BY <1>1, <1>3 DEF Closes, Row
<1>4. CASE Pushed(m)
  BY <1>1, <1>4 DEF Pushed, Row
<1>5. CASE DraftToggled(m)
  BY <1>1, <1>5 DEF DraftToggled, Row
<1> QED BY <1>2, <1>3, <1>4, <1>5

\* What a step of the reconciler, or of GitLab, does to the scan and the store.
LEMMA ScanStep ==
  ASSUME ScanInv, [NextScan]_reconcilerVars
  PROVE  /\ ScanInv'
         /\ UNCHANGED storeVars \/ \E i \in Identity : CreateReviewJob(i)
<1>1. ASSUME NEW m \in MergeRequests, Opens(m) \/ Closes(m) \/ Pushed(m) \/ DraftToggled(m)
      PROVE  ScanInv' /\ UNCHANGED storeVars
  <2>1. PICK row \in Row : Change(m, row)
    BY <1>1, ChangesAreRows
  <2> QED BY <2>1, ChangeScan DEF Change
<1>2. CASE StartScan \/ ScanFails
  BY <1>2, BeginScan DEF StartScan, ScanFails
<1>3. CASE TurnPage
  BY <1>3, TurnScan DEF TurnPage
<1>4. ASSUME NEW k \in DOMAIN Projects, ResolveProject(k) PROVE ScanInv' /\ UNCHANGED storeVars
  <2>1. /\ pc = "resolve" /\ pc' = "list" /\ UNCHANGED storeVars
        /\ UNCHANGED <<jobs, mrs, at, page, batch, next, stable, shrunk>>
    BY <1>4 DEF ResolveProject, KeepGitLab, storeVars
  <2> QED BY <2>1, ResolveScan
<1>5. ASSUME NEW k \in DOMAIN Projects, NEW p \in 1 .. MaxPages, ListPage(k, p)
      PROVE  ScanInv' /\ UNCHANGED storeVars
  BY <1>5, ListScan DEF ListPage
<1>6. ASSUME NEW m \in MergeRequests, InsertRow(m)
      PROVE  /\ ScanInv'
             /\ UNCHANGED storeVars \/ \E i \in Identity : CreateReviewJob(i)
  BY <1>6, InsertScan
<1>7. CASE UNCHANGED reconcilerVars
  <2>1. UNCHANGED storeVars /\ UNCHANGED <<jobs, mrs, pc, at, page, batch, next, stable, shrunk>>
    BY <1>7 DEF reconcilerVars, scanVars, storeVars
  <2> QED BY <2>1, ResolveScan
<1> QED BY <1>1, <1>2, <1>3, <1>4, <1>5, <1>6, <1>7 DEF NextScan

LEMMA ScanInvariance == SpecScan => []ScanInv
<1>1. ScanInv /\ [NextScan]_reconcilerVars => ScanInv'
  BY ScanStep
<1> QED BY <1>1, ScanInvInit, PTL DEF SpecScan

\* A scan of a project that ends without an error misses no merge request that
\* was ready all along, for lists and pages of any size, although the list may
\* grow, heads move and drafts change between two pages; only a merge request
\* that leaves the list can push another one behind the scan.
THEOREM ScansMissNothing == SpecScan => []ScanCoversProject
<1>1. ScanInv => ScanCoversProject
  <2> SUFFICES ASSUME ScanInv, Finished, ~shrunk, NEW i \in stable PROVE Known(i)
    BY DEF ScanCoversProject
  <2>1. PICK m \in MergeRequests : i = ReadyIdentity(m)
    BY DEF ScanInv, StableIsReady
  <2>2. Ahead(m)
    BY <2>1 DEF ScanInv, NoneIsMissed
  <2> QED BY <2>1, <2>2 DEF Ahead, Finished
<1> QED BY <1>1, ScanInvariance, PTL

\* The reconciler keeps the contract of the review store, and hence everything
\* that is proved of it holds in a reconciled database.
THEOREM ReconcilerKeepsContract == SpecScan => SpecStore
<1>1. InitScan => InitStore
  BY DEF InitScan
<1>2. ScanInv /\ [NextScan]_reconcilerVars => [NextStore]_storeVars
  BY ScanStep DEF NextStore
<1> QED BY <1>1, <1>2, ScanInvariance, PTL DEF SpecScan, SpecStore
===============================================================================
