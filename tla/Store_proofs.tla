----------------------------- MODULE Store_proofs -----------------------------
(***************************************************************************)
(* Machine-checked proofs about the database: the review tables of         *)
(* ReviewJobs first, then the feedback and event tables of FeedbackJobs,   *)
(* which rest on them.  They hold for every set of merge requests, heads,  *)
(* patch IDs, notes and deliveries and every bound on the attempts.        *)
(***************************************************************************)
EXTENDS FeedbackJobs, TLAPS

-----------------------------------------------------------------------------
(* The review tables. *)

\* What must hold of one row for the promises to be kept: the promises need
\* each other.  A canonical job keeps its patch, review and publication
\* because it is completed, which is final; a completed job has an answer
\* because state and publication commit together; an alias stays without a
\* review because it is completed; and a row that is not there has nothing.
RowInv(i) ==
  /\ jobs[i].patch_status = "available" <=> jobs[i].patch_sha # NULL
  /\ HasState(i, "completed") <=> (publications[i] # NULL \/ jobs[i].equivalent_to # NULL)
  /\ publications[i] = NULL \/ jobs[i].equivalent_to = NULL
  /\ results[i] # NULL => jobs[i].patch_status \in {"available", "unavailable"}
  /\ HasState(i, "absent") => /\ results[i] = NULL
                              /\ jobs[i].patch_status = "unknown" /\ jobs[i].attempts = 0
  /\ jobs[i].equivalent_to # NULL =>
       /\ jobs[i].equivalent_to # i
       /\ jobs[i].patch_status = "available"
       /\ results[i] = NULL
       /\ MergeRequestOf(jobs[i].equivalent_to) = MergeRequestOf(i)
       /\ Canonical(jobs[i].equivalent_to, jobs[i].patch_sha)

\* The inductive invariant.
IInv == TypeOKStore /\ \A i \in Identity : RowInv(i)

LEMMA InitEstablishes == InitStore => IInv
BY ReviewJobsAssumption
   DEF InitStore, IInv, TypeOKStore, RowInv, HasState, NoJob, Job, JobState, PatchIDStatus

\* The states and patch-ID statuses the transactions write.
LEMMA StatesListed ==
  /\ "queued" \in JobState /\ "running" \in JobState /\ "completed" \in JobState
  /\ "failed" \in JobState /\ "obsolete" \in JobState
  /\ "unknown" \in PatchIDStatus /\ "pending" \in PatchIDStatus
  /\ "available" \in PatchIDStatus
BY DEF JobState, PatchIDStatus

LEMMA RequeuedTyped == ASSUME NEW row \in Job, NEW due \in BOOLEAN PROVE Requeued(row, due) \in Job
BY StatesListed DEF Requeued, Job

LEMMA NoJobTyped == NoJob \in Job
BY ReviewJobsAssumption DEF NoJob, Job, JobState, PatchIDStatus

LEMMA NewJobTyped ==
  ASSUME NEW row \in Job, NEW id \in Nat, NEW due \in BOOLEAN
  PROVE  [row EXCEPT !.id = id, !.state = "queued", !.due = due] \in Job
BY StatesListed DEF Job

LEMMA SettledJobTyped ==
  ASSUME NEW row \in Job, NEW status \in PatchIDStatus, NEW sha \in PatchIDs \cup {NULL}
  PROVE  [row EXCEPT !.patch_status = status, !.patch_sha = sha] \in Job
BY DEF Job

\* Every transaction of the store preserves the types.
LEMMA TypePreserved == TypeOKStore /\ [NextStore]_storeVars => TypeOKStore'
<1> SUFFICES ASSUME TypeOKStore, [NextStore]_storeVars PROVE TypeOKStore'
  OBVIOUS
<1> USE StatesListed DEF TypeOKStore
<1>1. CASE RecoverInterruptedJobs
  BY <1>1, RequeuedTyped DEF RecoverInterruptedJobs
<1>2. ASSUME NEW i \in Identity, CreateReviewJob(i) PROVE TypeOKStore'
  <2>1. [NoJob EXCEPT !.id = lastID + 1, !.state = "queued", !.due = ~GracePeriod] \in Job
    <3>1. lastID + 1 \in Nat
      OBVIOUS
    <3>2. (~GracePeriod) \in BOOLEAN
      OBVIOUS
    <3> QED
      BY <3>1, <3>2, NoJobTyped, NewJobTyped
  <2> QED
    BY <1>2, <2>1 DEF CreateReviewJob
<1>3. ASSUME NEW i \in Identity, BecomeDue(i) PROVE TypeOKStore'
  BY <1>3, ZenonT(60) DEF BecomeDue, Job
<1>4. ASSUME NEW i \in Identity, ClaimSelectedJob(i) PROVE TypeOKStore'
  <2>1. jobs[i].attempts + 1 \in 0 .. MaxJobAttempts
    BY <1>4, ReviewJobsAssumption DEF ClaimSelectedJob, Selectable, Job
  <2> QED
    BY <1>4, <2>1 DEF ClaimSelectedJob, Job
<1>5. ASSUME NEW i \in Identity, DeferCI(i) PROVE TypeOKStore'
  <2>1. [jobs[i] EXCEPT !.waiting_on_ci = TRUE, !.due = FALSE] \in Job
    BY ZenonT(60) DEF Job
  <2> QED
    BY <1>5, <2>1 DEF DeferCI
<1>6. ASSUME NEW i \in Identity, DeferPendingPatchID(i) PROVE TypeOKStore'
  BY <1>6 DEF DeferPendingPatchID, Job
<1>7. ASSUME NEW i \in Identity, NEW c \in Identity, NEW sha \in PatchIDs,
             CompleteEquivalentReview(i, c, sha)
      PROVE  TypeOKStore'
  BY <1>7 DEF CompleteEquivalentReview, Job
<1>8. ASSUME NEW i \in Identity, NEW n \in 0 .. MaxFindings, NEW status \in PatchIDStatus,
             NEW sha \in PatchIDs \cup {NULL}, SaveReviewResult(i, n, status, sha)
      PROVE  TypeOKStore'
  <2>1. [jobs[i] EXCEPT !.patch_status = status, !.patch_sha = sha] \in Job
    <3>1. jobs[i] \in Job
      OBVIOUS
    <3> QED
      BY <3>1, SettledJobTyped
  <2>2. findings[i] + n \in 0 .. MaxFindings
    BY <1>8, ReviewJobsAssumption DEF SaveReviewResult
  <2>3. jobs' \in [Identity -> Job]
    BY <1>8, <2>1 DEF SaveReviewResult
  <2>4. findings' \in [Identity -> 0 .. MaxFindings]
    BY <1>8, <2>2 DEF SaveReviewResult
  <2>5. results' \in [Identity -> (0 .. MaxFindings) \cup {NULL}]
    BY <1>8 DEF SaveReviewResult
  <2> QED
    BY <1>8, <2>3, <2>4, <2>5 DEF SaveReviewResult
<1>9. ASSUME NEW i \in Identity, RetryJob(i) PROVE TypeOKStore'
  BY <1>9, RequeuedTyped DEF RetryJob
<1>10. ASSUME NEW i \in Identity, NEW state \in {"failed", "obsolete"}, FinishJob(i, state)
       PROVE  TypeOKStore'
  BY <1>10 DEF FinishJob, Job
<1>11. ASSUME NEW i \in Identity, NEW note \in NoteIDs, CompletePublication(i, note)
       PROVE  TypeOKStore'
  <2>1. [jobs[i] EXCEPT !.state = "completed"] \in Job
    BY DEF Job
  <2>2. [jobs[i] EXCEPT !.state = "completed", !.patch_status = "unknown",
                        !.patch_sha = NULL] \in Job
    BY ZenonT(60) DEF Job
  <2> QED
    BY <1>11, <2>1, <2>2 DEF CompletePublication
<1>12. ASSUME NEW i \in Identity, RetryFailedReviewJob(i) PROVE TypeOKStore'
  <2>1. 0 \in 0 .. MaxJobAttempts
    BY ReviewJobsAssumption
  <2>2. [jobs[i] EXCEPT !.state = "queued", !.attempts = 0, !.due = TRUE] \in Job
    BY <2>1, ZenonT(60) DEF Job
  <2> QED
    BY <1>12, <2>2 DEF RetryFailedReviewJob
<1>13. CASE UNCHANGED storeVars
  BY <1>13 DEF storeVars
<1> QED
  BY <1>1, <1>2, <1>3, <1>4, <1>5, <1>6, <1>7, <1>8, <1>9, <1>10, <1>11, <1>12, <1>13
     DEF NextStore

\* The review tables are always well typed.
THEOREM TypeCorrect == SpecStore => []TypeOKStore
<1>1. InitStore => TypeOKStore
  BY InitEstablishes DEF IInv
<1> QED
  BY <1>1, TypePreserved, PTL DEF SpecStore

-----------------------------------------------------------------------------
\* A transaction that changes one row that was not completed preserves the
\* invariant when the row it leaves is right by itself: nobody refers to it.
LEMMA OneRow ==
  ASSUME IInv, TypeOKStore', NEW i \in Identity,
         ~HasState(i, "completed"),
         \A k \in Identity \ {i} : /\ jobs'[k] = jobs[k]
                                   /\ results'[k] = results[k]
                                   /\ publications'[k] = publications[k],
         RowInv(i)'
  PROVE  IInv'
<1> SUFFICES ASSUME NEW k \in Identity, k # i PROVE RowInv(k)'
  BY DEF IInv
<1>1. RowInv(k)
  BY DEF IInv
<1>2. jobs'[k] = jobs[k] /\ results'[k] = results[k] /\ publications'[k] = publications[k]
  OBVIOUS
<1>3. CASE jobs[k].equivalent_to = NULL
  BY <1>1, <1>2, <1>3 DEF RowInv, HasState
<1>4. CASE jobs[k].equivalent_to # NULL
  <2> DEFINE c == jobs[k].equivalent_to
  <2>1. c \in Identity
    BY <1>4 DEF IInv, TypeOKStore, Job
  <2>2. c # i
    BY <1>1, <1>4 DEF RowInv, Canonical
  <2>3. Canonical(c, jobs[k].patch_sha)'
    BY <1>1, <1>2, <1>4, <2>1, <2>2 DEF RowInv, Canonical, HasState
  <2> QED
    BY <1>1, <1>2, <1>4, <2>3 DEF RowInv, HasState
<1> QED
  BY <1>3, <1>4

\* Every transaction of the store preserves the inductive invariant.
LEMMA InvPreserved == IInv /\ [NextStore]_storeVars => IInv'
<1> SUFFICES ASSUME IInv, [NextStore]_storeVars PROVE IInv'
  OBVIOUS
<1>0. TypeOKStore'
  BY TypePreserved DEF IInv
<1> USE <1>0
<1>2. ASSUME NEW i \in Identity, CreateReviewJob(i)
     PROVE  IInv'
  <2>1. RowInv(i) /\ jobs[i] \in Job
    BY DEF IInv, TypeOKStore
  <2>2. /\ jobs'[i].state = "queued" /\ jobs'[i].patch_status = "unknown"
        /\ jobs'[i].patch_sha = NULL /\ jobs'[i].equivalent_to = NULL
        /\ results[i] = NULL /\ publications[i] = NULL
    BY <1>2, <2>1 DEF CreateReviewJob, TypeOKStore, IInv, Job, HasState, NoJob, RowInv
  <2>3. RowInv(i)'
    BY <1>2, <2>1, <2>2, NullAssumption DEF CreateReviewJob, RowInv, HasState
  <2>4. ~HasState(i, "completed")
    BY <1>2 DEF CreateReviewJob, HasState
  <2> QED
    BY <1>2, <2>3, <2>4, OneRow DEF CreateReviewJob, IInv, TypeOKStore
<1>3. ASSUME NEW i \in Identity, BecomeDue(i)
     PROVE  IInv'
  <2>1. RowInv(i) /\ jobs[i] \in Job
    BY DEF IInv, TypeOKStore
  <2>2. /\ jobs'[i].state = "queued" /\ jobs[i].state = "queued"
        /\ jobs'[i].patch_status = jobs[i].patch_status /\ jobs'[i].patch_sha = jobs[i].patch_sha
        /\ jobs'[i].equivalent_to = jobs[i].equivalent_to
    BY <1>3, <2>1 DEF BecomeDue, TypeOKStore, IInv, Job, HasState
  <2>3. RowInv(i)'
    BY <1>3, <2>1, <2>2, NullAssumption DEF BecomeDue, RowInv, HasState
  <2>4. ~HasState(i, "completed")
    BY <1>3 DEF BecomeDue, HasState
  <2> QED
    BY <1>3, <2>3, <2>4, OneRow DEF BecomeDue, IInv, TypeOKStore
<1>4. ASSUME NEW i \in Identity, ClaimSelectedJob(i)
     PROVE  IInv'
  <2>1. RowInv(i) /\ jobs[i] \in Job
    BY DEF IInv, TypeOKStore
  <2>2. /\ jobs'[i].state = "running" /\ jobs[i].state = "queued"
        /\ jobs'[i].patch_status = jobs[i].patch_status /\ jobs'[i].patch_sha = jobs[i].patch_sha
        /\ jobs'[i].equivalent_to = jobs[i].equivalent_to
    BY <1>4, <2>1 DEF ClaimSelectedJob, TypeOKStore, IInv, Job, HasState, Selectable
  <2>3. RowInv(i)'
    BY <1>4, <2>1, <2>2, NullAssumption DEF ClaimSelectedJob, RowInv, HasState
  <2>4. ~HasState(i, "completed")
    BY <1>4 DEF ClaimSelectedJob, HasState, Selectable
  <2> QED
    BY <1>4, <2>3, <2>4, OneRow DEF ClaimSelectedJob, IInv, TypeOKStore
<1>5. ASSUME NEW i \in Identity, DeferCI(i)
     PROVE  IInv'
  <2>1. RowInv(i) /\ jobs[i] \in Job
    BY DEF IInv, TypeOKStore
  <2>2. /\ jobs'[i].state = "queued" /\ jobs[i].state = "queued"
        /\ jobs'[i].patch_status = jobs[i].patch_status /\ jobs'[i].patch_sha = jobs[i].patch_sha
        /\ jobs'[i].equivalent_to = jobs[i].equivalent_to
    BY <1>5, <2>1 DEF DeferCI, TypeOKStore, IInv, Job, HasState, Selectable
  <2>3. RowInv(i)'
    BY <1>5, <2>1, <2>2, NullAssumption DEF DeferCI, RowInv, HasState
  <2>4. ~HasState(i, "completed")
    BY <1>5 DEF DeferCI, HasState, Selectable
  <2> QED
    BY <1>5, <2>3, <2>4, OneRow DEF DeferCI, IInv, TypeOKStore
<1>6. ASSUME NEW i \in Identity, DeferPendingPatchID(i)
     PROVE  IInv'
  <2>1. RowInv(i) /\ jobs[i] \in Job
    BY DEF IInv, TypeOKStore
  <2>2. /\ jobs'[i].state = "queued" /\ jobs[i].state = "running"
        /\ jobs'[i].patch_status = "pending" /\ jobs'[i].patch_sha = NULL
        /\ jobs'[i].equivalent_to = jobs[i].equivalent_to
    BY <1>6, <2>1 DEF DeferPendingPatchID, TypeOKStore, IInv, Job, HasState
  <2>3. RowInv(i)'
    BY <1>6, <2>1, <2>2, NullAssumption DEF DeferPendingPatchID, RowInv, HasState
  <2>4. ~HasState(i, "completed")
    BY <1>6 DEF DeferPendingPatchID, HasState
  <2> QED
    BY <1>6, <2>3, <2>4, OneRow DEF DeferPendingPatchID, IInv, TypeOKStore
<1>9. ASSUME NEW i \in Identity, RetryJob(i)
     PROVE  IInv'
  <2>1. RowInv(i) /\ jobs[i] \in Job
    BY DEF IInv, TypeOKStore
  <2>2. /\ jobs'[i].state \in {"queued", "failed"} /\ jobs[i].state = "running"
        /\ jobs'[i].patch_status = jobs[i].patch_status /\ jobs'[i].patch_sha = jobs[i].patch_sha
        /\ jobs'[i].equivalent_to = jobs[i].equivalent_to
    BY <1>9, <2>1 DEF RetryJob, TypeOKStore, IInv, Job, HasState, Requeued
  <2>3. RowInv(i)'
    BY <1>9, <2>1, <2>2, NullAssumption DEF RetryJob, RowInv, HasState
  <2>4. ~HasState(i, "completed")
    BY <1>9 DEF RetryJob, HasState
  <2> QED
    BY <1>9, <2>3, <2>4, OneRow DEF RetryJob, IInv, TypeOKStore
<1>10. ASSUME NEW i \in Identity, NEW state \in {"failed", "obsolete"}, FinishJob(i, state)
     PROVE  IInv'
  <2>1. RowInv(i) /\ jobs[i] \in Job
    BY DEF IInv, TypeOKStore
  <2>2. /\ jobs'[i].state \in {"obsolete", "failed"} /\ jobs[i].state = "running"
        /\ jobs'[i].patch_status = jobs[i].patch_status /\ jobs'[i].patch_sha = jobs[i].patch_sha
        /\ jobs'[i].equivalent_to = jobs[i].equivalent_to
    BY <1>10, <2>1 DEF FinishJob, TypeOKStore, IInv, Job, HasState
  <2>3. RowInv(i)'
    BY <1>10, <2>1, <2>2, NullAssumption DEF FinishJob, RowInv, HasState
  <2>4. ~HasState(i, "completed")
    BY <1>10 DEF FinishJob, HasState
  <2> QED
    BY <1>10, <2>3, <2>4, OneRow DEF FinishJob, IInv, TypeOKStore
<1>12. ASSUME NEW i \in Identity, RetryFailedReviewJob(i)
     PROVE  IInv'
  <2>1. RowInv(i) /\ jobs[i] \in Job
    BY DEF IInv, TypeOKStore
  <2>2. /\ jobs'[i].state = "queued" /\ jobs[i].state = "failed"
        /\ jobs'[i].patch_status = jobs[i].patch_status /\ jobs'[i].patch_sha = jobs[i].patch_sha
        /\ jobs'[i].equivalent_to = jobs[i].equivalent_to
    BY <1>12, <2>1 DEF RetryFailedReviewJob, TypeOKStore, IInv, Job, HasState
  <2>3. RowInv(i)'
    BY <1>12, <2>1, <2>2, NullAssumption DEF RetryFailedReviewJob, RowInv, HasState
  <2>4. ~HasState(i, "completed")
    BY <1>12 DEF RetryFailedReviewJob, HasState
  <2> QED
    BY <1>12, <2>3, <2>4, OneRow DEF RetryFailedReviewJob, IInv, TypeOKStore
<1>7. ASSUME NEW i \in Identity, NEW c \in Identity, NEW sha \in PatchIDs,
             CompleteEquivalentReview(i, c, sha)
     PROVE  IInv'
  <2>1. RowInv(i) /\ jobs[i] \in Job
    BY DEF IInv, TypeOKStore
  <2>2. /\ jobs'[i].state = "completed" /\ jobs[i].state = "running"
        /\ jobs'[i].patch_status = "available" /\ jobs'[i].patch_sha = sha
        /\ jobs'[i].equivalent_to = c
        /\ results'[i] = NULL /\ publications'[i] = NULL
    BY <1>7, <2>1 DEF CompleteEquivalentReview, TypeOKStore, IInv, Job, HasState
  <2>3. Canonical(c, sha)'
    BY <1>7 DEF CompleteEquivalentReview, Canonical, HasState, IInv, TypeOKStore
  <2>4. RowInv(i)'
    BY <1>7, <2>2, <2>3, NullAssumption DEF CompleteEquivalentReview, RowInv, HasState
  <2> QED
    BY <1>7, <2>2, <2>4, OneRow DEF CompleteEquivalentReview, HasState, IInv, TypeOKStore
<1>8. ASSUME NEW i \in Identity, NEW n \in 0 .. MaxFindings, NEW status \in PatchIDStatus,
             NEW sha \in PatchIDs \cup {NULL}, SaveReviewResult(i, n, status, sha)
     PROVE  IInv'
  <2>1. RowInv(i) /\ jobs[i] \in Job
    BY DEF IInv, TypeOKStore
  <2>2. /\ jobs'[i].state = "running" /\ jobs[i].state = "running"
        /\ jobs'[i].patch_status = status /\ jobs'[i].patch_sha = sha
        /\ jobs'[i].equivalent_to = NULL
        /\ publications'[i] = publications[i]
    BY <1>8, <2>1 DEF SaveReviewResult, TypeOKStore, IInv, Job, HasState
  <2>3. \/ status = "available" /\ sha # NULL
        \/ status = "unavailable" /\ sha = NULL
    BY <1>8, NullAssumption DEF SaveReviewResult, ValidReviewPatchID
  <2>4. RowInv(i)'
    BY <2>1, <2>2, <2>3 DEF RowInv, HasState
  <2> QED
    BY <1>8, <2>2, <2>4, OneRow DEF SaveReviewResult, HasState, IInv, TypeOKStore
<1>11. ASSUME NEW i \in Identity, NEW note \in NoteIDs, CompletePublication(i, note)
     PROVE  IInv'
  <2>1. RowInv(i) /\ jobs[i] \in Job
    BY DEF IInv, TypeOKStore
  <2>2. /\ jobs'[i].state = "completed" /\ jobs[i].state = "running"
        /\ jobs'[i].equivalent_to = NULL
        /\ publications'[i] = note
        /\ \/ /\ jobs'[i].patch_status = jobs[i].patch_status
              /\ jobs'[i].patch_sha = jobs[i].patch_sha
           \/ /\ results[i] = NULL
              /\ jobs'[i].patch_status = "unknown" /\ jobs'[i].patch_sha = NULL
    BY <1>11, <2>1 DEF CompletePublication, TypeOKStore, IInv, Job, HasState
  <2>3. note # NULL
    BY ReviewJobsAssumption
  <2>4. RowInv(i)'
    BY <1>11, <2>1, <2>2, <2>3 DEF CompletePublication, RowInv, HasState
  <2> QED
    BY <1>11, <2>2, <2>4, OneRow DEF CompletePublication, HasState, IInv, TypeOKStore
<1>1. CASE RecoverInterruptedJobs
  <2> SUFFICES ASSUME NEW k \in Identity PROVE RowInv(k)'
    BY DEF IInv
  <2>1. RowInv(k)
    BY DEF IInv
  <2>2. \A j \in Identity :
          /\ jobs'[j].patch_status = jobs[j].patch_status
          /\ jobs'[j].patch_sha = jobs[j].patch_sha
          /\ jobs'[j].equivalent_to = jobs[j].equivalent_to
          /\ jobs'[j].attempts = jobs[j].attempts
          /\ \/ jobs'[j].state = jobs[j].state
             \/ jobs[j].state = "running" /\ jobs'[j].state \in {"queued", "failed"}
    <3> SUFFICES ASSUME NEW j \in Identity
                 PROVE  /\ jobs'[j].patch_status = jobs[j].patch_status
                        /\ jobs'[j].patch_sha = jobs[j].patch_sha
                        /\ jobs'[j].equivalent_to = jobs[j].equivalent_to
                        /\ jobs'[j].attempts = jobs[j].attempts
                        /\ \/ jobs'[j].state = jobs[j].state
                           \/ jobs[j].state = "running" /\ jobs'[j].state \in {"queued", "failed"}
      OBVIOUS
    <3>1. jobs[j] \in Job
      BY DEF IInv, TypeOKStore
    <3> QED
      BY <1>1, <3>1 DEF RecoverInterruptedJobs, Requeued, HasState, Job
  <2>3. results' = results /\ publications' = publications
    BY <1>1 DEF RecoverInterruptedJobs
  <2>4. \A j \in Identity, sha \in PatchIDs \cup {NULL} : Canonical(j, sha) => Canonical(j, sha)'
    BY <2>2, <2>3 DEF Canonical, HasState
  <2>5. jobs[k].equivalent_to # NULL => /\ jobs[k].equivalent_to \in Identity
                                        /\ jobs[k].patch_sha \in PatchIDs \cup {NULL}
    BY DEF IInv, TypeOKStore, Job
  <2> QED
    BY <2>1, <2>2, <2>3, <2>4, <2>5 DEF RowInv, HasState
<1>13. CASE UNCHANGED storeVars
  BY <1>13 DEF storeVars, IInv, TypeOKStore, RowInv, Canonical, HasState
<1> QED
  BY <1>1, <1>2, <1>3, <1>4, <1>5, <1>6, <1>7, <1>8, <1>9, <1>10, <1>11, <1>12, <1>13
     DEF NextStore

\* The review tables keep the inductive invariant for ever.
LEMMA Invariance == SpecStore => []IInv
BY InitEstablishes, InvPreserved, PTL DEF SpecStore

\* An equivalent revision always answers through a completed and published
\* canonical review of the same merge request and patch; aliases form no
\* chains.
THEOREM AliasesAreSound == SpecStore => []AliasIntegrity
<1>1. IInv => AliasIntegrity
  BY DEF IInv, RowInv, AliasIntegrity, HasState
<1> QED
  BY <1>1, Invariance, PTL

\* A job is completed exactly when its revision is answered, by a publication
\* record of its own or by its canonical job.
THEOREM CompletionIsSound == SpecStore => []CompletedIffAnswered
<1>1. IInv => CompletedIffAnswered
  BY DEF IInv, RowInv, CompletedIffAnswered
<1> QED
  BY <1>1, Invariance, PTL

\* No statement of the store can fail on a CHECK constraint of the schema.
THEOREM ChecksNeverFail == SpecStore => []SchemaChecks
<1>1. IInv => SchemaChecks
  BY DEF IInv, RowInv, SchemaChecks
<1> QED
  BY <1>1, Invariance, PTL

\* A stored review settles the patch identity of its job.
THEOREM ResultsSettlePatches == SpecStore => []ResultSettlesPatch
<1>1. IInv => ResultSettlesPatch
  BY DEF IInv, RowInv, ResultSettlesPatch
<1> QED
  BY <1>1, Invariance, PTL

-----------------------------------------------------------------------------
\* One step never changes a completed or obsolete row, nor a stored review.
LEMMA SettledStep ==
  ASSUME IInv, [NextStore]_storeVars, NEW k \in Identity
  PROVE  /\ jobs[k].state \in {"completed", "obsolete"}
              => jobs'[k] = jobs[k] /\ publications'[k] = publications[k]
         /\ results[k] # NULL => results'[k] = results[k]
<1> USE DEF IInv, TypeOKStore, HasState
<1>1. CASE RecoverInterruptedJobs
  BY <1>1 DEF RecoverInterruptedJobs
<1>2. CASE UNCHANGED storeVars
  BY <1>2 DEF storeVars
<1>3. ASSUME NEW i \in Identity,
             \/ CreateReviewJob(i) \/ BecomeDue(i) \/ ClaimSelectedJob(i) \/ DeferCI(i)
             \/ DeferPendingPatchID(i) \/ RetryJob(i) \/ RetryFailedReviewJob(i)
             \/ \E state \in {"failed", "obsolete"} : FinishJob(i, state)
      PROVE  /\ jobs[i].state \notin {"completed", "obsolete"}
             /\ \A j \in Identity \ {i} : jobs'[j] = jobs[j]
             /\ results' = results /\ publications' = publications
  BY <1>3 DEF CreateReviewJob, BecomeDue, ClaimSelectedJob, DeferCI, Selectable,
              DeferPendingPatchID, RetryJob, RetryFailedReviewJob, FinishJob
<1>4. ASSUME NEW i \in Identity, NEW c \in Identity, NEW sha \in PatchIDs,
             CompleteEquivalentReview(i, c, sha)
      PROVE  /\ jobs[i].state \notin {"completed", "obsolete"}
             /\ \A j \in Identity \ {i} : jobs'[j] = jobs[j]
             /\ results' = results /\ publications' = publications
  BY <1>4 DEF CompleteEquivalentReview
<1>5. ASSUME NEW i \in Identity, NEW n \in 0 .. MaxFindings, NEW status \in PatchIDStatus,
             NEW sha \in PatchIDs \cup {NULL}, SaveReviewResult(i, n, status, sha)
      PROVE  /\ jobs[i].state \notin {"completed", "obsolete"}
             /\ \A j \in Identity \ {i} : jobs'[j] = jobs[j]
             /\ \A j \in Identity : results[j] # NULL => results'[j] = results[j]
             /\ publications' = publications
  BY <1>5 DEF SaveReviewResult
<1>6. ASSUME NEW i \in Identity, NEW note \in NoteIDs, CompletePublication(i, note)
      PROVE  /\ jobs[i].state \notin {"completed", "obsolete"}
             /\ \A j \in Identity \ {i} : /\ jobs'[j] = jobs[j]
                                          /\ publications'[j] = publications[j]
             /\ results' = results
  BY <1>6 DEF CompletePublication
<1> QED
  BY <1>1, <1>2, <1>3, <1>4, <1>5, <1>6 DEF NextStore

\* Completed and obsolete rows and stored reviews are final.
THEOREM SettledIsFinal == SpecStore => SettledForever
<1>1. IInv /\ [NextStore]_storeVars =>
        [\A i \in Identity :
           /\ jobs[i].state \in {"completed", "obsolete"}
                => /\ jobs'[i] = jobs[i]
                   /\ publications'[i] = publications[i]
           /\ results[i] # NULL => results'[i] = results[i]]_storeVars
  BY SettledStep
<1> QED
  BY <1>1, Invariance, PTL DEF SpecStore, SettledForever

\* A step that neither claims the job nor puts it back leaves its claims.
Uncharged(k) ==
  /\ jobs'[k].attempts = jobs[k].attempts
  /\ jobs'[k].state = "running" => jobs[k].state = "running"
  /\ ~IsPutBack(k)

\* The claims a transaction charges or takes back.
LEMMA ClaimsStep ==
  ASSUME IInv, [NextStore]_storeVars, NEW k \in Identity
  PROVE  \/ Uncharged(k)
         \/ BeginsToRun(k) /\ jobs'[k].attempts = jobs[k].attempts + 1
         \/ IsPutBack(k) /\ jobs'[k].attempts = 0
<1> USE DEF IInv, TypeOKStore, HasState, Job, Uncharged, IsPutBack
<1>1. ASSUME NEW row \in Job, NEW due \in BOOLEAN
      PROVE  Requeued(row, due).attempts = row.attempts /\ Requeued(row, due).state # "running"
  BY <1>1 DEF Requeued
<1>2. CASE RecoverInterruptedJobs
  BY <1>1, <1>2 DEF RecoverInterruptedJobs
<1>3. ASSUME NEW i \in Identity, RetryJob(i) PROVE Uncharged(k)
  BY <1>1, <1>3 DEF RetryJob
<1>4. ASSUME NEW i \in Identity, CreateReviewJob(i) PROVE Uncharged(k)
  <2>1. jobs[i].attempts = 0 /\ jobs[i].state = "absent"
    BY <1>4 DEF CreateReviewJob, RowInv
  <2>2. /\ jobs'[i].attempts = 0 /\ jobs'[i].state = "queued"
        /\ k # i => jobs'[k] = jobs[k]
    BY <1>4 DEF CreateReviewJob, NoJob
  <2> QED
    BY <2>1, <2>2
<1>5. ASSUME NEW i \in Identity, ClaimSelectedJob(i)
      PROVE  \/ Uncharged(k)
             \/ BeginsToRun(k) /\ jobs'[k].attempts = jobs[k].attempts + 1
  BY <1>5 DEF ClaimSelectedJob, Selectable, BeginsToRun
<1>6. ASSUME NEW i \in Identity, RetryFailedReviewJob(i)
      PROVE  \/ Uncharged(k)
             \/ IsPutBack(k) /\ jobs'[k].attempts = 0
  BY <1>6 DEF RetryFailedReviewJob
<1>7. ASSUME NEW i \in Identity, BecomeDue(i) \/ DeferCI(i) \/ DeferPendingPatchID(i)
      PROVE  Uncharged(k)
  BY <1>7 DEF BecomeDue, DeferCI, DeferPendingPatchID
<1>8. ASSUME NEW i \in Identity,
             \/ \E c \in Identity, sha \in PatchIDs : CompleteEquivalentReview(i, c, sha)
             \/ \E state \in {"failed", "obsolete"} : FinishJob(i, state)
             \/ \E note \in NoteIDs : CompletePublication(i, note)
      PROVE  Uncharged(k)
  <2>1. ASSUME NEW c \in Identity, NEW sha \in PatchIDs, CompleteEquivalentReview(i, c, sha)
        PROVE  Uncharged(k)
    BY <2>1 DEF CompleteEquivalentReview
  <2>2. ASSUME NEW state \in {"failed", "obsolete"}, FinishJob(i, state) PROVE Uncharged(k)
    BY <2>2 DEF FinishJob
  <2>3. ASSUME NEW note, CompletePublication(i, note)
        PROVE  Uncharged(k)
    BY <2>3 DEF CompletePublication
  <2> QED
    BY <1>8, <2>1, <2>2, <2>3
<1>9. ASSUME NEW i \in Identity, NEW n, NEW status, NEW sha, SaveReviewResult(i, n, status, sha)
      PROVE  Uncharged(k)
  BY <1>9 DEF SaveReviewResult
<1>10. CASE UNCHANGED storeVars
  BY <1>10 DEF storeVars
<1> QED
  BY <1>2, <1>3, <1>4, <1>5, <1>6, <1>7, <1>8, <1>9, <1>10 DEF NextStore

\* A running job has a claim.
RunningHasClaim == \A i \in Identity : HasState(i, "running") => jobs[i].attempts > 0

\* Every start is charged, nothing but an operator's retry of a failed job
\* forgets a charge, and no job runs on more claims than it may have:
\* recovery, retries and deferrals leave the count.
THEOREM ClaimsAreCharged == SpecStore => ClaimsAreCounted
<1>1. InitStore => RunningHasClaim
  BY DEF InitStore, NoJob, RunningHasClaim, HasState
<1>2. ASSUME IInv, RunningHasClaim, [NextStore]_storeVars, NEW k \in Identity
      PROVE  /\ jobs[k].state # "running" /\ jobs'[k].state = "running" => BeginsToRun(k)
             /\ jobs'[k].attempts = (IF BeginsToRun(k) THEN jobs[k].attempts + 1
                                     ELSE IF IsPutBack(k) THEN 0 ELSE jobs[k].attempts)
             /\ jobs'[k].state = "running" => jobs'[k].attempts > 0
  <2>1. jobs[k].attempts \in Nat
    BY <1>2 DEF IInv, TypeOKStore, Job
  <2>2. CASE Uncharged(k)
    BY <1>2, <2>1, <2>2 DEF Uncharged, BeginsToRun, RunningHasClaim, HasState
  <2>3. CASE BeginsToRun(k) /\ jobs'[k].attempts = jobs[k].attempts + 1
    BY <2>1, <2>3
  <2>4. CASE IsPutBack(k) /\ jobs'[k].attempts = 0
    BY <2>4 DEF IsPutBack, BeginsToRun
  <2> QED BY <1>2, <2>2, <2>3, <2>4, ClaimsStep
<1>3. IInv /\ RunningHasClaim /\ [NextStore]_storeVars => RunningHasClaim'
  BY <1>2 DEF RunningHasClaim, HasState
<1>4. ASSUME IInv, IInv', RunningHasClaim, [NextStore]_storeVars
      PROVE  [\A i \in Identity :
                /\ jobs[i].state # "running" /\ jobs'[i].state = "running" => BeginsToRun(i)
                /\ jobs'[i].attempts = (IF BeginsToRun(i) THEN jobs[i].attempts + 1
                                        ELSE IF IsPutBack(i) THEN 0 ELSE jobs[i].attempts)
                /\ jobs'[i].state = "running" =>
                     jobs'[i].attempts \in 1 .. MaxJobAttempts]_storeVars
  <2>1. \A i \in Identity : jobs'[i].attempts \in 0 .. MaxJobAttempts
    BY <1>4 DEF IInv, TypeOKStore, Job
  <2>2. ASSUME NEW n \in 0 .. MaxJobAttempts, n > 0 PROVE n \in 1 .. MaxJobAttempts
    BY <2>2, ReviewJobsAssumption
  <2> QED BY <1>2, <1>4, <2>1, <2>2
<1> QED
  BY <1>1, <1>3, <1>4, Invariance, PTL DEF SpecStore, ClaimsAreCounted

-----------------------------------------------------------------------------
(* Refinement of ReviewLifecycle. *)

\* A step that leaves status and answer of every revision alone is a stutter.
LEMMA Stutter ==
  ASSUME \A k \in Identity : StatusOf(k)' = StatusOf(k) /\ AnswerOf(k)' = AnswerOf(k)
  PROVE  UNCHANGED Lifecycle!lifecycleVars
BY DEF Lifecycle!lifecycleVars

\* Status and answer of a revision depend on its own row alone.
LEMMA Frame ==
  ASSUME NEW k \in Identity, jobs'[k] = jobs[k], publications'[k] = publications[k]
  PROVE  StatusOf(k)' = StatusOf(k) /\ AnswerOf(k)' = AnswerOf(k)
BY DEF StatusOf, AnswerOf

LEMMA InitRefines == InitStore => Lifecycle!Init
BY DEF InitStore, NoJob, Lifecycle!Init, StatusOf, AnswerOf

\* Every transaction is a step of the lifecycle or leaves it unchanged.
LEMMA StepRefines == IInv /\ [NextStore]_storeVars => [Lifecycle!Next]_(Lifecycle!lifecycleVars)
<1> SUFFICES ASSUME IInv, [NextStore]_storeVars
             PROVE  Lifecycle!Next \/ UNCHANGED Lifecycle!lifecycleVars
  OBVIOUS
<1> USE DEF HasState
<1>0. /\ \A k \in Identity : RowInv(k) /\ jobs[k] \in Job
      /\ jobs \in [Identity -> Job]
      /\ publications \in [Identity -> NoteIDs \cup {NULL}]
  BY DEF IInv, TypeOKStore
<1>1. CASE RecoverInterruptedJobs
  <2> DEFINE S == {k \in Identity : jobs[k].state = "running" /\ jobs[k].attempts >= MaxJobAttempts}
  <2>1. \A k \in Identity : AnswerOf(k)' = AnswerOf(k)
    BY <1>0, <1>1 DEF RecoverInterruptedJobs, Requeued, AnswerOf, Job
  <2>2. \A k \in Identity : StatusOf(k)' = IF k \in S THEN "failed" ELSE StatusOf(k)
    BY <1>0, <1>1 DEF RecoverInterruptedJobs, Requeued, StatusOf, Job
  <2>3. \A k \in S : StatusOf(k) = "pending"
    BY DEF StatusOf
  <2>4. Lifecycle!GiveUpAll(S)
    BY <2>1, <2>2, <2>3 DEF Lifecycle!GiveUpAll
  <2> QED
    BY <2>4 DEF Lifecycle!Next
<1>2. ASSUME NEW i \in Identity, CreateReviewJob(i) PROVE Lifecycle!Next
  <2>1. StatusOf(i) = "absent" /\ StatusOf(i)' = "pending" /\ AnswerOf(i)' = AnswerOf(i)
    BY <1>0, <1>2 DEF CreateReviewJob, NoJob, StatusOf, AnswerOf, RowInv
  <2>2. Lifecycle!Request(i)
    BY <1>0, <1>2, <2>1, Frame DEF CreateReviewJob, Lifecycle!Request
  <2> QED
    BY <2>2 DEF Lifecycle!Next
<1>3. ASSUME NEW i \in Identity,
             \/ BecomeDue(i) \/ ClaimSelectedJob(i) \/ DeferCI(i) \/ DeferPendingPatchID(i)
      PROVE  UNCHANGED Lifecycle!lifecycleVars
  <2>1. StatusOf(i)' = StatusOf(i) /\ AnswerOf(i)' = AnswerOf(i)
    BY <1>0, <1>3 DEF BecomeDue, ClaimSelectedJob, DeferCI, DeferPendingPatchID, Selectable,
                      StatusOf, AnswerOf, Job
  <2> QED
    BY <1>0, <1>3, <2>1, Frame, Stutter
       DEF BecomeDue, ClaimSelectedJob, DeferCI, DeferPendingPatchID
<1>4. ASSUME NEW i \in Identity, NEW n \in 0 .. MaxFindings, NEW status \in PatchIDStatus,
             NEW sha \in PatchIDs \cup {NULL}, SaveReviewResult(i, n, status, sha)
      PROVE  UNCHANGED Lifecycle!lifecycleVars
  <2>1. StatusOf(i)' = StatusOf(i) /\ AnswerOf(i)' = AnswerOf(i)
    BY <1>0, <1>4 DEF SaveReviewResult, StatusOf, AnswerOf, Job
  <2> QED
    BY <1>0, <1>4, <2>1, Frame, Stutter DEF SaveReviewResult
<1>5. ASSUME NEW i \in Identity, NEW c \in Identity, NEW sha \in PatchIDs,
             CompleteEquivalentReview(i, c, sha)
      PROVE  Lifecycle!Next
  <2>1. /\ StatusOf(i) = "pending" /\ StatusOf(i)' = "answered"
        /\ AnswerOf(i)' = c
    BY <1>0, <1>5 DEF CompleteEquivalentReview, StatusOf, AnswerOf, Job
  <2>2. StatusOf(c) = "answered" /\ AnswerOf(c) = c
    BY <1>0, <1>5 DEF CompleteEquivalentReview, Canonical, StatusOf, AnswerOf
  <2>3. InOneMR(i, c)
    BY <1>5 DEF CompleteEquivalentReview, InOneMR
  <2>4. Lifecycle!Reuse(i, c)
    BY <1>0, <1>5, <2>1, <2>2, <2>3, Frame DEF CompleteEquivalentReview, Lifecycle!Reuse
  <2> QED
    BY <2>4 DEF Lifecycle!Next
<1>6. ASSUME NEW i \in Identity, NEW note \in NoteIDs, CompletePublication(i, note)
      PROVE  Lifecycle!Next
  <2>1. StatusOf(i) = "pending" /\ StatusOf(i)' = "answered" /\ AnswerOf(i)' = i
    BY <1>0, <1>6, ReviewJobsAssumption DEF CompletePublication, StatusOf, AnswerOf, Job
  <2>2. Lifecycle!Publish(i)
    BY <1>0, <1>6, <2>1, Frame DEF CompletePublication, Lifecycle!Publish
  <2> QED
    BY <2>2 DEF Lifecycle!Next
<1>7. ASSUME NEW i \in Identity,
             RetryJob(i) \/ \E state \in {"failed", "obsolete"} : FinishJob(i, state)
      PROVE  Lifecycle!Next \/ UNCHANGED Lifecycle!lifecycleVars
  <2>1. /\ StatusOf(i) = "pending" /\ AnswerOf(i)' = AnswerOf(i)
        /\ StatusOf(i)' \in {"pending", "failed", "obsolete"}
    <3> DEFINE Ended == /\ jobs[i].state = "running" /\ publications' = publications
                        /\ jobs'[i].equivalent_to = jobs[i].equivalent_to
                        /\ jobs'[i].state \in {"queued", "failed", "obsolete"}
    <3>1. CASE RetryJob(i)
      <4>1. Ended
        BY <1>0, <3>1 DEF RetryJob, Requeued, Job
      <4> QED
        BY <4>1 DEF StatusOf, AnswerOf
    <3>2. ASSUME NEW state \in {"failed", "obsolete"}, FinishJob(i, state) PROVE Ended
      BY <1>0, <3>2 DEF FinishJob, Job
    <3>3. CASE \E state \in {"failed", "obsolete"} : FinishJob(i, state)
      <4>1. Ended
        BY <3>2, <3>3
      <4> QED
        BY <4>1 DEF StatusOf, AnswerOf
    <3> QED
      BY <1>7, <3>1, <3>3
  <2>2. \A k \in Identity \ {i} : StatusOf(k)' = StatusOf(k) /\ AnswerOf(k)' = AnswerOf(k)
    BY <1>0, <1>7, Frame DEF RetryJob, FinishJob
  <2>3. CASE StatusOf(i)' = "pending"
    BY <2>1, <2>2, <2>3, Stutter
  <2>4. CASE StatusOf(i)' \in {"failed", "obsolete"}
    <3>1. Lifecycle!GiveUp(i)
      BY <2>1, <2>2, <2>4 DEF Lifecycle!GiveUp
    <3> QED
      BY <3>1 DEF Lifecycle!Next
  <2> QED
    BY <2>1, <2>3, <2>4
<1>8. ASSUME NEW i \in Identity, RetryFailedReviewJob(i) PROVE Lifecycle!Next
  <2>1. StatusOf(i) = "failed" /\ StatusOf(i)' = "pending" /\ AnswerOf(i)' = AnswerOf(i)
    BY <1>0, <1>8 DEF RetryFailedReviewJob, StatusOf, AnswerOf, Job
  <2>2. Lifecycle!Request(i)
    BY <1>0, <1>8, <2>1, Frame DEF RetryFailedReviewJob, Lifecycle!Request
  <2> QED
    BY <2>2 DEF Lifecycle!Next
<1>9. CASE UNCHANGED storeVars
  BY <1>9, Frame, Stutter DEF storeVars
<1> QED
  BY <1>1, <1>2, <1>3, <1>4, <1>5, <1>6, <1>7, <1>8, <1>9 DEF NextStore

\* The review tables implement the abstract lifecycle: a revision that is
\* answered stays answered, by the same published review, for ever.
THEOREM StoreImplementsLifecycle == SpecStore => ImplementsLifecycle
BY InitRefines, StepRefines, Invariance, PTL DEF SpecStore, ImplementsLifecycle, Lifecycle!Spec

-----------------------------------------------------------------------------
(* The feedback and event tables. *)

\* Every transaction on the whole database is, of the review tables, one of
\* theirs or none.
LEMMA ReviewTablesStep ==
  ASSUME [NextFeedback]_<<storeVars, feedbackVars>>
  PROVE  [NextStore]_storeVars
<1>1. CASE RecoverAll
  BY <1>1 DEF RecoverAll, NextStore
<1>2. CASE ReviewSide
  BY <1>2 DEF ReviewSide
<1>3. ASSUME NEW d \in Deliveries, AcceptIgnored(d) PROVE [NextStore]_storeVars
  BY <1>3 DEF AcceptIgnored
<1>4. ASSUME NEW d \in Deliveries, NEW i \in Identity, AcceptReview(d, i)
      PROVE  [NextStore]_storeVars
  BY <1>4 DEF AcceptReview, NextStore
<1>5. ASSUME NEW d \in Deliveries, NEW m \in MergeRequests, NEW h \in Heads, AcceptFeedback(d, m, h)
      PROVE  [NextStore]_storeVars
  BY <1>5 DEF AcceptFeedback
<1>6. ASSUME NEW m \in MergeRequests,
             \/ ClaimFeedbackJob(m)
             \/ \E lesson \in BOOLEAN : CompleteFeedbackJob(m, lesson)
             \/ RetryFeedbackJob(m) \/ FinishFeedbackJob(m)
             \/ RetryFailedFeedbackJob(m) \/ FeedbackBecomesDue(m)
      PROVE  [NextStore]_storeVars
  BY <1>6 DEF ClaimFeedbackJob, CompleteFeedbackJob, RetryFeedbackJob, FinishFeedbackJob,
              RetryFailedFeedbackJob, FeedbackBecomesDue
<1>7. CASE UNCHANGED <<storeVars, feedbackVars>>
  BY <1>7
<1> QED BY <1>1, <1>2, <1>3, <1>4, <1>5, <1>6, <1>7 DEF NextFeedback

\* The webhook handler and the feedback worker use the review tables as
\* specified: what is proved of SpecStore holds of the whole database.
THEOREM DatabaseUsesReviewStore == SpecFeedback => SpecStore
BY ReviewTablesStep, PTL DEF SpecFeedback, InitDatabase, SpecStore

-----------------------------------------------------------------------------

\* The inductive invariant.  The binding of a feedback job rests on the final
\* states of the review tables, the lesson on its own row only.
FInv == IInv /\ TypeOKFeedback /\ BoundReviewStaysEligible /\ MemoryOnlyWhenCompleted

LEMMA RowsTyped ==
  ASSUME NEW row \in FeedbackJob, NEW due \in BOOLEAN
  PROVE  /\ FeedbackRequeued(row, due) \in FeedbackJob
         /\ FeedbackRequeued(row, due).review = row.review
         /\ FeedbackRequeued(row, due).head = row.head
         /\ FeedbackRequeued(row, due).state \in {"queued", "failed"}
BY DEF FeedbackRequeued, FeedbackJob

\* An eligible review stays eligible.
LEMMA ReviewedIsFinal ==
  ASSUME IInv, [NextStore]_storeVars, NEW r \in Identity, Reviewed(r)
  PROVE  Reviewed(r)'
BY SettledStep DEF Reviewed, HasState

\* What a terminal event is bound to.
LEMMA CandidatesAreEligible ==
  ASSUME TypeOKStore, NEW m \in MergeRequests, NEW r \in FeedbackReview(m)
  PROVE  r \in Identity /\ MergeRequestOf(r) = m /\ Reviewed(r)
<1>1. PICK i \in FeedbackCandidates(m) : r = Effective(i)
  BY DEF FeedbackReview
<1>2. i \in Identity /\ MergeRequestOf(Effective(i)) = m /\ Reviewed(Effective(i))
  BY <1>1 DEF FeedbackCandidates
<1>3. Effective(i) \in Identity
  BY <1>2 DEF Effective, TypeOKStore, Job
<1> QED BY <1>1, <1>2, <1>3

\* The binding of one feedback job, as BoundReviewStaysEligible has it.
EligibleBinding(m) ==
  /\ feedback[m].review \in Identity
  /\ MergeRequestOf(feedback[m].review) = m
  /\ Reviewed(feedback[m].review)

\* A job bound to an eligible review now has an eligible binding after any
\* transaction that leaves it bound to that review.
LEMMA BindingStaysEligible ==
  ASSUME IInv, [NextStore]_storeVars, NEW m \in MergeRequests, NEW r \in Identity,
         MergeRequestOf(r) = m, Reviewed(r), feedback'[m].review = r
  PROVE  EligibleBinding(m)'
<1>1. Reviewed(r)'
  BY ReviewedIsFinal
<1>2. (feedback[m].review)' = r
  OBVIOUS
<1>3. Reviewed(feedback[m].review)'
  BY <1>1, <1>2 DEF Reviewed, HasState
<1> QED BY <1>2, <1>3 DEF EligibleBinding

\* It is enough that every row of the new table is typed, that a row that
\* exists was there with the same binding or is bound to an eligible review,
\* and that a row with a lesson is completed.
LEMMA FeedbackRows ==
  ASSUME FInv, IInv', [NextStore]_storeVars,
         feedback' \in [MergeRequests -> FeedbackJob],
         events' \in [Deliveries -> Outcome \cup {NULL}],
         memories' \subseteq MergeRequests,
         \A n \in MergeRequests : feedback'[n].state # "absent" =>
           \/ feedback[n].state # "absent" /\ feedback'[n].review = feedback[n].review
           \/ feedback'[n].review \in FeedbackReview(n),
         \A n \in memories' : feedback'[n].state = "completed"
  PROVE  FInv'
<1>1. TypeOKFeedback'
  BY DEF TypeOKFeedback
<1>2. BoundReviewStaysEligible'
  <2> SUFFICES ASSUME NEW n \in MergeRequests, feedback'[n].state # "absent"
               PROVE  EligibleBinding(n)'
    BY DEF BoundReviewStaysEligible, FeedbackHasState, EligibleBinding
  <2>1. CASE feedback[n].state # "absent" /\ feedback'[n].review = feedback[n].review
    <3>1. EligibleBinding(n)
      BY <2>1 DEF FInv, BoundReviewStaysEligible, FeedbackHasState, EligibleBinding
    <3> QED BY <2>1, <3>1, BindingStaysEligible DEF FInv, EligibleBinding
  <2>2. CASE feedback'[n].review \in FeedbackReview(n)
    <3>1. PICK r \in FeedbackReview(n) : feedback'[n].review = r
      BY <2>2
    <3>2. r \in Identity /\ MergeRequestOf(r) = n /\ Reviewed(r)
      BY CandidatesAreEligible DEF FInv, IInv
    <3> QED BY <3>1, <3>2, BindingStaysEligible DEF FInv
  <2> QED BY <2>1, <2>2
<1>3. MemoryOnlyWhenCompleted'
  BY DEF MemoryOnlyWhenCompleted, FeedbackHasState
<1> QED BY <1>1, <1>2, <1>3 DEF FInv

LEMMA FInvInit == InitStore /\ InitFeedback => FInv
<1> SUFFICES ASSUME InitStore, InitFeedback PROVE FInv
  OBVIOUS
<1>1. NoFeedback \in FeedbackJob
  BY ReviewJobsAssumption DEF NoFeedback, FeedbackJob
<1>2. TypeOKFeedback
  BY <1>1 DEF InitFeedback, TypeOKFeedback
<1>3. BoundReviewStaysEligible /\ MemoryOnlyWhenCompleted
  BY DEF InitFeedback, NoFeedback, BoundReviewStaysEligible, MemoryOnlyWhenCompleted,
         FeedbackHasState
<1> QED BY <1>2, <1>3, InitEstablishes DEF FInv

LEMMA FeedbackRowTyped ==
  ASSUME NEW row \in FeedbackJob, NEW s \in {"queued", "running", "completed", "failed"},
         NEW n \in 0 .. MaxJobAttempts, NEW due \in BOOLEAN
  PROVE  /\ [row EXCEPT !.state = s] \in FeedbackJob
         /\ [row EXCEPT !.state = s, !.attempts = n] \in FeedbackJob
         /\ [row EXCEPT !.state = s, !.attempts = n, !.due = due] \in FeedbackJob
         /\ [row EXCEPT !.due = due] \in FeedbackJob
<1> USE DEF FeedbackJob
<1>1. [row EXCEPT !.state = s] \in FeedbackJob
  OBVIOUS
<1>2. [row EXCEPT !.state = s, !.attempts = n] \in FeedbackJob
  OBVIOUS
<1>3. [row EXCEPT !.state = s, !.attempts = n, !.due = due] \in FeedbackJob
  OBVIOUS
<1>4. [row EXCEPT !.due = due] \in FeedbackJob
  OBVIOUS
<1> QED BY <1>1, <1>2, <1>3, <1>4

\* A transaction that changes one unfinished or failed feedback row, keeps its
\* binding and adds no lesson unless it completes the row.
LEMMA OneFeedbackRow ==
  ASSUME FInv, IInv', [NextStore]_storeVars, NEW m \in MergeRequests, NEW row \in FeedbackJob,
         feedback' = [feedback EXCEPT ![m] = row], events' = events,
         feedback[m].state \in {"queued", "running", "failed"}, row.review = feedback[m].review,
         memories' \subseteq memories \cup {m}, m \in memories' => row.state = "completed"
  PROVE  FInv'
<1>1. /\ feedback \in [MergeRequests -> FeedbackJob] /\ memories \subseteq MergeRequests
      /\ events \in [Deliveries -> Outcome \cup {NULL}]
      /\ \A n \in memories : feedback[n].state = "completed"
  BY DEF FInv, TypeOKFeedback, MemoryOnlyWhenCompleted, FeedbackHasState
<1>2. feedback'[m] = row /\ \A n \in MergeRequests \ {m} : feedback'[n] = feedback[n]
  BY <1>1
<1>3. feedback' \in [MergeRequests -> FeedbackJob] /\ memories' \subseteq MergeRequests
  BY <1>1
<1>4. \A n \in memories' : feedback'[n].state = "completed"
  <2>1. m \notin memories
    BY <1>1
  <2> QED BY <1>1, <1>2, <1>3, <2>1
<1>5. \A n \in MergeRequests : feedback'[n].state # "absent" =>
        feedback[n].state # "absent" /\ feedback'[n].review = feedback[n].review
  BY <1>2
<1> QED BY <1>1, <1>3, <1>4, <1>5, FeedbackRows

\* Every transaction on the database preserves the invariant.
LEMMA FInvPreserved ==
  ASSUME FInv, [NextFeedback]_<<storeVars, feedbackVars>>
  PROVE  FInv'
<1>0. [NextStore]_storeVars /\ IInv'
  BY ReviewTablesStep, InvPreserved DEF FInv
<1>1. /\ feedback \in [MergeRequests -> FeedbackJob] /\ memories \subseteq MergeRequests
      /\ events \in [Deliveries -> Outcome \cup {NULL}]
      /\ \A n \in memories : feedback[n].state = "completed"
  BY DEF FInv, TypeOKFeedback, MemoryOnlyWhenCompleted, FeedbackHasState
<1>2. ASSUME feedback' = feedback, memories' = memories,
             events' \in [Deliveries -> Outcome \cup {NULL}]
      PROVE  FInv'
  BY <1>0, <1>1, <1>2, FeedbackRows
<1>3. ASSUME NEW d \in Deliveries, NEW o \in Outcome, Record(d, o)
      PROVE  events' \in [Deliveries -> Outcome \cup {NULL}]
  BY <1>1, <1>3 DEF Record
<1>4. CASE RecoverAll
  <2>1. \A n \in MergeRequests : feedback'[n] = IF feedback[n].state = "running"
                                                THEN FeedbackRequeued(feedback[n], TRUE)
                                                ELSE feedback[n]
    BY <1>4 DEF RecoverAll, FeedbackHasState
  <2>2. \A n \in MergeRequests : /\ feedback'[n] \in FeedbackJob
                                 /\ feedback'[n].review = feedback[n].review
                                 /\ feedback[n].state # "running" => feedback'[n] = feedback[n]
    BY <1>1, <2>1, RowsTyped
  <2>3. feedback' \in [MergeRequests -> FeedbackJob]
    BY <1>4, <2>2 DEF RecoverAll
  <2>4. \A n \in MergeRequests : feedback'[n].state # "absent" => feedback[n].state # "absent"
    BY <2>2
  <2>5. memories' = memories /\ events' = events
    BY <1>4 DEF RecoverAll
  <2>6. \A n \in memories' : feedback'[n].state = "completed"
    BY <1>1, <2>2, <2>5
  <2> QED BY <1>0, <1>1, <2>2, <2>3, <2>4, <2>5, <2>6, FeedbackRows
<1>5. CASE ReviewSide
  BY <1>1, <1>2, <1>5 DEF ReviewSide, feedbackVars
<1>6. ASSUME NEW d \in Deliveries, AcceptIgnored(d) PROVE FInv'
  BY <1>2, <1>3, <1>6 DEF AcceptIgnored, Outcome
<1>7. ASSUME NEW d \in Deliveries, NEW i \in Identity, AcceptReview(d, i) PROVE FInv'
  BY <1>2, <1>3, <1>7 DEF AcceptReview, Outcome
<1>8. ASSUME NEW d \in Deliveries, NEW m \in MergeRequests, NEW h \in Heads,
             AcceptFeedback(d, m, h)
      PROVE  FInv'
  <2>1. memories' = memories
    BY <1>8 DEF AcceptFeedback
  <2>2. CASE UNCHANGED feedback
    <3>1. \E o \in Outcome : Record(d, o)
      BY <1>8 DEF AcceptFeedback, Outcome
    <3> QED BY <1>2, <1>3, <2>1, <2>2, <3>1
  <2>3. CASE \E r \in FeedbackReview(m) :
               /\ FeedbackHasState(m, "absent")
               /\ Record(d, "feedback_queued")
               /\ feedback' = [feedback EXCEPT ![m] =
                                 [state |-> "queued", attempts |-> 0, due |-> TRUE,
                                  head |-> h, review |-> r]]
    <3>1. PICK r \in FeedbackReview(m) :
               /\ FeedbackHasState(m, "absent")
               /\ Record(d, "feedback_queued")
               /\ feedback' = [feedback EXCEPT ![m] =
                                 [state |-> "queued", attempts |-> 0, due |-> TRUE,
                                  head |-> h, review |-> r]]
      BY <2>3
    <3> DEFINE row == [state |-> "queued", attempts |-> 0, due |-> TRUE,
                       head |-> h, review |-> r]
    <3>2. r \in Identity
      BY CandidatesAreEligible DEF FInv, IInv
    <3>3. row \in FeedbackJob /\ row.review = r
      BY <3>2, ReviewJobsAssumption DEF FeedbackJob
    <3> HIDE DEF row
    <3>4. feedback'[m] = row /\ \A n \in MergeRequests \ {m} : feedback'[n] = feedback[n]
      BY <1>1, <3>1 DEF row
    <3>5. feedback' \in [MergeRequests -> FeedbackJob]
      BY <1>1, <3>1, <3>3 DEF row
    <3>6. m \notin memories
      BY <1>1, <3>1 DEF FeedbackHasState
    <3>7. \A n \in memories' : feedback'[n].state = "completed"
      BY <1>1, <2>1, <3>4, <3>6
    <3>8. events' \in [Deliveries -> Outcome \cup {NULL}]
      BY <1>3, <3>1 DEF Outcome
    <3> QED BY <1>0, <1>1, <2>1, <3>3, <3>4, <3>5, <3>7, <3>8, FeedbackRows
  <2> QED BY <1>8, <2>2, <2>3 DEF AcceptFeedback
<1>9. ASSUME NEW m \in MergeRequests,
             \/ ClaimFeedbackJob(m)
             \/ \E lesson \in BOOLEAN : CompleteFeedbackJob(m, lesson)
             \/ RetryFeedbackJob(m) \/ FinishFeedbackJob(m)
             \/ RetryFailedFeedbackJob(m) \/ FeedbackBecomesDue(m)
      PROVE  FInv'
  <2>1. feedback[m] \in FeedbackJob /\ feedback[m].attempts \in 0 .. MaxJobAttempts
    BY <1>1 DEF FeedbackJob
  <2>2. CASE ClaimFeedbackJob(m)
    <3> DEFINE row == [feedback[m] EXCEPT !.state = "running", !.attempts = @ + 1]
    <3>1. feedback[m].attempts + 1 \in 0 .. MaxJobAttempts
      BY <2>1, <2>2, ReviewJobsAssumption DEF ClaimFeedbackJob, FeedbackSelectable
    <3>2. row \in FeedbackJob
      BY <2>1, <3>1, FeedbackRowTyped
    <3>3. row.review = feedback[m].review
      BY <2>1 DEF FeedbackJob
    <3>4. /\ feedback' = [feedback EXCEPT ![m] = row] /\ feedback[m].state = "queued"
          /\ events' = events /\ memories' \subseteq memories \cup {m} /\ m \notin memories'
      BY <1>1, <2>2 DEF ClaimFeedbackJob, FeedbackSelectable, FeedbackHasState
    <3> HIDE DEF row
    <3> QED BY <1>0, <3>2, <3>3, <3>4, OneFeedbackRow
  <2>3. ASSUME NEW lesson \in BOOLEAN, CompleteFeedbackJob(m, lesson) PROVE FInv'
    <3> DEFINE row == [feedback[m] EXCEPT !.state = "completed"]
    <3>1. row \in FeedbackJob /\ row.review = feedback[m].review /\ row.state = "completed"
      BY <2>1 DEF FeedbackJob
    <3>2. /\ feedback' = [feedback EXCEPT ![m] = row] /\ feedback[m].state = "running"
          /\ events' = events /\ memories' \subseteq memories \cup {m}
      BY <1>1, <2>3 DEF CompleteFeedbackJob, FeedbackHasState
    <3> HIDE DEF row
    <3> QED BY <1>0, <3>1, <3>2, OneFeedbackRow
  <2>4. CASE RetryFeedbackJob(m)
    <3> DEFINE row == FeedbackRequeued(feedback[m], FALSE)
    <3>1. row \in FeedbackJob /\ row.review = feedback[m].review
      BY <2>1, RowsTyped
    <3>2. /\ feedback' = [feedback EXCEPT ![m] = row] /\ feedback[m].state = "running"
          /\ events' = events /\ memories' \subseteq memories \cup {m} /\ m \notin memories'
      BY <1>1, <2>4 DEF RetryFeedbackJob, FeedbackHasState
    <3> HIDE DEF row
    <3> QED BY <1>0, <3>1, <3>2, OneFeedbackRow
  <2>5. CASE FinishFeedbackJob(m)
    <3> DEFINE row == [feedback[m] EXCEPT !.state = "failed"]
    <3>1. row \in FeedbackJob /\ row.review = feedback[m].review
      BY <2>1 DEF FeedbackJob
    <3>2. /\ feedback' = [feedback EXCEPT ![m] = row] /\ feedback[m].state = "running"
          /\ events' = events /\ memories' \subseteq memories \cup {m} /\ m \notin memories'
      BY <1>1, <2>5 DEF FinishFeedbackJob, FeedbackHasState
    <3> HIDE DEF row
    <3> QED BY <1>0, <3>1, <3>2, OneFeedbackRow
  <2>6. CASE RetryFailedFeedbackJob(m)
    <3> DEFINE row == [feedback[m] EXCEPT !.state = "queued", !.attempts = 0, !.due = TRUE]
    <3>0. 0 \in 0 .. MaxJobAttempts
      BY ReviewJobsAssumption
    <3>1. row \in FeedbackJob
      BY <2>1, <3>0, FeedbackRowTyped
    <3>2. row.review = feedback[m].review
      BY <2>1 DEF FeedbackJob
    <3>3. /\ feedback' = [feedback EXCEPT ![m] = row] /\ feedback[m].state = "failed"
          /\ events' = events /\ memories' \subseteq memories \cup {m} /\ m \notin memories'
      BY <1>1, <2>6 DEF RetryFailedFeedbackJob, FeedbackHasState
    <3> HIDE DEF row
    <3> QED BY <1>0, <3>1, <3>2, <3>3, OneFeedbackRow
  <2>7. CASE FeedbackBecomesDue(m)
    <3> DEFINE row == [feedback[m] EXCEPT !.due = TRUE]
    <3>1. row \in FeedbackJob /\ row.review = feedback[m].review
      BY <2>1 DEF FeedbackJob
    <3>2. /\ feedback' = [feedback EXCEPT ![m] = row] /\ feedback[m].state = "queued"
          /\ events' = events /\ memories' \subseteq memories \cup {m} /\ m \notin memories'
      BY <1>1, <2>7 DEF FeedbackBecomesDue, FeedbackHasState
    <3> HIDE DEF row
    <3> QED BY <1>0, <3>1, <3>2, OneFeedbackRow
  <2> QED BY <1>9, <2>2, <2>3, <2>4, <2>5, <2>6, <2>7
<1>10. CASE UNCHANGED <<storeVars, feedbackVars>>
  BY <1>1, <1>2, <1>10 DEF feedbackVars
<1> QED BY <1>4, <1>5, <1>6, <1>7, <1>8, <1>9, <1>10 DEF NextFeedback

LEMMA FeedbackInvariance == SpecFeedback => []FInv
BY FInvInit, FInvPreserved, PTL DEF SpecFeedback, InitDatabase

-----------------------------------------------------------------------------

\* The review a feedback job is bound to stays completed, canonical, stored and
\* published: ClaimFeedbackJob never fails on the job at the head of the line.
THEOREM BindingsStayEligible == SpecFeedback => []BoundReviewStaysEligible
<1>1. FInv => BoundReviewStaysEligible
  BY DEF FInv
<1> QED BY <1>1, FeedbackInvariance, PTL

\* A lesson exists only for a completed feedback job: CompleteFeedbackJob never
\* fails on the UNIQUE source of a lesson.
THEOREM LessonsAreOfCompletedJobs == SpecFeedback => []MemoryOnlyWhenCompleted
<1>1. FInv => MemoryOnlyWhenCompleted
  BY DEF FInv
<1> QED BY <1>1, FeedbackInvariance, PTL

\* A feedback row stays, with its binding.
LEMMA FeedbackRowStays ==
  ASSUME FInv, [NextFeedback]_<<storeVars, feedbackVars>>,
         NEW m \in MergeRequests, feedback[m].state # "absent"
  PROVE  /\ feedback'[m].state # "absent"
         /\ feedback'[m].review = feedback[m].review
         /\ feedback'[m].head = feedback[m].head
<1> DEFINE Stays == /\ feedback'[m].state # "absent"
                    /\ feedback'[m].review = feedback[m].review
                    /\ feedback'[m].head = feedback[m].head
<1>1. feedback \in [MergeRequests -> FeedbackJob]
  BY DEF FInv, TypeOKFeedback
<1>2. feedback'[m] = feedback[m] => Stays
  OBVIOUS
<1>3. CASE RecoverAll
  BY <1>1, <1>3, RowsTyped DEF RecoverAll
<1>4. ASSUME NEW d \in Deliveries, NEW n \in MergeRequests, NEW h \in Heads, AcceptFeedback(d, n, h)
      PROVE  feedback'[m] = feedback[m]
  BY <1>1, <1>4 DEF AcceptFeedback, FeedbackHasState
<1>5. ASSUME NEW n \in MergeRequests, ClaimFeedbackJob(n) PROVE Stays
  BY <1>1, <1>5 DEF ClaimFeedbackJob, FeedbackJob
<1>6. ASSUME NEW n \in MergeRequests, \E lesson \in BOOLEAN : CompleteFeedbackJob(n, lesson)
      PROVE  Stays
  BY <1>1, <1>6 DEF CompleteFeedbackJob, FeedbackJob
<1>7. ASSUME NEW n \in MergeRequests, FinishFeedbackJob(n) PROVE Stays
  BY <1>1, <1>7 DEF FinishFeedbackJob, FeedbackJob
<1>8. ASSUME NEW n \in MergeRequests, RetryFailedFeedbackJob(n) PROVE Stays
  BY <1>1, <1>8 DEF RetryFailedFeedbackJob, FeedbackJob
<1>9. ASSUME NEW n \in MergeRequests, FeedbackBecomesDue(n) PROVE Stays
  BY <1>1, <1>9 DEF FeedbackBecomesDue, FeedbackJob
<1>10. ASSUME NEW n \in MergeRequests, RetryFeedbackJob(n) PROVE Stays
  BY <1>1, <1>10, RowsTyped DEF RetryFeedbackJob
<1>11. ASSUME NEW d \in Deliveries, AcceptIgnored(d) \/ \E i \in Identity : AcceptReview(d, i)
       PROVE  feedback' = feedback
  BY <1>11 DEF AcceptIgnored, AcceptReview
<1>12. ReviewSide \/ UNCHANGED <<storeVars, feedbackVars>> => feedback' = feedback
  BY DEF ReviewSide, feedbackVars
<1> QED
  BY <1>2, <1>3, <1>4, <1>5, <1>6, <1>7, <1>8, <1>9, <1>10, <1>11, <1>12 DEF NextFeedback

\* A review row stays, with its number.
LEMMA ReviewRowStays ==
  ASSUME IInv, [NextStore]_storeVars, NEW k \in Identity, jobs[k].state # "absent"
  PROVE  jobs'[k].state # "absent" /\ jobs'[k].id = jobs[k].id
<1> DEFINE Stays == jobs'[k].state # "absent" /\ jobs'[k].id = jobs[k].id
<1> USE DEF IInv, TypeOKStore, HasState, Job
<1>1. ASSUME NEW row \in Job, NEW due \in BOOLEAN
      PROVE  Requeued(row, due).state # "absent" /\ Requeued(row, due).id = row.id
  BY DEF Requeued
<1>2. CASE RecoverInterruptedJobs
  BY <1>1, <1>2 DEF RecoverInterruptedJobs
<1>3. ASSUME NEW i \in Identity, RetryJob(i) PROVE Stays
  BY <1>1, <1>3 DEF RetryJob
<1>4. ASSUME NEW i \in Identity, CreateReviewJob(i) PROVE Stays
  BY <1>4 DEF CreateReviewJob
<1>5. ASSUME NEW i \in Identity,
             \/ ClaimSelectedJob(i) \/ DeferCI(i) \/ DeferPendingPatchID(i)
             \/ BecomeDue(i) \/ RetryFailedReviewJob(i)
      PROVE  Stays
  BY <1>5 DEF ClaimSelectedJob, DeferCI, DeferPendingPatchID, BecomeDue, RetryFailedReviewJob
<1>6. ASSUME NEW i \in Identity, NEW c, NEW sha, CompleteEquivalentReview(i, c, sha) PROVE Stays
  BY <1>6 DEF CompleteEquivalentReview
<1>7. ASSUME NEW i \in Identity, NEW state, FinishJob(i, state) PROVE Stays
  BY <1>7 DEF FinishJob
<1>8. ASSUME NEW i \in Identity, NEW note, CompletePublication(i, note) PROVE Stays
  BY <1>8 DEF CompletePublication
<1>9. ASSUME NEW i \in Identity, NEW n, NEW status, NEW sha, SaveReviewResult(i, n, status, sha)
      PROVE  Stays
  BY <1>9 DEF SaveReviewResult
<1>10. CASE UNCHANGED storeVars
  BY <1>10 DEF storeVars
<1> QED
  BY <1>2, <1>3, <1>4, <1>5, <1>6, <1>7, <1>8, <1>9, <1>10 DEF NextStore

\* What is recorded for a delivery is never recorded anew.
LEMMA EventStays ==
  ASSUME FInv, [NextFeedback]_<<storeVars, feedbackVars>>,
         NEW d \in Deliveries, events[d] # NULL
  PROVE  events'[d] = events[d]
<1>1. events \in [Deliveries -> Outcome \cup {NULL}]
  BY DEF FInv, TypeOKFeedback
<1>2. ASSUME NEW e \in Deliveries, events[e] = NULL, NEW o, Record(e, o)
      PROVE  events'[d] = events[d]
  BY <1>1, <1>2 DEF Record
<1>3. ASSUME NEW e \in Deliveries, AcceptIgnored(e) \/ \E i \in Identity : AcceptReview(e, i)
      PROVE  events'[d] = events[d]
  BY <1>2, <1>3 DEF AcceptIgnored, AcceptReview
<1>4. ASSUME NEW e \in Deliveries, NEW m \in MergeRequests, NEW h \in Heads, AcceptFeedback(e, m, h)
      PROVE  events'[d] = events[d]
  BY <1>2, <1>4 DEF AcceptFeedback
<1>5. ASSUME NEW m \in MergeRequests,
             \/ ClaimFeedbackJob(m)
             \/ \E lesson \in BOOLEAN : CompleteFeedbackJob(m, lesson)
             \/ RetryFeedbackJob(m) \/ FinishFeedbackJob(m)
             \/ RetryFailedFeedbackJob(m) \/ FeedbackBecomesDue(m)
      PROVE  events' = events
  BY <1>5 DEF ClaimFeedbackJob, CompleteFeedbackJob, RetryFeedbackJob, FinishFeedbackJob,
              RetryFailedFeedbackJob, FeedbackBecomesDue
<1>6. RecoverAll \/ ReviewSide \/ UNCHANGED <<storeVars, feedbackVars>> => events' = events
  BY DEF RecoverAll, ReviewSide, feedbackVars
<1> QED
  BY <1>3, <1>4, <1>5, <1>6 DEF NextFeedback

\* What AcceptEvent binds, no retry, recovery or later event rebinds.
THEOREM BindingsAreFixed == SpecFeedback => BindingIsFixed
<1>1. FInv /\ [NextFeedback]_<<storeVars, feedbackVars>> =>
        [\A m \in MergeRequests :
           ~FeedbackHasState(m, "absent") => /\ feedback'[m].review = feedback[m].review
                                             /\ feedback'[m].head = feedback[m].head
        ]_<<storeVars, feedbackVars>>
  BY FeedbackRowStays DEF FeedbackHasState
<1> QED
  BY <1>1, FeedbackInvariance, PTL DEF SpecFeedback, BindingIsFixed

-----------------------------------------------------------------------------
(* The rows' ids. *)

\* FindCanonicalReviewJob and the binding of feedback take the newest of the
\* jobs that qualify, by the ids of their rows: there is never a second one.
LookupsAreDeterminate ==
  /\ \A i \in Identity, sha \in PatchIDs :
       \A c, d \in FindCanonicalReviewJob(i, sha) : c = d
  /\ \A m \in MergeRequests : \A q, r \in FeedbackReview(m) : q = r

\* Every row got an id of its own when it was created, and no id is given twice.
IdsInv ==
  /\ \A i \in Identity : ~HasState(i, "absent") => jobs[i].id \in 1 .. lastID
  /\ \A i, k \in Identity :
       ~HasState(i, "absent") /\ ~HasState(k, "absent") /\ jobs[i].id = jobs[k].id => i = k

\* Only the creation of a row gives an id, and no row disappears.
LEMMA IdsStay ==
  ASSUME TypeOKStore, [NextStore]_storeVars, \A i \in Identity : ~CreateReviewJob(i)
  PROVE  /\ lastID' = lastID
         /\ \A k \in Identity : /\ jobs'[k].id = jobs[k].id
                                /\ HasState(k, "absent")' <=> HasState(k, "absent")
<1> USE DEF TypeOKStore, HasState, Job
<1> DEFINE Kept == /\ lastID' = lastID
                   /\ \A k \in Identity : /\ jobs'[k].id = jobs[k].id
                                          /\ jobs'[k].state = "absent" <=> jobs[k].state = "absent"
<1>0. ASSUME NEW row \in Job, NEW due \in BOOLEAN, row.state = "running"
      PROVE  Requeued(row, due).id = row.id /\ Requeued(row, due).state # "absent"
  BY <1>0 DEF Requeued
<1>1. CASE RecoverInterruptedJobs
  BY <1>1, <1>0 DEF RecoverInterruptedJobs
<1>2. ASSUME NEW i \in Identity, RetryJob(i) PROVE Kept
  <2>1. jobs'[i] = Requeued(jobs[i], FALSE) /\ \A k \in Identity \ {i} : jobs'[k] = jobs[k]
    BY <1>2 DEF RetryJob
  <2>2. lastID' = lastID /\ jobs[i].state = "running" /\ jobs[i] \in Job
    BY <1>2 DEF RetryJob
  <2> QED BY <1>0, <2>1, <2>2
<1>3. ASSUME NEW i \in Identity, BecomeDue(i) \/ ClaimSelectedJob(i) \/ DeferCI(i) PROVE Kept
  BY <1>3 DEF BecomeDue, ClaimSelectedJob, DeferCI, Selectable
<1>4. ASSUME NEW i \in Identity, DeferPendingPatchID(i) \/ RetryFailedReviewJob(i) PROVE Kept
  BY <1>4 DEF DeferPendingPatchID, RetryFailedReviewJob
<1>5. ASSUME NEW i \in Identity, NEW c, NEW sha, CompleteEquivalentReview(i, c, sha) PROVE Kept
  BY <1>5 DEF CompleteEquivalentReview
<1>6. ASSUME NEW i \in Identity, NEW state \in {"failed", "obsolete"}, FinishJob(i, state) PROVE Kept
  BY <1>6 DEF FinishJob
<1>7. ASSUME NEW i \in Identity, NEW note, CompletePublication(i, note) PROVE Kept
  BY <1>7 DEF CompletePublication
<1>8. ASSUME NEW i \in Identity, NEW n, NEW status, NEW sha, SaveReviewResult(i, n, status, sha)
      PROVE  Kept
  BY <1>8 DEF SaveReviewResult
<1>9. CASE UNCHANGED storeVars
  BY <1>9 DEF storeVars
<1> QED
  BY <1>1, <1>2, <1>3, <1>4, <1>5, <1>6, <1>7, <1>8, <1>9 DEF NextStore

\* A new row gets the next id.
LEMMA NewIdIsFree ==
  ASSUME TypeOKStore, IdsInv, NEW i \in Identity, CreateReviewJob(i)
  PROVE  IdsInv'
<1>1. /\ jobs'[i].id = lastID + 1 /\ lastID' = lastID + 1 /\ lastID \in Nat
      /\ \A k \in Identity \ {i} : jobs'[k] = jobs[k]
  BY DEF CreateReviewJob, TypeOKStore, NoJob
<1>2. \A k \in Identity \ {i} : jobs[k].state # "absent" => jobs[k].id \in 1 .. lastID
  BY DEF IdsInv, HasState
<1>3. \A k \in Identity : jobs'[k].state # "absent" => jobs'[k].id \in 1 .. lastID'
  BY <1>1, <1>2
<1>4. ASSUME NEW j \in Identity, NEW k \in Identity, jobs'[j].state # "absent",
             jobs'[k].state # "absent", jobs'[j].id = jobs'[k].id
      PROVE  j = k
  <2>1. CASE j # i /\ k # i
    BY <1>1, <1>4, <2>1 DEF IdsInv, HasState
  <2>2. CASE j = i \/ k = i
    BY <1>1, <1>2, <1>4, <2>2
  <2> QED BY <2>1, <2>2
<1> QED BY <1>3, <1>4 DEF IdsInv, HasState

\* The rows of the review jobs have ids of their own, for ever.
LEMMA IdsInvariant == SpecStore => []IdsInv
<1>1. InitStore => IdsInv
  BY DEF InitStore, IdsInv, HasState, NoJob
<1>2. TypeOKStore /\ IdsInv /\ [NextStore]_storeVars => IdsInv'
  <2> SUFFICES ASSUME TypeOKStore, IdsInv, [NextStore]_storeVars PROVE IdsInv'
    OBVIOUS
  <2>1. CASE \E i \in Identity : CreateReviewJob(i)
    BY <2>1, NewIdIsFree
  <2>2. CASE \A i \in Identity : ~CreateReviewJob(i)
    <3>1. /\ lastID' = lastID
          /\ \A k \in Identity : /\ jobs'[k].id = jobs[k].id
                                 /\ HasState(k, "absent")' <=> HasState(k, "absent")
      BY <2>2, IdsStay
    <3> QED BY <3>1 DEF IdsInv
  <2> QED BY <2>1, <2>2
<1> QED BY <1>1, <1>2, TypeCorrect, PTL DEF SpecStore

\* Therefore the lookups by which a revision is given a canonical review, and
\* a closed merge request the review its feedback is about, have one answer.
THEOREM LookupsHaveOneAnswer == SpecFeedback => []LookupsAreDeterminate
<1>1. TypeOKStore /\ IdsInv => LookupsAreDeterminate
  <2> SUFFICES ASSUME TypeOKStore, IdsInv PROVE LookupsAreDeterminate
    OBVIOUS
  <2>1. ASSUME NEW c \in Identity, NEW d \in Identity, HasState(c, "completed"),
               HasState(d, "completed"), jobs[c].id <= jobs[d].id, jobs[d].id <= jobs[c].id
        PROVE  c = d
    <3>1. jobs[c].id \in Nat /\ jobs[d].id \in Nat
      BY DEF TypeOKStore, Job
    <3>2. jobs[c].id = jobs[d].id
      BY <2>1, <3>1
    <3>3. ~HasState(c, "absent") /\ ~HasState(d, "absent")
      BY <2>1 DEF HasState
    <3> QED BY <3>2, <3>3 DEF IdsInv
  <2>2. ASSUME NEW i \in Identity, NEW sha \in PatchIDs, NEW c \in FindCanonicalReviewJob(i, sha),
               NEW d \in FindCanonicalReviewJob(i, sha)
        PROVE  c = d
    <3>1. /\ c \in Identity /\ d \in Identity /\ HasState(c, "completed") /\ HasState(d, "completed")
          /\ jobs[c].id <= jobs[d].id /\ jobs[d].id <= jobs[c].id
      BY DEF FindCanonicalReviewJob, Canonical
    <3> QED BY <2>1, <3>1
  <2>3. ASSUME NEW m \in MergeRequests, NEW q \in FeedbackReview(m), NEW r \in FeedbackReview(m)
        PROVE  q = r
    <3>1. PICK c \in FeedbackCandidates(m) :
            q = Effective(c) /\ \A k \in FeedbackCandidates(m) : jobs[k].id <= jobs[c].id
      BY DEF FeedbackReview
    <3>2. PICK d \in FeedbackCandidates(m) :
            r = Effective(d) /\ \A k \in FeedbackCandidates(m) : jobs[k].id <= jobs[d].id
      BY DEF FeedbackReview
    <3>3. /\ c \in Identity /\ d \in Identity /\ HasState(c, "completed") /\ HasState(d, "completed")
          /\ jobs[c].id <= jobs[d].id /\ jobs[d].id <= jobs[c].id
      BY <3>1, <3>2 DEF FeedbackCandidates
    <3>4. c = d
      BY <2>1, <3>3
    <3> QED BY <3>1, <3>2, <3>4
  <2> QED BY <2>2, <2>3 DEF LookupsAreDeterminate
<1> QED BY <1>1, IdsInvariant, TypeCorrect, DatabaseUsesReviewStore, PTL

-----------------------------------------------------------------------------
(* A queued feedback job can be claimed. *)

\* A queued feedback job whose deadline has passed passes every check of
\* ClaimFeedbackJob: it never waits with its claims used up, nor bound to a
\* review that the claim would refuse.
QueuedFeedbackIsClaimable ==
  \A m \in MergeRequests :
    FeedbackHasState(m, "queued") /\ feedback[m].due =>
      /\ FeedbackSelectable(m)
      /\ MergeRequestOf(feedback[m].review) = m
      /\ Reviewed(feedback[m].review)

\* Whether or not the deadline has passed.
FeedbackHasClaims ==
  \A m \in MergeRequests : FeedbackHasState(m, "queued") => feedback[m].attempts < MaxJobAttempts

LEMMA FeedbackClaimsStay ==
  ASSUME TypeOKFeedback, FeedbackHasClaims, [NextFeedback]_<<storeVars, feedbackVars>>
  PROVE  FeedbackHasClaims'
<1> USE ReviewJobsAssumption DEF FeedbackHasClaims, FeedbackHasState, TypeOKFeedback
<1>1. ASSUME UNCHANGED feedback PROVE FeedbackHasClaims'
  BY <1>1
<1>2. ASSUME NEW row \in FeedbackJob, NEW due \in BOOLEAN,
             FeedbackRequeued(row, due).state = "queued"
      PROVE  FeedbackRequeued(row, due).attempts < MaxJobAttempts
  BY <1>2 DEF FeedbackRequeued, FeedbackJob
<1>3. CASE RecoverAll
  <2>1. \A n \in MergeRequests : feedback'[n] = IF feedback[n].state = "running"
                                                THEN FeedbackRequeued(feedback[n], TRUE)
                                                ELSE feedback[n]
    BY <1>3 DEF RecoverAll
  <2> QED BY <1>2, <2>1
<1>4. ASSUME NEW m \in MergeRequests, NEW row \in FeedbackJob,
             feedback' = [feedback EXCEPT ![m] = row],
             row.state = "queued" => row.attempts < MaxJobAttempts
      PROVE  FeedbackHasClaims'
  BY <1>4
<1>5. ASSUME NEW d \in Deliveries, NEW m \in MergeRequests, NEW h \in Heads,
             AcceptFeedback(d, m, h)
      PROVE  FeedbackHasClaims'
  <2>1. CASE \E r \in FeedbackReview(m) :
               feedback' = [feedback EXCEPT ![m] =
                              [state |-> "queued", attempts |-> 0, due |-> TRUE,
                               head |-> h, review |-> r]]
    BY <2>1
  <2> QED BY <1>1, <1>5, <2>1 DEF AcceptFeedback
<1>6. ASSUME NEW m \in MergeRequests,
             \/ ClaimFeedbackJob(m)
             \/ \E lesson \in BOOLEAN : CompleteFeedbackJob(m, lesson)
             \/ FinishFeedbackJob(m)
             \/ RetryFailedFeedbackJob(m) \/ FeedbackBecomesDue(m)
      PROVE  FeedbackHasClaims'
  BY <1>6 DEF ClaimFeedbackJob, CompleteFeedbackJob, FinishFeedbackJob, RetryFailedFeedbackJob,
              FeedbackBecomesDue, FeedbackJob
<1>7. ASSUME NEW m \in MergeRequests, RetryFeedbackJob(m) PROVE FeedbackHasClaims'
  <2>1. feedback[m] \in FeedbackJob /\ FeedbackRequeued(feedback[m], FALSE) \in FeedbackJob
    BY RowsTyped
  <2>2. feedback' = [feedback EXCEPT ![m] = FeedbackRequeued(feedback[m], FALSE)]
    BY <1>7 DEF RetryFeedbackJob
  <2> QED BY <1>2, <1>4, <2>1, <2>2
<1>8. ASSUME NEW d \in Deliveries, AcceptIgnored(d) \/ \E i \in Identity : AcceptReview(d, i)
      PROVE  FeedbackHasClaims'
  BY <1>1, <1>8 DEF AcceptIgnored, AcceptReview
<1>9. CASE ReviewSide \/ UNCHANGED <<storeVars, feedbackVars>>
  BY <1>1, <1>9 DEF ReviewSide, feedbackVars
<1> QED BY <1>3, <1>5, <1>6, <1>7, <1>8, <1>9 DEF NextFeedback

\* Therefore no feedback job blocks the queue: the one that comes first can
\* always be claimed, which is what makes feedback settle while the worker polls.
THEOREM QueuedFeedbackCanBeClaimed == SpecFeedback => []QueuedFeedbackIsClaimable
<1>1. InitDatabase => FeedbackHasClaims
  BY DEF InitDatabase, InitFeedback, NoFeedback, FeedbackHasClaims, FeedbackHasState
<1>2. FInv /\ FeedbackHasClaims /\ [NextFeedback]_<<storeVars, feedbackVars>> => FeedbackHasClaims'
  BY FeedbackClaimsStay DEF FInv
<1>3. FInv /\ FeedbackHasClaims => QueuedFeedbackIsClaimable
  BY DEF FInv, BoundReviewStaysEligible, FeedbackHasClaims, QueuedFeedbackIsClaimable,
         FeedbackSelectable, FeedbackHasState
<1> QED BY <1>1, <1>2, <1>3, FeedbackInvariance, PTL DEF SpecFeedback

\* The feedback and event tables are always well typed.
THEOREM FeedbackTypeCorrect == SpecFeedback => []TypeOKFeedback
<1>1. FInv => TypeOKFeedback
  BY DEF FInv
<1> QED BY <1>1, FeedbackInvariance, PTL
=============================================================================
