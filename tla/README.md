# Wormtamer in TLA+

Wormtamer reviews GitLab merge requests: a webhook or a periodic scan creates a
job per revision, one worker lets Gemini review it, and the review is posted as
a note. When the merge request ends, a second worker may derive a reusable
lesson. Everything durable is in one SQLite database, and the service runs as
one process (`docs/agents/reliability.md`: a single replica). What makes this
hard is that the database, GitLab and the model cannot commit together: the
process may stop between any two calls, answers get lost, merge requests move
while they are read, and four kinds of goroutines share tables and one client.

The specifications keep all control of the modelled code (guards of SQL
statements, early returns, error paths and their order) and abstract the data:
a review is its number of findings, a deadline is whether it has passed, a
payload is what the handler classifies it as. Operators whose comment starts
with `Mutant:` are deliberately wrong variants of the definition that follows;
nothing uses them, they exist to show that each property can fail.
`PROJECT.json` maps every definition to the lines it models.

## Inventory

| Component (source) | State | Operations | Hard behaviour |
|---|---|---|---|
| Review store (`internal/store/store.go`, `operations.go`, `schema.go`) | `review_jobs`, `review_results`, `review_findings`, `publications` | create, select, claim, defer (CI, patch ID), save, alias, publish, retry, finish, recover | any caller order; claims counted across crashes; aliases to jobs that must stay valid |
| Event and feedback store (`store.go` AcceptEvent, `feedback.go`) | `webhook_events`, `feedback_jobs`, `review_memories` | accept event, claim, complete, retry, finish, recover | binding to a review that races with its completion |
| Review worker (`internal/worker`) | the claimed job in memory | Run, processDue, execute, handleFailure | crash between POST and record, shutdown grace period, stale preflight |
| Feedback worker (`internal/feedback`) | the claimed job in memory | claim, load, evaluate, complete, handle failure | stop between evaluation and completion |
| GitLab client (`internal/gitlab`) | the request gate | find note, check head, CI, load, post note, list | lost and late answers; shared pauses; paging |
| Webhook ingress (`internal/webhook`) | admission slots | admit, read, classify, store, answer | repeated and concurrent deliveries, uncertain commits |
| Reconciler (`internal/reconcile`) | position of the scan | resolve project, list page, insert | the list shifts between pages |
| Codemode (`internal/repository/codemode*.go`) | helper process, pipes, nested calls | run, call, respond, cancel, clean up | blocked pipes, concurrent failures, which error wins |
| Evidence budget (`internal/review/tools.go`) | bytes left, exhausted | available, admit | concurrent charges at the limit |
| Review loop (`internal/review/gemini.go`, `result.go`) | the conversation, the limit of the turn | generate, dispatch, answer, finish | limit in the middle of a turn; three nested contexts |
| Repository workspaces (`internal/repository/repository.go`, `prepare.go`) | review roots on disk, Manager.closed | prepare, rename, close, clean | cleaning under an abandoned preparation; leftovers of a killed process |
| Bash tool (`internal/repository/bash.go`) | processes, capture, output file, spool allowance | start, copy, select, kill, drain, answer | five racing events; a pipe that stays open; a shared allowance |
| Service process (`cmd/wormtamer`) | the goroutines, the first error, the deferred calls | start, recover, listen, select, shut down, wait, exit, `jobs retry` | which failure reaches the exit status; hanging requests and jobs; kill and restart |
| Memory evaluator (`internal/memory/gemini.go`) | none | validate, request, decode | which failures are retried |
| Read tool, panel, configuration, diagnostics | – | – | not modelled, see below |

How they interact: ingress and the reconciler insert jobs; the review worker
turns jobs into notes and results; ingress binds a closed merge request to a
completed review; the feedback worker reads that review and writes a memory;
operators put failed jobs back; all calls to GitLab pass one gate; inside one
review, the loop dispatches the calls of the model, codemode runs a helper
process whose nested calls share the budget with those of the loop, and bash
commands share the spool allowance; the service process starts and stops them
all and cleans up the directories of their reviews.

## Modules

`Identities` (review identities) ← `ReviewJobs` (review tables) ←
`FeedbackJobs` (the other tables) ← `Ingress`;
`GitLabBroker` (GitLab seen through the client) with `ReviewJobs` ←
`ReviewWorker`, with `FeedbackJobs` ← `FeedbackWorker`; `ReviewJobs` ←
`Reconciler`; `Codemode` ← `ReviewLoop`, its composition with the conversation;
`Workspaces` ← `ServiceProcess`, its composition with the process that may be
killed and started again. `GitLabGate` and `BashTool` stand alone.
`ReviewLifecycle` is the abstract specification that `ReviewJobs` implements.
The `MC*` modules only define constants and symmetry sets for TLC. Theorems are
in eight modules: `Store_proofs` (all tables) ← `ReviewWorker_proofs`,
`FeedbackWorker_proofs` and `Discovery_proofs` (ingress and reconciler), which
cite what it proves of the tables; `ReviewLoop_proofs` (with codemode),
`BashTool_proofs`, `ServiceProcess_proofs` (with the workspaces) and
`GitLabGate_proofs`.

**ReviewJobs.** One action per transaction, with the guard of its SQL
statement, so it is the contract towards any caller. A row is addressed by its
identity, which the schema makes UNIQUE; `id` keeps the insertion order that
`FindCanonicalReviewJob` and the feedback query sort by. `BecomeDue` is the
passing of `next_attempt_at`.

**ReviewLifecycle.** What a user is promised for a revision: it is pending until
answered by its own published review or by that of a revision of the same merge
request, given up (an operator may ask again), or obsolete; answers are final.
`ReviewJobs!ImplementsLifecycle` maps the tables to it.

**GitLabBroker.** External: merge requests (open, head, patch) that anyone may
close, reopen and push to, and the list of notes. `DelayedPosts` says whether a
POST whose request timed out may take effect later.

**ReviewWorker.** `pc` is the next call of `processDue`/`execute`, `job` what
the goroutine has in memory. Each action is one call with all its outcomes.
Every store call of claimed work may report an error although it committed
(`Uncertain`): this is more than SQLite does in practice and the properties hold
nevertheless. `Shutdown` cancels admission and lets claimed work go on,
`Abandon` is the end of the grace period, `Crash` stops at any step, `Restart`
runs `RecoverInterruptedJobs`, `LoseDatabase` starts over with empty tables.

**FeedbackJobs, FeedbackWorker.** The same for feedback. A failed claim of a
feedback job is taken to be rolled back: `Run` polls on after one, so a claim
that committed nevertheless would leave its row running until the next start.
The review side takes any step of its
contract (`ReviewSide`), including recovery, which is more than the service
does while it runs. The evaluation goes through the steps of `Evaluate`
(`ValidateInput`, `ClassifyGeminiError`, `DecodeResult`): which of them fails
decides whether the job is retried.

**Ingress.** Connections carry deliveries; each request is admitted or refused,
read, stored and answered, and gives its slot back. A 200 may be lost on its
way; the same delivery may be in several requests at once. Requests with a bad
token are answered 401 without any state change and are left out.

**Reconciler.** The scan of each project in configuration order, page by page
from page one, with drafts skipped, backpressure and the page
limit, while the list changes. Merge requests are numbers and the newest comes
first, so the position of one in the list is the number of open ones that are
newer; a page is the merge requests in a range of positions, with the rows as
they were listed (`batch`). Its specification is `SpecScan`, since the theorems
about ingress and reconciler share a module.

**GitLabGate.** `waitForGate` reads the deadline under the lock, compares and
sleeps outside; `extendGate` takes the maximum. Points in time are kept as
remaining time, so the state space is finite without a bound on the clock.

**Codemode.** Host loop, helper, nested calls, budget and two bounded pipes.
`ReceiveDone`, `ReceiveEOF`, `NoticeDone` lead to `Cleanup` (cancel, kill, wait)
and `ReturnResult`. Text output frames and the parsing of the `@options` line
are left out; only whether there is a script timeout remains.

**ReviewLoop.** `GeminiReviewer.Review`: the model asks for a turn of calls or
gives the final review; the calls are dispatched in order, each is answered and
charged to the evidence budget; the call that meets the limit is answered with
a notice, the rest of the turn likewise, and one final generation without tools
follows. A codemode call starts the `Codemode` component, and all of its steps
interleave with the contexts (service, review deadline, generation). A response
is its size, a final review whether it is valid.

**BashTool.** Per command three actors: the processes (external), the goroutine
that copies the pipe into memory or into the output file, and the call, whose
`select` takes any of the events that are ready: exit, output limit, capture
failure, timeout, cancellation. `Drain` is the 100 ms cut-off, `CloseCapture`
and `Answer` decide what the model is told. A detached process may hold the
pipe for ever, and the process that was started may itself move to another
group (`Leave`), where the signals do not reach it. All commands and the output of a script draw on `spoolUsed`.
What a command writes after the cut-off is lost by design, so "complete" means
all that was captured. A wait error that is no exit status is left out.

**Workspaces.** Where each review root is (nowhere, `.staging`, exposed) and
whether it is whole. `Prepare` is step by step: staging directory, clone, fetch
of related data, check of the git configuration, handing over, the context and
manager checks around the rename, discarding. `cleanDirectory` reads the root
once and then removes entry by entry, contents before entry, so that a rename
may come in between; a removal may fail and leaves the root `stuck`.

**ServiceProcess.** `run`: opening the store, recovery, `NewManager`, the
listener, the four goroutines, the `select`, the shutdown of the HTTP server,
the waits in their fixed order, and the deferred `Manager.Close` and
`storage.Close`. The review worker is modelled down to its job goroutine, which
is abandoned after the grace period and then runs beside the deferred calls.
`Kill` ends the process at any step; only the disk survives.

## What the runs check

| Run | Shows | Bounds and why |
|---|---|---|
| `store` | `AliasIntegrity`, `CompletedIffAnswered`, `SettledForever`, `ClaimsAreCounted`, `ImplementsLifecycle` of the review tables and `BoundReviewStaysEligible`, `MemoryOnlyWhenCompleted`, `BindingIsFixed` of the feedback tables, under any interleaving of all transactions | two heads: a canonical job and its alias; two deliveries: a first and a later close; two claims: a retry and the last one. All are proved for any number |
| `worker_crash` | at most one note per revision, apart from one that GitLab created late; every note shows the stored review; a running row is owned; waiting for a patch ID leaves the reserve of claims; the worker uses the store by its contract (`UsesStore`) | two heads with one patch (alias path), one push, one stop, late POSTs, three claims of which a wait for the patch ID leaves two (the reserve is three of five in the code, and a constant here) |
| `worker_liveness` | `JobsSettle`: every queued job is completed, failed or obsolete in the end, or waits for CI; `NoWastedReview`: no paid review is repeated, with the markers of the notes alone after a loss of the database; `SelectionStaysValid`: from the search for a note over the question for CI to the deferral the selected row stays due and unreviewed | two merge requests competing for the worker, two claims, two stops, one retry, one loss |
| `feedback_worker` | running rows are owned, the worker keeps the store's contract, every job settles | two deliveries, two moves, one stop, one retry |
| `ingress` | acknowledged means durable; a delivery always resolves to the same result; slots are given back | three connections for two slots, two deliveries, one crash; no patch IDs, which ingress never reads |
| `gate` | pauses are never cut; nobody sends during a pause it could see | three callers, pauses of up to three units, no bound on time |
| `reconciler` | a scan that completed, and during which nothing left the list, found every revision that was ready all along; however scans fail, a merge request that stays ready within the page limit gets its job | a project with up to three pages of one and a page limit of two, behind an empty project whose scan may fail or end the cycle; two heads, one change |
| `review_loop` | a nested failure is never hidden and an honest helper never rejected (`RunCodeIsHonest`); evidence is charged once and never over the allowance; every call of a turn is answered in order and the limit is told once; no tool runs after exhaustion; a cancellation is told from a timeout; the review returns | turns of two calls, one script of three nested calls with two slots, pipes of one frame, an allowance of one and responses of up to two: blocking on both pipes, a refused third call and the limit in the middle of a turn happen; the number of turns is not bounded by the model, but by the allowance (`ConversationsAreBounded`) |
| `bash` | the allowance is kept; truncated output is in the file the answer names; a limit is always reported; calls return unless the process they started left its group | two commands, one with a timeout, and a script; output of up to two units, shown up to one, an allowance of three: each limit can be met first |
| `service` | a clean exit means no failure; every review root on disk is owned; a review gets whole roots only; the shutdown ends | two starts, so one kill with leftovers; two roots; one request that may hang |

`CHECK_DEADLOCK FALSE` stands where the bounds on stops, moves, notes, starts or
calls really end a behaviour (workers, reconciler, one review, the bash calls,
the process); the store, the gate and ingress are checked for deadlock.

Two runs expect a violation.

* `worker_lost_revision`: a merge request closed while its head waits for
  review and reopened at the same head keeps an obsolete row that nothing
  resets, so the current revision is never reviewed
  (`docs/agents/reliability.md:5`: "must not silently lose a merge request
  revision"; line 144 describes the code).
* `bash_named_file`: when the command exits or times out before the `select`
  notices the output limit, the answer is formatted with the path of the output
  file and the file is removed right afterwards (`docs/agents/reliability.md:174`:
  truncated output "points to a complete review-local output file"). The model
  is still told that the limit was exceeded (`LimitIsReported`).

Four limits of what is promised are visible in the models:

* A POST that GitLab executes after its request timed out may come after the
  retry's search, so `AtMostOneNote` excepts a note that was created late; what
  such a note shows is still the stored review (`PublishedIsStored`).
* `ScanCoversProject` needs its condition that nothing left the list: pages are
  addressed by offset, and a merge request that closes between two pages shifts
  a ready one to the page already read. A later scan finds it
  (`ReadyIsDiscovered`).
* `terminateProcessGroup` signals the group that was created for the command, and
  `callBash` then waits without limit for the process it started. One that moved
  to another group keeps the call, and with it the review, waiting past every
  deadline until it ends by itself; `CallReturns` excepts exactly this.
* The error for codemode arguments that are no object
  (`CallRefusesArguments`) reaches the script without a charge, while
  `docs/agents/reliability.md:176` says that error envelopes are charged.

## Fairness

* Review worker: the goroutine runs and its calls return, since every request
  has a deadline (WF of `WorkerStep`); the container is restarted (`Restart`);
  time passes (`Tick`); reconciliation scans for ever (`Discover` of current
  revisions). `Select(i)` is strongly fair because `NextJob` takes the earliest
  deadline: a job put back gets a deadline behind all that are due already.
  Nothing is assumed of operators, pushes, CI or of calls succeeding.
* Feedback worker: the same, with `ClaimFeedbackJob`'s order in place of
  `NextJob`'s.
* Reconciler: the ticker fires; and no single call (resolve, a page, an insert)
  fails every time it is tried (SF). Without this last assumption GitLab could
  refuse one project for ever and nothing could be promised.
* Review loop: the loop and the host goroutines of codemode run, the review
  deadline comes, a generation returns and a tool call ends once its context is
  done (of bash, `CallReturns` says when it does not). Nothing is assumed of script, helper or of the model ever finishing.
* Bash: the context of the review ends, and as long as some call can go on, one
  of them does. Nothing is assumed of the command, nor of the goroutine that
  copies its output, since the call waits 100 ms for it at most. A process that
  is in the signalled group is taken to end.
* Service: `run` goes on, and once the components are told to stop, so does one
  of the goroutines that have yet to end. Nothing is assumed of requests or
  jobs, which may hang.

Liveness is stated so that TLC can check it on few branches: no job stays queued
or running, no shutdown lasts, all calls of `callBash` that were made are over.

## What is proved

Every invariant and every action property that a run checks is also a theorem,
for all sets of merge requests, heads, patch IDs, notes, deliveries, callers and
commands and all bounds. The assumptions are named in the modules:
`ReviewJobsAssumption` (at least one claim; NULL is no note and no number),
`NullAssumption` and `OutcomeAssumption` (NULL is no patch ID, identity or
outcome), `BrokerAssumption` and `WorkerAssumption` (every revision has a patch;
bounds are numbers and the patch wait
leaves at least one claim; the code leaves three), `GateAssumption` (the default delay is within the supported
maximum), `ReconcilerAssumption` (finitely many merge requests, each of a
configured project, at least one head, pages are not empty), `BashAssumption`
(finitely many commands; NoFile is no size), and `CodemodeAssumption`,
`ReviewLoopAssumption`, `IngressAssumption`, `WorkspacesAssumption`,
`ServiceAssumption` and `FeedbackWorkerAssumption` (limits are numbers).

**Tables** (`Store_proofs`): `TypeCorrect`, `AliasesAreSound`,
`CompletionIsSound`, `ChecksNeverFail`, `ResultsSettlePatches`,
`SettledIsFinal`, `ClaimsAreCharged` and the refinement
`StoreImplementsLifecycle`. None of the invariants is inductive alone: that an
alias stays sound needs its canonical job to keep patch, review and publication,
which needs "completed is final" and "completed exactly when answered"; that
needs "an alias has no publication"; and a new row must start without leftovers.
`IInv == TypeOKStore /\ \A i : RowInv(i)` is their closure, stated per row: an
action changes one row, so each preservation proof treats the changed row and
those that point to it. The refinement uses `IInv` to show that each transaction
is one lifecycle step or a stutter; recovery, which changes many rows at once,
is `GiveUpAll`. `ClaimsAreCharged` needs besides that a running job has a claim
(`RunningHasClaim`): a job begins to run only from the queue, each time with one
claim more, only an operator's retry forgets claims, and none runs on more than
`MaxJobAttempts`.
`DatabaseUsesReviewStore` says that each transaction on the whole database is
one of the review store's or none, so all of this holds beside webhooks and
feedback. `BindingsStayEligible`, `LessonsAreOfCompletedJobs` and
`BindingsAreFixed` rest on `FInv`, which adds the binding and the lessons to
`IInv`: a bound review stays eligible only because completed reviews are final,
so the feedback tables cannot be treated alone. `LookupsHaveOneAnswer` (the newest
job that qualifies is one job) rests on `IdsInv`: ids are given once.
`QueuedFeedbackCanBeClaimed` adds that a queued feedback job has a claim left
(`FeedbackHasClaims`), and `FeedbackTypeCorrect` the types of these tables.

**Review worker** (`ReviewWorker_proofs`): `WorkerTypeCorrect`,
`NoJobIsLeftRunning`, `PublicationIsIdempotent`, `PreflightStaysValid`,
`NotesShowStoredReviews`, `ReviewsAreNotWasted`, `PatchWaitLeavesClaims`,
`WorkerKeepsContract`, `SystemImplementsLifecycle`, `SystemAnswersSoundly`.
`WInv` adds to `IInv` what the goroutine's memory says at each call: which of
its fields are set (`Memory`), that the claimed row is still running
(`Ownership`), that the review it remembers is the stored one (`ResultKnown`),
and what it knows of GitLab (`NotesKnown`: after a search that found nothing,
only a note created late can carry the marker). `AtMostOneNote` needs all four:
the second search is made for the row the worker owns, and a post follows only a
search. Four theorems have a hypothesis on the deployment, since the promise is
false without it. `NotesShowStoredReviews`, `WorkerKeepsContract` and
`SystemImplementsLifecycle` assume that the database is kept (`~DatabaseLoss`): a
new one does not know the reviews behind the old notes. `ReviewsAreNotWasted`
assumes `~(DatabaseLoss /\ DelayedPosts)`: a note that comes after the search is
known from the stored review only. The others hold in every case;
`SystemAnswersSoundly` is the soundness of the tables with losses included.
`QueuedJobsCanBeClaimed` is not a property of the tables alone: the statement of
`DeferPendingPatchID` puts any running job back, whatever its claims, and only
`execute`, which looks at the reserve first, keeps the last claim from being
spent on a wait. `QueuedHasClaims` is inductive together with what the worker
remembers of the row it owns (`WInv`).

**Feedback worker** (`FeedbackWorker_proofs`): `NoFeedbackIsLeftRunning`,
`FeedbackKeepsContract` (whatever the worker, webhooks, operators, the review
side, stops and restarts do is a behaviour of the database), and from that and
the tables' theorems `FeedbackNeverBlocks`. `FWInv` is `FInv` with the types and
the ownership, which is inductive with them because no error path returns to
polling while its row is running.

**Discovery** (`Discovery_proofs`). Ingress: `AcknowledgedIsStored`,
`DeliveriesResolveAlike`, `SlotsAreKept`, `IngressKeepsContract` and with it
`IngressImplementsLifecycle`. `IngressInv`
carries what is acknowledged, or about to be, from the commit to the answer
(`Durable`) and ties every recorded outcome to its delivery and to a job that
exists (`EventFits`, `Answered`): a repeated delivery resolves alike because
outcomes are never rewritten and jobs never deleted. The slots taken are counted
as the cardinality of the requests that hold one. Reconciler:
`ScansMissNothing` and `ReconcilerKeepsContract`. `ScanInv` says of a merge
request that was ready all along where it is (`Ahead`): known, in the batch as
it is now, or at a position that a later page covers. While nothing leaves the
list positions only grow, so it cannot slip behind the scan; a page covers as
many positions as it has room for, whatever opened or closed elsewhere.

**Review loop and codemode** (`ReviewLoop_proofs`): `ExhaustionEndsTools`,
`CancellationsAreGenuine`, `ConversationsAreWellFormed`, `RunCodeKeepsPromise`,
`CodeTypeCorrect`, `EvidenceStaysCharged`, for turns of any length, any number of
nested calls and scripts and any allowance. `LimitKnown` says where the loop's
two flags lag behind the shared budget. `TurnInv` says of the turn under way
which calls are answered, and of the finished ones that nothing follows a notice
of the limit but one answer. `CodeInv` relates the nested calls to the slots, to
the frames in the pipes and to `fatalErr`, which must remember the worst of
several failures that may come at once. `EvidenceStaysCharged` compares the sum
of all responses in the conversation with the budget; that a sum grows by what is
appended is proved by the least counterexample (`LeastNumber`, from the library's
well-foundedness of the naturals), since the induction theorems cannot be used. `ConversationsAreBounded` compares
the length of the conversation with that sum (`LengthInv`): every call that is
answered before the limit shows something, so that a pair of turns costs at
least one unit. `LoopTypeCorrect` adds the types of loop and script.

**Bash tool** (`BashTool_proofs`): `BashTypeCorrect`, `LimitsAreReported`,
`TruncatedOutputsAreKept`, `FilesStayWithinAllowance`. `BInv` is stated per
command: how the copy ended agrees with the flags the call selects on
(`CaptureInv`), the copy is over before the call looks (`PhaseInv`), and a copy
that ended well kept everything (`AllKept`). `SpoolInv` compares the sum over all
files with what was charged; that a change of one file changes the sum by the
difference is again proved by a least counterexample, here of a finite set.

**Service process** (`ServiceProcess_proofs`): `CleanExitsAreClean` from
`ExitInv` (no error so far means: asked to stop, and every result received was
good); `ReviewsHaveWholeRoots` from `WholeInv` (as long as the manager is open,
the root of the present preparation is where that left it; cleaning runs only
before the first review and after `Manager.Close`, and the last check of
`Prepare` is of exactly that flag); `RootsStayOwned` from `OwnInv` (while a
cleaning runs every root is one it has yet to come to, or that of an abandoned
job whose `Prepare` has yet to find the manager closed).

**Gate** (`GitLabGate_proofs`): `GateTypeCorrect`, `PausesAreNeverCut`,
`RequestsRespectTheGate` for any number of callers and any delays. The inductive
invariant adds what a caller knows between reading the gate and comparing it with
the clock (`Compared`): what it read covers every pause recorded when it looked.

Only model-checked: liveness (`JobsSettle`, `FeedbackSettles`,
`ReadyIsDiscovered`, `ReviewReturns`, `CallReturns`, `ShutdownEnds`), since
fairness is stated with ENABLED, which is outside the prover's reach. Their
safety parts are theorems: nothing runs without an owner (`NoJobIsLeftRunning`,
`NoFeedbackIsLeftRunning`), what is queued can be claimed
(`QueuedJobsCanBeClaimed`, `QueuedFeedbackCanBeClaimed`), each start is charged
and charges are limited (`ClaimsAreCharged`), and the allowance bounds the
conversation (`ConversationsAreBounded`).

## Not modelled

* The read tool (one helper process, no shared state), prompts and the texts of
  results: outcomes of a plain tool or of `Generate`.
* The panel (read-only), configuration, diagnostics (parsed once; logging), the
  check of file permissions in `credentials.go`.
* Field checks on GitLab responses (a bad response is a failed call), the
  requests inside `LoadReview` and `LoadFeedback` (one step), the pages of
  `FindNote` (one read, see its comment), notes that someone deletes, several replicas
  (the deployment has one), wall-clock steps (`ErrJobNotDue`), deadline rounding.
* Process groups of an abandoned job that outlive the service: the container
  ends with it.

## Plan

Done in this order: store and lifecycle; review worker and broker; feedback;
ingress; gate; reconciler; codemode; review loop; bash tool; workspaces and the
service process; theorems of the store, the gate, the feedback tables, the loop,
the bash tool and the process; then of both workers, ingress, the reconciler,
codemode and the sums over evidence and files; then what the runs cannot show
for all bounds and liveness rests on (claims left, one answer of the lookups, the
length of a conversation). Left for later:

1. `Schedule`: deadlines as numbers, rounding, `NextJob`'s order, clock steps
   and `ErrJobNotDue`; with it `Select`'s strong fairness becomes a result.
2. `LoadReview` split into its requests (a push and a push back in between).
