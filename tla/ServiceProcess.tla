---------------------------- MODULE ServiceProcess ----------------------------
(***************************************************************************)
(* run in cmd/wormtamer: the start of the service, the four goroutines it  *)
(* runs (HTTP server, review worker, reconciler, feedback worker), what    *)
(* ends it, and the shutdown, with the workspace directories it leaves on  *)
(* disk.  The process may be killed at any time and started again.         *)
(*                                                                         *)
(* The review worker is modelled down to its job goroutine, which it       *)
(* abandons when the job outlasts the grace period; what the job does to   *)
(* the database and to GitLab is module ReviewWorker.                      *)
(***************************************************************************)
EXTENDS Workspaces

CONSTANTS
  MaxHandlers,  \* bound: HTTP requests in progress
  MaxStarts     \* bound: starts of the process

ASSUME ServiceAssumption == MaxHandlers \in Nat /\ MaxStarts \in Nat \ {0}

Components == {"serve", "worker", "reconciler", "feedback"}

\* The order in which run waits for those that had not ended.
Waits == <<"serve", "worker", "reconciler", "feedback">>

VARIABLES
  main,          \* what run does next; "down" when no process runs
  starts,        \* starts so far
  status,        \* of a component: off, running, or what it returned: nil, error
  finished,      \* components whose result run has received
  processError,  \* has run an error to return?
  signalled,     \* was it asked to stop?
  stopping,      \* is componentCtx cancelled?
  storeOpen,     \* is the database open?
  handlers,      \* HTTP requests in progress
  cutOff,        \* did the shutdown close connections in use?
  workerPC,      \* the review worker: polling, busy or grace
  job            \* its job: none, start, prepare, review, close, checkpoint, done, failed

serviceVars == <<main, starts, status, finished, processError, signalled, stopping,
                 storeOpen, handlers, cutOff>>
workerVars == <<workerPC, job>>
vars == <<serviceVars, workerVars, workspaceVars>>

Init ==
  /\ InitWorkspaces
  /\ main = "down" /\ starts = 0
  /\ status = [c \in Components |-> "off"]
  /\ finished = {} /\ processError = FALSE
  /\ signalled = FALSE /\ stopping = FALSE
  /\ storeOpen = FALSE
  /\ handlers = 0 /\ cutOff = FALSE
  /\ workerPC = "polling" /\ job = "none"

-----------------------------------------------------------------------------
(* Start. *)

Start ==
  /\ main = "down" /\ starts < MaxStarts
  /\ main' = "open" /\ starts' = starts + 1
  /\ UNCHANGED <<status, finished, processError, signalled, stopping, storeOpen, handlers,
                 cutOff, workerVars, workspaceVars>>

\* The process is gone: its memory with it, its directories stay.
Gone ==
  /\ main' = "down"
  /\ status' = [c \in Components |-> "off"]
  /\ finished' = {} /\ processError' = FALSE
  /\ signalled' = FALSE /\ stopping' = FALSE /\ storeOpen' = FALSE
  /\ handlers' = 0 /\ cutOff' = FALSE
  /\ workerPC' = "polling" /\ job' = "none"
  /\ closed' = FALSE /\ cancelled' = FALSE /\ prep' = NoPrep
  /\ unread' = FALSE /\ entries' = {}
  /\ UNCHANGED <<starts, diskVars, made>>

KeepComponents == UNCHANGED <<starts, status, finished, signalled, stopping, handlers, cutOff, workerVars>>

\* store.Open, RecoverInterruptedJobs.
OpenStore ==
  /\ \/ main = "open" /\ main' = "recover" /\ storeOpen' = TRUE /\ UNCHANGED processError
     \/ main = "open" /\ main' = "return" /\ processError' = TRUE /\ UNCHANGED storeOpen
  /\ KeepComponents /\ UNCHANGED workspaceVars

\* Mutant: NewManager takes the workspace root as it is.
RecoverKeepsRoot ==
  /\ main = "recover"
  /\ \/ main' = "newManager" /\ UNCHANGED processError
     \/ main' = "closeStore" /\ processError' = TRUE
  /\ KeepComponents /\ UNCHANGED <<storeOpen, workspaceVars>>

RecoverInterrupted ==
  /\ main = "recover"
  /\ \/ main' = "newManager" /\ BeginClean /\ UNCHANGED processError
     \/ main' = "closeStore" /\ processError' = TRUE /\ UNCHANGED cleanVars
  /\ KeepComponents /\ UNCHANGED <<storeOpen, diskVars, made, closed, cancelled, prep>>

\* NewManager cleans the workspace root and makes .staging.
NewManager ==
  /\ main = "newManager"
  /\ \/ CleanStep /\ UNCHANGED <<main, processError>>
     \/ CleanFails /\ main' = "closeStore" /\ processError' = TRUE
     \/ /\ Cleaned /\ main' = "listen" /\ stagingRoot' = TRUE
        /\ UNCHANGED <<processError, place, content, stuck, made, cleanVars, closed, cancelled, prep>>
     \/ /\ Cleaned /\ main' = "closeStore" /\ processError' = TRUE
        /\ UNCHANGED workspaceVars
  /\ KeepComponents /\ UNCHANGED storeOpen

\* The clients, the listener and then the four goroutines.
Listen ==
  /\ main = "listen"
  /\ \/ main' = "select" /\ status' = [c \in Components |-> "running"] /\ UNCHANGED processError
     \/ main' = "closeManager" /\ processError' = TRUE /\ UNCHANGED status
  /\ UNCHANGED <<starts, finished, signalled, stopping, storeOpen, handlers, cutOff,
                 workerVars, workspaceVars>>

-----------------------------------------------------------------------------
(* run: the select and the shutdown. *)

Returned(c) == status[c] \in {"nil", "error"}

KeepSelect == UNCHANGED <<starts, status, signalled, storeOpen, handlers, cutOff,
                          workerVars, workspaceVars>>

\* Whatever ended first, unless it is the signal, is an error.
SelectEnded(c) ==
  /\ main = "select" /\ Returned(c)
  /\ main' = "shutdown"
  /\ finished' = {c}
  /\ processError' = (c # "serve" \/ status[c] = "error")
  /\ stopping' = TRUE
  /\ KeepSelect

SelectSignal ==
  /\ main = "select" /\ signalled
  /\ main' = "shutdown"
  /\ stopping' = TRUE
  /\ UNCHANGED <<finished, processError>>
  /\ KeepSelect

\* server.Shutdown waits for the requests in progress, at most ten seconds;
\* server.Close then closes their connections.  Both end Serve, and nobody
\* waits for a request any more.  An error of closing the listener is kept too.
ShutDownServer ==
  /\ main = "shutdown"
  /\ \/ handlers = 0 /\ UNCHANGED <<processError, cutOff>>
     \/ processError' = TRUE /\ cutOff' = (handlers > 0)
  /\ main' = "wait" /\ handlers' = 0
  /\ UNCHANGED <<starts, status, finished, signalled, stopping, storeOpen,
                 workerVars, workspaceVars>>

\* Mutant: the results of the components are no longer looked at.
AwaitIgnoresError(k) ==
  LET c == Waits[k]
  IN /\ main = "wait" /\ c \notin finished /\ \A n \in 1 .. k - 1 : Waits[n] \in finished
     /\ Returned(c)
     /\ finished' = finished \cup {c}
     /\ UNCHANGED <<main, starts, status, processError, signalled, stopping, storeOpen,
                    handlers, cutOff, workerVars, workspaceVars>>

Await(k) ==
  LET c == Waits[k]
  IN /\ main = "wait" /\ c \notin finished /\ \A n \in 1 .. k - 1 : Waits[n] \in finished
     /\ Returned(c)
     /\ finished' = finished \cup {c}
     /\ processError' = (processError \/ status[c] = "error")
     /\ UNCHANGED <<main, starts, status, signalled, stopping, storeOpen, handlers,
                    cutOff, workerVars, workspaceVars>>

\* The deferred calls: stopComponents, Manager.Close and storage.Close.
AllAwaited ==
  /\ main = "wait" /\ finished = Components
  /\ main' = "closeManager"
  /\ KeepComponents /\ UNCHANGED <<processError, storeOpen, workspaceVars>>

CloseManager ==
  /\ \/ /\ main = "closeManager" /\ ~closed
        /\ closed' = TRUE /\ BeginClean
        /\ UNCHANGED <<main, diskVars, made, cancelled, prep>>
     \/ /\ main = "closeManager" /\ closed
        /\ \/ CleanStep /\ UNCHANGED main
           \/ CleanFails /\ main' = "closeStore"
           \/ Cleaned /\ main' = "closeStore" /\ UNCHANGED workspaceVars
  /\ KeepComponents /\ UNCHANGED <<processError, storeOpen>>

CloseStore ==
  /\ main = "closeStore"
  /\ main' = "return" /\ storeOpen' = FALSE
  /\ KeepComponents /\ UNCHANGED <<processError, workspaceVars>>

\* run returns: the exit status is 1 when there is a processError.
Exit == main = "return" /\ Gone

MainStep ==
  \/ OpenStore \/ RecoverInterrupted \/ NewManager \/ Listen
  \/ (\E c \in Components : SelectEnded(c)) \/ SelectSignal
  \/ ShutDownServer \/ (\E k \in DOMAIN Waits : Await(k)) \/ AllAwaited
  \/ CloseManager \/ CloseStore \/ Exit

-----------------------------------------------------------------------------
(* The signal, the HTTP server, the reconciler and the feedback worker. *)

KeepMain == UNCHANGED <<main, starts, finished, processError, stopping, storeOpen, cutOff>>

\* Only the select of run looks at the signal: a later one has no effect.
Signal ==
  /\ main # "down" /\ ~stopping /\ ~signalled
  /\ signalled' = TRUE
  /\ KeepMain /\ UNCHANGED <<status, handlers, workerVars, workspaceVars>>

\* A request is accepted while Serve runs, and may take longer than it.
Request ==
  /\ status["serve"] = "running" /\ main = "select" /\ handlers < MaxHandlers
  /\ handlers' = handlers + 1
  /\ KeepMain /\ UNCHANGED <<status, signalled, workerVars, workspaceVars>>

Respond ==
  /\ main # "down" /\ handlers > 0
  /\ handlers' = handlers - 1
  /\ KeepMain /\ UNCHANGED <<status, signalled, workerVars, workspaceVars>>

Ends(c, res) ==
  /\ status[c] = "running"
  /\ status' = [status EXCEPT ![c] = res]

\* Serve fails, or ends with ErrServerClosed once the shutdown has begun.
ServeEnds ==
  /\ \/ main = "select" /\ Ends("serve", "error")
     \/ main \in {"shutdown", "wait"} /\ \E res \in {"nil", "error"} : Ends("serve", res)
  /\ KeepMain /\ UNCHANGED <<signalled, handlers, workerVars, workspaceVars>>

\* The reconciler returns when its context is done; the feedback worker also
\* with an error of the store.
ReconcilerEnds ==
  /\ main # "down" /\ stopping /\ Ends("reconciler", "nil")
  /\ KeepMain /\ UNCHANGED <<signalled, handlers, workerVars, workspaceVars>>

FeedbackEnds ==
  /\ main # "down"
  /\ \/ stopping /\ Ends("feedback", "nil")
     \/ ~stopping /\ Ends("feedback", "error")
  /\ KeepMain /\ UNCHANGED <<signalled, handlers, workerVars, workspaceVars>>

-----------------------------------------------------------------------------
(* Worker.Run and the goroutine of its job. *)

KeepService == UNCHANGED <<main, starts, finished, processError, signalled, stopping,
                           storeOpen, handlers, cutOff>>
KeepDisk == UNCHANGED <<diskVars, made, cleanVars, closed>>

Working == main # "down" /\ status["worker"] = "running"

\* A job is selected; it needs a workspace unless its review is stored.
StartJob ==
  /\ Working /\ workerPC = "polling" /\ ~stopping
  /\ workerPC' = "busy" /\ job' \in {"start", "checkpoint"}
  /\ cancelled' = FALSE /\ prep' = NoPrep
  /\ KeepService /\ UNCHANGED status /\ KeepDisk

PollEnds ==
  /\ Working /\ workerPC = "polling" /\ stopping
  /\ Ends("worker", "nil")
  /\ KeepService /\ UNCHANGED <<workerVars, workspaceVars>>

\* The job has ended: its error is returned unless the service stops.
JobEnded ==
  /\ Working /\ workerPC \in {"busy", "grace"} /\ job \in {"done", "failed"}
  /\ workerPC' = "polling" /\ job' = "none"
  /\ cancelled' = TRUE
  /\ CASE workerPC = "grace"                   -> Ends("worker", "nil")
       [] workerPC = "busy" /\ job = "failed" -> Ends("worker", IF stopping THEN "nil" ELSE "error")
       [] OTHER                                -> UNCHANGED status
  /\ KeepService /\ UNCHANGED prep /\ KeepDisk

Grace ==
  /\ Working /\ workerPC = "busy" /\ stopping
  /\ workerPC' = "grace"
  /\ KeepService /\ UNCHANGED <<status, job, workspaceVars>>

\* Mutant: Run waits until the job has ended.
AbandonWaits ==
  /\ Working /\ workerPC = "grace" /\ job \in {"done", "failed"}
  /\ cancelled' = TRUE
  /\ Ends("worker", "nil")
  /\ KeepService /\ UNCHANGED <<workerVars, prep>> /\ KeepDisk

\* The grace period is over: the job is cancelled and left to itself.
Abandon ==
  /\ Working /\ workerPC = "grace"
  /\ cancelled' = TRUE
  /\ Ends("worker", "nil")
  /\ KeepService /\ UNCHANGED <<workerVars, prep>> /\ KeepDisk

WorkerStep == PollEnds \/ JobEnded \/ Grace \/ Abandon

JobGoto(label) == job' = label /\ UNCHANGED workerPC

\* execute: Prepare, the review, Workspace.Close and the checkpoints.
JobPrepares ==
  /\ main # "down" /\ job = "start"
  /\ JobGoto("prepare") /\ BeginPrepare
  /\ KeepService /\ UNCHANGED status

JobPreparing ==
  /\ main # "down" /\ job = "prepare"
  /\ PrepareStep
  /\ KeepService /\ UNCHANGED <<status, workerVars>>

JobPrepared ==
  /\ main # "down" /\ job = "prepare" /\ prep.pc \in {"ready", "failed"}
  /\ IF prep.pc = "ready" THEN JobGoto("review") /\ UNCHANGED prep
     ELSE JobGoto("checkpoint") /\ prep' = NoPrep
  /\ KeepService /\ UNCHANGED <<status, cancelled>> /\ KeepDisk

JobReviewed ==
  /\ main # "down" /\ job = "review"
  /\ JobGoto("close")
  /\ KeepService /\ UNCHANGED <<status, workspaceVars>>

JobCloses ==
  /\ main # "down" /\ job = "close"
  /\ JobGoto("checkpoint") /\ CloseWorkspace /\ prep' = NoPrep
  /\ KeepService /\ UNCHANGED status

\* The outcome is stored; processDue returns the error if it is not.
JobCheckpoint ==
  /\ main # "down" /\ job = "checkpoint"
  /\ \/ JobGoto("done")
     \/ ~cancelled /\ JobGoto("failed")
  /\ KeepService /\ UNCHANGED <<status, workspaceVars>>

JobStep ==
  \/ JobPrepares \/ JobPreparing \/ JobPrepared \/ JobReviewed \/ JobCloses \/ JobCheckpoint

-----------------------------------------------------------------------------

Kill == main # "down" /\ Gone

Next ==
  \/ Start \/ MainStep \/ Signal
  \/ Request \/ Respond \/ ServeEnds \/ ReconcilerEnds \/ FeedbackEnds
  \/ StartJob \/ WorkerStep \/ JobStep
  \/ Kill

Spec == Init /\ [][Next]_vars

(* run goes on when it can, and once componentCtx is done so does one of the *)
(* goroutines that have yet to end.  Nothing is assumed of an HTTP request   *)
(* or of a job, which may never end.                                         *)
Fairness ==
  /\ WF_vars(MainStep)
  /\ WF_vars(stopping /\ (ServeEnds \/ ReconcilerEnds \/ FeedbackEnds \/ WorkerStep))

FairSpec == Spec /\ Fairness

-----------------------------------------------------------------------------
(* Properties. *)

\* Type invariant.
TypeOK ==
  /\ TypeOKWorkspaces
  /\ main \in {"down", "open", "recover", "newManager", "listen", "select", "shutdown",
               "wait", "closeManager", "closeStore", "return"}
  /\ status \in [Components -> {"off", "running", "nil", "error"}]
  /\ finished \subseteq Components
  /\ workerPC \in {"polling", "busy", "grace"}
  /\ job \in {"none", "start", "prepare", "review", "close", "checkpoint", "done", "failed"}

\* The process reports a clean exit only after a stop that was asked for, with
\* every component's own result received and good and no request cut off,
\* whichever of them ended, in whatever order, while it shut down.
CleanExitMeansNoFailure ==
  main = "return" /\ ~processError =>
    /\ signalled /\ ~cutOff
    /\ \A c \in Components : status[c] = "nil"

\* Every review root on disk is accounted for.  While reviews run it is the
\* one of the present review, also after an earlier process was killed in the
\* middle of another; when the database is closed nothing is left, unless the
\* abandoned job is still about to remove what it made.  A root whose removal
\* failed stays where it is and is left out.
RootsAreOwned ==
  main \in {"select", "shutdown", "wait"} \/ (main = "closeStore" /\ closed) =>
    \A r \in Roots :
      \/ place[r] = "none" \/ r \in stuck
      \/ r = prep.root /\ (main = "closeStore" => job = "prepare")

\* docs/agents/reliability.md: preparation "exposes no partial root".  The
\* root that Prepare hands to a review is complete, also when Manager.Close
\* removes the staging directory under an abandoned job while it is renamed.
ReviewHasWholeRoot ==
  [][prep.pc # "ready" /\ prep'.pc = "ready" =>
       place'[prep.root] = "review" /\ content'[prep.root] = "whole"]_vars

\* Liveness: no shutdown lasts for ever, although requests and the job may
\* hang.
ShutdownEnds ==
  []<>(main \notin {"shutdown", "wait", "closeManager", "closeStore", "return"})
=============================================================================
