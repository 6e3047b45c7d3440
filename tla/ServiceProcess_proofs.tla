------------------------- MODULE ServiceProcess_proofs -------------------------
(***************************************************************************)
(* Machine-checked proofs about the service process, for every number of   *)
(* starts, HTTP requests and review roots: what its exit status means,     *)
(* what Prepare hands to a review, and who owns the roots on disk.         *)
(***************************************************************************)
EXTENDS ServiceProcess, TLAPS

\* Before the goroutines run, and after run has waited for them.
Starting == {"down", "open", "recover", "newManager", "listen"}
Closing == {"closeManager", "closeStore", "return"}

\* The inductive invariant of the exit status: as long as there is no
\* processError, the stop was asked for and all that was received was good.
\* It needs that Serve does not end with ErrServerClosed while run selects.
ExitInv ==
  /\ main \in Starting \cup Closing \cup {"select", "shutdown", "wait"}
  /\ status \in [Components -> {"off", "running", "nil", "error"}]
  /\ finished \subseteq Components
  /\ main \in Starting => ~cutOff /\ finished = {} /\ \A c \in Components : status[c] = "off"
  /\ main = "select" => ~cutOff /\ finished = {} /\ status["serve"] # "nil"
  /\ main = "shutdown" => ~cutOff
  /\ main \in {"shutdown", "wait"} /\ ~processError =>
       signalled /\ ~cutOff /\ \A c \in finished : status[c] = "nil"
  /\ main \in Closing /\ ~processError =>
       signalled /\ ~cutOff /\ \A c \in Components : status[c] = "nil"

LEMMA ExitInit == Init => ExitInv
BY DEF Init, ExitInv, Starting, Closing

LEMMA GoneExit == ASSUME Gone PROVE ExitInv'
BY DEF Gone, ExitInv, Starting, Closing

\* A component ends while it runs; a result that was received is not changed.
LEMMA EndsExit ==
  ASSUME ExitInv, NEW c \in Components, NEW res \in {"nil", "error"}, Ends(c, res),
         main = "select" => ~(c = "serve" /\ res = "nil"),
         UNCHANGED <<main, finished, processError, signalled, cutOff>>
  PROVE  ExitInv'
<1>1. /\ status[c] = "running" /\ status' = [status EXCEPT ![c] = res]
      /\ status \in [Components -> {"off", "running", "nil", "error"}]
  BY DEF Ends, ExitInv
<1>2. /\ status' \in [Components -> {"off", "running", "nil", "error"}]
      /\ status'[c] = res /\ \A d \in Components \ {c} : status'[d] = status[d]
  BY <1>1
<1>3. main \notin Starting
  BY <1>1 DEF ExitInv
<1>4. "serve" \in Components
  BY DEF Components
<1>5. main = "select" => status'["serve"] # "nil"
  BY <1>2, <1>4 DEF ExitInv
<1>6. \A d \in Components : status[d] = "nil" => status'[d] = "nil"
  BY <1>1, <1>2
<1> QED BY <1>2, <1>3, <1>5, <1>6 DEF ExitInv

LEMMA MainExit ==
  ASSUME ExitInv, MainStep
  PROVE  ExitInv'
<1> USE DEF Starting, Closing
<1>1. CASE OpenStore
  BY <1>1 DEF OpenStore, KeepComponents, ExitInv
<1>2. CASE RecoverInterrupted
  BY <1>2 DEF RecoverInterrupted, KeepComponents, ExitInv
<1>3. CASE NewManager
  BY <1>3 DEF NewManager, KeepComponents, ExitInv
<1>4. CASE Listen
  <2>1. "serve" \in Components
    BY DEF Components
  <2>2. status' \in [Components -> {"off", "running", "nil", "error"}]
    BY <1>4 DEF Listen, ExitInv
  <2>3. CASE main' = "select" /\ status' = [c \in Components |-> "running"]
    BY <1>4, <2>1, <2>2, <2>3 DEF Listen, ExitInv
  <2>4. CASE main' = "closeManager" /\ processError' = TRUE
    BY <1>4, <2>2, <2>4 DEF Listen, ExitInv
  <2> QED BY <1>4, <2>3, <2>4 DEF Listen
<1>5. ASSUME NEW c \in Components, SelectEnded(c) PROVE ExitInv'
  <2>1. c # "serve" \/ status[c] = "error"
    BY <1>5 DEF SelectEnded, Returned, ExitInv
  <2> QED BY <1>5, <2>1 DEF SelectEnded, KeepSelect, ExitInv
<1>6. CASE SelectSignal
  BY <1>6 DEF SelectSignal, KeepSelect, ExitInv
<1>7. CASE ShutDownServer
  BY <1>7 DEF ShutDownServer, ExitInv
<1>8. ASSUME NEW k \in DOMAIN Waits, Await(k) PROVE ExitInv'
  <2>1. Waits[k] \in Components
    BY DEF Waits, Components
  <2>2. PICK c \in Components :
          /\ main = "wait" /\ Returned(c) /\ finished' = finished \cup {c}
          /\ processError' = (processError \/ status[c] = "error")
          /\ UNCHANGED <<main, status, signalled, cutOff>>
    BY <1>8, <2>1 DEF Await
  <2> QED BY <2>2 DEF Returned, ExitInv
<1>9. CASE AllAwaited
  BY <1>9 DEF AllAwaited, KeepComponents, ExitInv
<1>10. CASE CloseManager
  BY <1>10 DEF CloseManager, KeepComponents, ExitInv
<1>11. CASE CloseStore
  BY <1>11 DEF CloseStore, KeepComponents, ExitInv
<1>12. CASE Exit
  BY <1>12, GoneExit DEF Exit
<1> QED BY <1>1, <1>2, <1>3, <1>4, <1>5, <1>6, <1>7, <1>8, <1>9, <1>10, <1>11, <1>12 DEF MainStep

\* The other goroutines change nothing of it but the status of one component.
LEMMA ComponentsExit ==
  ASSUME ExitInv, StartJob \/ WorkerStep \/ JobStep \/ ServeEnds \/ ReconcilerEnds \/ FeedbackEnds
  PROVE  ExitInv'
<1> USE DEF Components
<1>1. ASSUME UNCHANGED <<main, finished, processError, signalled, cutOff, status>> PROVE ExitInv'
  BY <1>1 DEF ExitInv
<1>2. CASE StartJob
  BY <1>1, <1>2 DEF StartJob, KeepService
<1>3. CASE PollEnds
  BY <1>3, EndsExit DEF PollEnds, KeepService
<1>4. CASE JobEnded
  <2>1. UNCHANGED <<main, finished, processError, signalled, cutOff>>
    BY <1>4 DEF JobEnded, KeepService
  <2>2. UNCHANGED status \/ \E res \in {"nil", "error"} : Ends("worker", res)
    BY <1>4 DEF JobEnded
  <2> QED BY <1>1, <2>1, <2>2, EndsExit
<1>5. CASE Grace
  BY <1>1, <1>5 DEF Grace, KeepService
<1>6. CASE Abandon
  BY <1>6, EndsExit DEF Abandon, KeepService
<1>7. CASE JobStep
  BY <1>1, <1>7 DEF JobStep, JobPrepares, JobPreparing, JobPrepared, JobReviewed, JobCloses,
                    JobCheckpoint, KeepService
<1>8. CASE ServeEnds
  <2>1. UNCHANGED <<main, finished, processError, signalled, cutOff>>
    BY <1>8 DEF ServeEnds, KeepMain
  <2>2. CASE main = "select" /\ Ends("serve", "error")
    BY <2>1, <2>2, EndsExit
  <2>3. CASE main # "select" /\ \E res \in {"nil", "error"} : Ends("serve", res)
    BY <2>1, <2>3, EndsExit
  <2> QED BY <1>8, <2>2, <2>3 DEF ServeEnds
<1>9. CASE ReconcilerEnds
  BY <1>9, EndsExit DEF ReconcilerEnds, KeepMain
<1>10. CASE FeedbackEnds
  <2>1. UNCHANGED <<main, finished, processError, signalled, cutOff>>
    BY <1>10 DEF FeedbackEnds, KeepMain
  <2> QED BY <1>10, <2>1, EndsExit DEF FeedbackEnds
<1> QED BY <1>2, <1>3, <1>4, <1>5, <1>6, <1>7, <1>8, <1>9, <1>10 DEF WorkerStep

LEMMA ExitPreserved == ExitInv /\ [Next]_vars => ExitInv'
<1> SUFFICES ASSUME ExitInv, [Next]_vars PROVE ExitInv'
  OBVIOUS
<1>1. CASE Start
  BY <1>1 DEF Start, ExitInv, Starting, Closing
<1>2. CASE Signal
  BY <1>2 DEF Signal, KeepMain, ExitInv
<1>3. CASE Request \/ Respond
  BY <1>3 DEF Request, Respond, KeepMain, ExitInv
<1>4. CASE Kill
  BY <1>4, GoneExit DEF Kill
<1>5. CASE UNCHANGED vars
  BY <1>5 DEF vars, serviceVars, ExitInv
<1> QED BY <1>1, <1>2, <1>3, <1>4, <1>5, MainExit, ComponentsExit DEF Next

\* The exit status is 0 only after a stop that was asked for, with the result
\* of every component received and good and no request cut off, whichever of
\* them ended, in whatever order, while run waited for the others.
THEOREM CleanExitsAreClean == Spec => []CleanExitMeansNoFailure
<1>1. ExitInv => CleanExitMeansNoFailure
  BY DEF ExitInv, CleanExitMeansNoFailure, Closing
<1> QED BY <1>1, ExitInit, ExitPreserved, PTL DEF Spec

-----------------------------------------------------------------------------
(* The root of a review. *)

\* The root of the present review is where Prepare put it and holds what
\* Prepare made, as long as the manager is not closed: only the cleaning of
\* the workspace root takes it away, and it runs before any review and after
\* Manager.Close only.
RootAs(where, what) ==
  prep.root \in Roots /\ (closed \/ (place[prep.root] = where /\ content[prep.root] = what))

RootInv ==
  /\ prep.pc \in SetupSteps => RootAs("staging", "partial")
  /\ prep.pc \in {"checkContext", "rename"} => RootAs("staging", "whole")
  /\ prep.pc \in {"recheckContext", "recheckClosed"} => RootAs("review", "whole")

RootTypes ==
  /\ place \in [Roots -> {"none", "staging", "review"}]
  /\ content \in [Roots -> {"nothing", "partial", "whole", "gutted"}]
  /\ made \in 0 .. MaxRoots
  /\ prep \in [pc : PrepPC, root : 0 .. MaxRoots, err : PrepErrors]

WholeInv ==
  /\ RootTypes
  /\ main \in Starting => prep.pc = "idle" /\ job = "none" /\ ~closed
  /\ closed => main \in Closing
  /\ RootInv

LEMMA NoPrepTyped == NoPrep \in [pc : PrepPC, root : 0 .. MaxRoots, err : PrepErrors]
                     /\ NoPrep.pc = "idle"
BY WorkspacesAssumption DEF NoPrep, PrepPC, PrepErrors

LEMMA WholeInit == Init => WholeInv
<1> SUFFICES ASSUME Init PROVE WholeInv
  OBVIOUS
<1>1. RootTypes
  BY NoPrepTyped, WorkspacesAssumption DEF Init, InitWorkspaces, RootTypes
<1>2. prep.pc = "idle" /\ job = "none" /\ closed = FALSE
  BY NoPrepTyped DEF Init, InitWorkspaces
<1> QED BY <1>1, <1>2 DEF WholeInv, RootInv, SetupSteps

\* Steps that do not touch the directories, Manager.closed or Prepare.
LEMMA RootFrame ==
  ASSUME WholeInv, UNCHANGED workspaceVars,
         main' \in Starting => main \in Starting /\ job' = job, closed => main' \in Closing
  PROVE  WholeInv'
BY DEF WholeInv, RootTypes, RootInv, RootAs, workspaceVars, diskVars, cleanVars

\* Steps without a root of a review, whatever they do to the directories.
LEMMA NoRoot ==
  ASSUME RootTypes', prep'.pc \in {"idle", "staging", "discard", "ready", "failed"},
         main' \in Starting => prep'.pc = "idle" /\ job' = "none" /\ ~closed',
         closed' => main' \in Closing
  PROVE  WholeInv'
BY DEF WholeInv, RootInv, SetupSteps

LEMMA CleanTyped ==
  ASSUME RootTypes, CleanStep \/ CleanFails
  PROVE  /\ RootTypes' /\ UNCHANGED <<closed, prep>>
<1>1. CASE ReadDir
  BY <1>1 DEF ReadDir, RootTypes, diskVars, Roots, Staging
<1>2. ASSUME NEW entry \in entries, RemoveContents(entry)
      PROVE  RootTypes' /\ UNCHANGED <<closed, prep>>
  BY <1>2 DEF RemoveContents, RootTypes, cleanVars
<1>3. ASSUME NEW entry \in entries, RemoveEntry(entry)
      PROVE  RootTypes' /\ UNCHANGED <<closed, prep>>
  BY <1>3 DEF RemoveEntry, RootTypes
<1>4. CASE CleanFails
  BY <1>4 DEF CleanFails, RootTypes
<1> QED BY <1>1, <1>2, <1>3, <1>4 DEF CleanStep

LEMMA GoneWhole == ASSUME WholeInv, Gone PROVE WholeInv'
<1>1. RootTypes'
  BY NoPrepTyped DEF Gone, WholeInv, RootTypes, diskVars
<1> QED BY <1>1, NoRoot, NoPrepTyped DEF Gone, Starting

LEMMA MainWhole ==
  ASSUME WholeInv, MainStep
  PROVE  WholeInv'
<1> USE DEF Starting, Closing
<1>1. CASE OpenStore
  BY <1>1, RootFrame DEF OpenStore, KeepComponents, workerVars, WholeInv
<1>2. CASE RecoverInterrupted
  <2>1. RootTypes'
    BY <1>2 DEF RecoverInterrupted, BeginClean, cleanVars, diskVars, WholeInv, RootTypes
  <2> QED BY <1>2, <2>1, NoRoot DEF RecoverInterrupted, KeepComponents, workerVars, WholeInv
<1>3. CASE NewManager
  <2>1. prep.pc = "idle" /\ job = "none" /\ ~closed /\ main = "newManager" /\ job' = job
    BY <1>3 DEF NewManager, KeepComponents, workerVars, WholeInv
  <2>2. RootTypes' /\ prep' = prep /\ closed' = closed
    <3>1. CASE CleanStep \/ CleanFails
      BY <3>1, CleanTyped DEF WholeInv
    <3>2. CASE ~(CleanStep \/ CleanFails)
      BY <1>3, <3>2 DEF NewManager, WholeInv, RootTypes, workspaceVars, diskVars, cleanVars
    <3> QED BY <3>1, <3>2
  <2> QED BY <2>1, <2>2, NoRoot
<1>4. CASE Listen
  BY <1>4, RootFrame DEF Listen, WholeInv
<1>5. CASE (\E c \in Components : SelectEnded(c)) \/ SelectSignal
  BY <1>5, RootFrame DEF SelectEnded, SelectSignal, KeepSelect, WholeInv
<1>6. CASE ShutDownServer
  BY <1>6, RootFrame DEF ShutDownServer, WholeInv
<1>7. CASE \E k \in DOMAIN Waits : Await(k)
  BY <1>7, RootFrame DEF Await, WholeInv
<1>8. CASE AllAwaited
  BY <1>8, RootFrame DEF AllAwaited, WholeInv
<1>9. CASE CloseManager
  <2>1. /\ main = "closeManager" /\ main' \in Closing /\ closed' /\ prep' = prep
        /\ RootTypes'
    <3>1. CASE ~closed
      BY <1>9, <3>1 DEF CloseManager, BeginClean, WholeInv, RootTypes, diskVars
    <3>2. CASE closed /\ (CleanStep \/ CleanFails)
      BY <1>9, <3>2, CleanTyped DEF CloseManager, WholeInv
    <3>3. CASE closed /\ ~(CleanStep \/ CleanFails)
      BY <1>9, <3>3 DEF CloseManager, WholeInv, RootTypes, workspaceVars, diskVars, cleanVars
    <3> QED BY <3>1, <3>2, <3>3
  <2>2. RootInv'
    <3>1. prep'.pc \in SetupSteps => RootAs("staging", "partial")'
      BY <2>1 DEF WholeInv, RootInv, RootAs
    <3>2. prep'.pc \in {"checkContext", "rename"} => RootAs("staging", "whole")'
      BY <2>1 DEF WholeInv, RootInv, RootAs
    <3>3. prep'.pc \in {"recheckContext", "recheckClosed"} => RootAs("review", "whole")'
      BY <2>1 DEF WholeInv, RootInv, RootAs
    <3> QED BY <3>1, <3>2, <3>3 DEF RootInv
  <2> QED BY <2>1, <2>2 DEF WholeInv
<1>10. CASE CloseStore
  BY <1>10, RootFrame DEF CloseStore, WholeInv
<1>11. CASE Exit
  BY <1>11, GoneWhole DEF Exit
<1> QED BY <1>1, <1>2, <1>3, <1>4, <1>5, <1>6, <1>7, <1>8, <1>9, <1>10, <1>11 DEF MainStep

\* One step of Prepare.
LEMMA PrepareWhole ==
  ASSUME WholeInv, PrepareStep, main \notin Starting, main' = main
  PROVE  WholeInv'
<1> USE DEF cleanVars, diskVars
<1>1. /\ prep \in [pc : PrepPC, root : 0 .. MaxRoots, err : PrepErrors]
      /\ place \in [Roots -> {"none", "staging", "review"}]
      /\ content \in [Roots -> {"nothing", "partial", "whole", "gutted"}]
      /\ made \in 0 .. MaxRoots
      /\ (closed => main \in Closing) /\ RootInv
  BY DEF WholeInv, RootTypes
\* Any step into a label that is not about a root.
<1>2. ASSUME NEW label \in {"discard", "failed"}, NEW err \in PrepErrors,
             prep' = [prep EXCEPT !.pc = label, !.err = err],
             place' \in [Roots -> {"none", "staging", "review"}],
             content' \in [Roots -> {"nothing", "partial", "whole", "gutted"}],
             UNCHANGED <<made, closed>>
      PROVE  WholeInv'
  <2>1. prep' \in [pc : PrepPC, root : 0 .. MaxRoots, err : PrepErrors] /\ prep'.pc = label
    BY <1>1, <1>2 DEF PrepPC
  <2>2. RootTypes'
    BY <1>1, <1>2, <2>1 DEF RootTypes
  <2> QED BY <1>1, <1>2, <2>1, <2>2, NoRoot
<1>3. ASSUME NEW err \in PrepErrors, Discard(err),
             UNCHANGED <<place, content, made, closed>>
      PROVE  WholeInv'
  BY <1>1, <1>2, <1>3 DEF Discard
\* A step that goes on with the same root.
<1>4. ASSUME NEW label \in PrepPC, PrepGoto(label),
             UNCHANGED <<made, closed>>,
             prep.root \in Roots,
             place' \in [Roots -> {"none", "staging", "review"}],
             content' \in [Roots -> {"nothing", "partial", "whole", "gutted"}],
             \/ closed
             \/ /\ label \in SetupSteps =>
                     place'[prep.root] = "staging" /\ content'[prep.root] = "partial"
                /\ label \in {"checkContext", "rename"} =>
                     place'[prep.root] = "staging" /\ content'[prep.root] = "whole"
                /\ label \in {"recheckContext", "recheckClosed"} =>
                     place'[prep.root] = "review" /\ content'[prep.root] = "whole"
      PROVE  WholeInv'
  <2>1. /\ prep' \in [pc : PrepPC, root : 0 .. MaxRoots, err : PrepErrors]
        /\ prep'.pc = label /\ prep'.root = prep.root
    BY <1>1, <1>4 DEF PrepGoto
  <2>2. RootTypes'
    BY <1>1, <1>4, <2>1 DEF RootTypes
  <2>3. RootInv'
    <3>1. prep'.root \in Roots /\ closed' = closed
      BY <1>4, <2>1
    <3>2. prep'.pc \in SetupSteps => RootAs("staging", "partial")'
      BY <1>4, <2>1, <3>1 DEF RootAs
    <3>3. prep'.pc \in {"checkContext", "rename"} => RootAs("staging", "whole")'
      BY <1>4, <2>1, <3>1 DEF RootAs
    <3>4. prep'.pc \in {"recheckContext", "recheckClosed"} => RootAs("review", "whole")'
      BY <1>4, <2>1, <3>1 DEF RootAs
    <3> QED BY <3>2, <3>3, <3>4 DEF RootInv
  <2> QED BY <1>1, <1>4, <2>2, <2>3 DEF WholeInv
<1>5. CASE MakeStaging
  <2>1. CASE /\ made' = made + 1 /\ made < MaxRoots
             /\ place' = [place EXCEPT ![made'] = "staging"]
             /\ content' = [content EXCEPT ![made'] = "partial"]
             /\ prep' = [prep EXCEPT !.pc = "clone", !.root = made']
    <3>1. made' \in Roots /\ made' \in 0 .. MaxRoots
      BY <1>1, <2>1, WorkspacesAssumption DEF Roots
    <3>2. /\ prep' \in [pc : PrepPC, root : 0 .. MaxRoots, err : PrepErrors]
          /\ prep'.pc = "clone" /\ prep'.root = made'
      BY <1>1, <2>1, <3>1 DEF PrepPC, SetupSteps
    <3>3. /\ place' \in [Roots -> {"none", "staging", "review"}]
          /\ content' \in [Roots -> {"nothing", "partial", "whole", "gutted"}]
          /\ place'[made'] = "staging" /\ content'[made'] = "partial"
      BY <1>1, <2>1, <3>1
    <3>4. UNCHANGED closed
      BY <1>5 DEF MakeStaging
    <3>5. RootTypes'
      BY <1>1, <3>1, <3>2, <3>3, <3>4 DEF RootTypes
    <3>6. RootInv'
      BY <3>1, <3>2, <3>3 DEF RootInv, RootAs, SetupSteps
    <3> QED BY <1>1, <3>4, <3>5, <3>6 DEF WholeInv
  <2>2. CASE /\ \E err \in {"retry", "failed"} :
                  prep' = [prep EXCEPT !.pc = "failed", !.err = Classify(err)]
             /\ UNCHANGED <<place, content, made>>
    <3>1. PICK err \in PrepErrors : prep' = [prep EXCEPT !.pc = "failed", !.err = err]
      BY <2>2 DEF Classify, PrepErrors
    <3>2. UNCHANGED closed
      BY <1>5 DEF MakeStaging
    <3> QED BY <1>1, <1>2, <2>2, <3>1, <3>2
  <2> QED BY <1>5, <2>1, <2>2 DEF MakeStaging
<1>6. ASSUME NEW step \in {"clone", "related", "validate"},
             NEW next \in {"related", "validate", "transfer"},
             NEW errs \in SUBSET {"obsolete"}, SetupStep(step, next, errs), UNCHANGED content
      PROVE  WholeInv'
  <2>1. UNCHANGED <<place, made, closed>>
    BY <1>6 DEF SetupStep
  <2>2. CASE PrepGoto(next)
    <3>1. /\ prep.root \in Roots
          /\ closed \/ (place[prep.root] = "staging" /\ content[prep.root] = "partial")
      BY <1>1, <1>6 DEF RootInv, RootAs, SetupSteps, SetupStep
    <3>2. next \in PrepPC /\ next \in SetupSteps
      BY DEF PrepPC, SetupSteps
    <3> QED BY <1>1, <1>4, <1>6, <2>1, <2>2, <3>1, <3>2
  <2>3. ASSUME NEW err \in errs \cup {"retry", "timeout"}, Discard(err) PROVE WholeInv'
    BY <1>3, <1>6, <2>1, <2>3 DEF PrepErrors
  <2> QED BY <1>6, <2>2, <2>3 DEF SetupStep
<1>7. CASE CloneCurrent \/ CloneRelated \/ ValidateGitConfiguration
  BY <1>6, <1>7 DEF CloneCurrent, CloneRelated, ValidateGitConfiguration
<1>8. CASE HandOver
  <2>1. /\ UNCHANGED <<place, made, closed>>
        /\ prep.root \in Roots
        /\ closed \/ (place[prep.root] = "staging" /\ content[prep.root] = "partial")
    BY <1>1, <1>8 DEF HandOver, SetupStep, RootInv, RootAs, SetupSteps
  <2>2. CASE PrepGoto("checkContext")
    <3>1. prep'.pc = "checkContext"
      BY <1>1, <2>2 DEF PrepGoto
    <3>2. content' = (IF content[prep.root] = "partial"
                      THEN [content EXCEPT ![prep.root] = "whole"] ELSE content)
      BY <1>8, <3>1 DEF HandOver
    <3>3. /\ content' \in [Roots -> {"nothing", "partial", "whole", "gutted"}]
          /\ closed \/ content'[prep.root] = "whole"
      BY <1>1, <2>1, <3>2
    <3>4. "checkContext" \in PrepPC /\ "checkContext" \notin SetupSteps
      BY DEF PrepPC, SetupSteps
    <3> QED BY <1>1, <1>4, <2>1, <2>2, <3>3, <3>4
  <2>3. ASSUME NEW err \in {"retry", "timeout"}, Discard(err) PROVE WholeInv'
    <3>1. prep'.pc = "discard"
      BY <1>1, <2>3 DEF Discard
    <3>2. UNCHANGED content
      BY <1>8, <3>1 DEF HandOver
    <3> QED BY <1>3, <2>1, <2>3, <3>2 DEF PrepErrors
  <2> QED BY <1>8, <2>2, <2>3 DEF HandOver, SetupStep
<1>9. CASE CheckContext
  <2>1. /\ UNCHANGED <<place, content, made, closed>>
        /\ prep.root \in Roots
        /\ closed \/ (place[prep.root] = "staging" /\ content[prep.root] = "whole")
    BY <1>1, <1>9 DEF CheckContext, RootInv, RootAs
  <2>2. CASE PrepGoto("rename")
    BY <1>1, <1>4, <2>1, <2>2 DEF PrepPC, SetupSteps
  <2>3. ASSUME NEW err \in {"retry", "timeout"}, Discard(err) PROVE WholeInv'
    BY <1>3, <2>1, <2>3 DEF PrepErrors
  <2> QED BY <1>9, <2>2, <2>3 DEF CheckContext
<1>10. CASE Rename
  <2>1. /\ UNCHANGED <<content, made, closed>>
        /\ prep.root \in Roots
        /\ closed \/ (place[prep.root] = "staging" /\ content[prep.root] = "whole")
    BY <1>1, <1>10 DEF Rename, RootInv, RootAs
  <2>2. CASE PrepGoto("recheckContext") /\ place' = [place EXCEPT ![prep.root] = "review"]
    <3>1. /\ place' \in [Roots -> {"none", "staging", "review"}]
          /\ place'[prep.root] = "review"
      BY <1>1, <2>1, <2>2
    <3> QED BY <1>1, <1>4, <2>1, <2>2, <3>1 DEF PrepPC, SetupSteps
  <2>3. CASE Discard("retry") /\ UNCHANGED place
    BY <1>3, <2>1, <2>3 DEF PrepErrors
  <2> QED BY <1>10, <2>2, <2>3 DEF Rename
<1>11. CASE RecheckContext
  <2>1. /\ UNCHANGED <<place, content, made, closed>>
        /\ prep.root \in Roots
        /\ closed \/ (place[prep.root] = "review" /\ content[prep.root] = "whole")
    BY <1>1, <1>11 DEF RecheckContext, RootInv, RootAs
  <2>2. CASE PrepGoto("recheckClosed")
    BY <1>1, <1>4, <2>1, <2>2 DEF PrepPC, SetupSteps
  <2>3. ASSUME NEW err \in {"retry", "timeout"}, Discard(err) PROVE WholeInv'
    BY <1>3, <2>1, <2>3 DEF PrepErrors
  <2> QED BY <1>11, <2>2, <2>3 DEF RecheckContext
<1>12. CASE RecheckClosed
  <2>1. /\ UNCHANGED <<place, content, made, closed>>
        /\ prep.root \in Roots
    BY <1>1, <1>12 DEF RecheckClosed, RootInv, RootAs
  <2>2. CASE PrepGoto("ready")
    BY <1>1, <1>4, <2>1, <2>2 DEF PrepPC, SetupSteps
  <2>3. CASE Discard("retry")
    BY <1>3, <2>1, <2>3 DEF PrepErrors
  <2> QED BY <1>12, <2>2, <2>3 DEF RecheckClosed
<1>13. CASE DiscardRoot
  <2>1. PICK err \in PrepErrors : prep' = [prep EXCEPT !.pc = "failed", !.err = err]
    BY <1>1, <1>13 DEF DiscardRoot, Classify, PrepErrors
  <2>2. /\ place' \in [Roots -> {"none", "staging", "review"}]
        /\ content' \in [Roots -> {"nothing", "partial", "whole", "gutted"}]
    BY <1>1, <1>13 DEF DiscardRoot, RemoveRoot
  <2> QED BY <1>2, <1>13, <2>1, <2>2 DEF DiscardRoot
<1> QED BY <1>5, <1>7, <1>8, <1>9, <1>10, <1>11, <1>12, <1>13 DEF PrepareStep

LEMMA WholePreserved == ExitInv /\ WholeInv /\ [Next]_vars => WholeInv'
<1> SUFFICES ASSUME ExitInv, WholeInv, [Next]_vars PROVE WholeInv'
  OBVIOUS
<1> USE DEF KeepMain, KeepService, KeepDisk, diskVars, cleanVars, workerVars
\* The goroutines of the job do not run while the process starts.
<1>1. ASSUME main' = main, main \notin Starting, UNCHANGED workspaceVars PROVE WholeInv'
  BY <1>1, RootFrame DEF WholeInv
<1>2. ASSUME main' = main, main \notin Starting, closed' = closed, RootTypes',
             prep'.pc \in {"idle", "staging", "discard", "ready", "failed"}
      PROVE  WholeInv'
  BY <1>2, NoRoot DEF WholeInv
<1>3. job # "none" => main \notin Starting
  BY DEF WholeInv
<1>4. \A c \in Components : status[c] = "running" => main \notin Starting
  BY DEF ExitInv
<1>5. CASE Start
  BY <1>5, RootFrame DEF Start, WholeInv, Starting, Closing
<1>6. CASE Signal \/ Request \/ Respond
  <2>1. main' = main /\ job' = job /\ UNCHANGED workspaceVars
    BY <1>6 DEF Signal, Request, Respond
  <2> QED BY <2>1, RootFrame DEF WholeInv
<1>7. CASE ServeEnds \/ ReconcilerEnds \/ FeedbackEnds
  <2>1. main' = main /\ job' = job /\ UNCHANGED workspaceVars
    BY <1>7 DEF ServeEnds, ReconcilerEnds, FeedbackEnds
  <2> QED BY <2>1, RootFrame DEF WholeInv
<1>8. CASE StartJob
  <2>1. main \notin Starting /\ main' = main /\ closed' = closed /\ prep' = NoPrep
    BY <1>4, <1>8 DEF StartJob, Working, Components
  <2>2. RootTypes'
    BY <1>8, NoPrepTyped DEF StartJob, WholeInv, RootTypes
  <2> QED BY <1>2, <2>1, <2>2, NoPrepTyped
<1>9. CASE WorkerStep
  <2>1. main \notin Starting /\ main' = main
    BY <1>4, <1>9 DEF WorkerStep, PollEnds, JobEnded, Grace, Abandon, Working, Components
  <2>2. UNCHANGED <<place, content, made, closed, prep>>
    BY <1>9 DEF WorkerStep, PollEnds, JobEnded, Grace, Abandon, workspaceVars
  <2> QED BY <2>1, <2>2 DEF WholeInv, RootTypes, RootInv, RootAs
<1>10. CASE JobPrepares
  <2>1. main \notin Starting /\ main' = main /\ UNCHANGED <<place, content, made, closed>>
    BY <1>3, <1>10 DEF JobPrepares, BeginPrepare
  <2>2. /\ prep' \in [pc : PrepPC, root : 0 .. MaxRoots, err : PrepErrors]
        /\ prep'.pc \in {"staging", "failed"}
    <3>1. "staging" \in PrepPC /\ "failed" \in PrepPC /\ "retry" \in PrepErrors
      BY DEF PrepPC, PrepErrors
    <3>2. [NoPrep EXCEPT !.pc = "staging"] \in [pc : PrepPC, root : 0 .. MaxRoots, err : PrepErrors]
      BY <3>1, NoPrepTyped
    <3>3. [NoPrep EXCEPT !.pc = "failed", !.err = "retry"]
            \in [pc : PrepPC, root : 0 .. MaxRoots, err : PrepErrors]
      BY <3>1, NoPrepTyped
    <3>4. \/ prep' = [NoPrep EXCEPT !.pc = "staging"]
          \/ prep' = [NoPrep EXCEPT !.pc = "failed", !.err = "retry"]
      BY <1>10 DEF JobPrepares, BeginPrepare
    <3>5. prep'.pc \in {"staging", "failed"}
      BY <3>4, NoPrepTyped
    <3> QED BY <3>2, <3>3, <3>4, <3>5
  <2>3. RootTypes'
    BY <2>1, <2>2 DEF WholeInv, RootTypes
  <2> QED BY <1>2, <2>1, <2>2, <2>3
<1>11. CASE JobPreparing
  BY <1>3, <1>11, PrepareWhole DEF JobPreparing
<1>12. CASE JobPrepared
  <2>1. main \notin Starting /\ main' = main /\ UNCHANGED <<place, content, made, closed>>
    BY <1>3, <1>12 DEF JobPrepared
  <2>2. prep' = NoPrep \/ (prep' = prep /\ prep.pc = "ready")
    BY <1>12 DEF JobPrepared
  <2>3. RootTypes'
    BY <2>1, <2>2, NoPrepTyped DEF WholeInv, RootTypes
  <2> QED BY <1>2, <2>1, <2>2, <2>3, NoPrepTyped
<1>13. CASE JobReviewed
  BY <1>1, <1>3, <1>13 DEF JobReviewed
<1>14. CASE JobCloses
  <2>1. main \notin Starting /\ main' = main /\ UNCHANGED <<made, closed>> /\ prep' = NoPrep
    BY <1>3, <1>14 DEF JobCloses, CloseWorkspace
  <2>2. /\ place' \in [Roots -> {"none", "staging", "review"}]
        /\ content' \in [Roots -> {"nothing", "partial", "whole", "gutted"}]
    BY <1>14 DEF JobCloses, CloseWorkspace, RemoveRoot, WholeInv, RootTypes
  <2>3. RootTypes'
    BY <2>1, <2>2, NoPrepTyped DEF WholeInv, RootTypes
  <2> QED BY <1>2, <2>1, <2>3, NoPrepTyped
<1>15. CASE JobCheckpoint
  BY <1>1, <1>3, <1>15 DEF JobCheckpoint
<1>16. CASE Kill
  BY <1>16, GoneWhole DEF Kill
<1>17. CASE UNCHANGED vars
  BY <1>17, RootFrame DEF vars, serviceVars, WholeInv
<1> QED BY <1>5, <1>6, <1>7, <1>8, <1>9, <1>10, <1>11, <1>12, <1>13, <1>14, <1>15, <1>16, <1>17,
           MainWhole DEF Next, JobStep

\* Only the last check of Prepare makes a root ready, and the manager is open
\* then.
LEMMA ReadyIsWhole ==
  ASSUME WholeInv, Next, prep.pc # "ready", prep'.pc = "ready"
  PROVE  place'[prep.root] = "review" /\ content'[prep.root] = "whole"
<1>1. prep \in [pc : PrepPC, root : 0 .. MaxRoots, err : PrepErrors]
  BY DEF WholeInv, RootTypes
<1>2. CASE prep' = prep \/ prep' = NoPrep
  BY <1>2, NoPrepTyped
<1>3. CASE PrepareStep
  <2>1. CASE RecheckClosed
    <3>1. ~closed /\ UNCHANGED <<place, content>> /\ prep.pc = "recheckClosed"
      BY <1>1, <2>1 DEF RecheckClosed, Discard, diskVars
    <3> QED BY <3>1 DEF WholeInv, RootInv, RootAs
  <2>2. CASE MakeStaging \/ CheckContext \/ Rename \/ RecheckContext \/ DiscardRoot
    BY <1>1, <2>2 DEF MakeStaging, CheckContext, Rename, RecheckContext, DiscardRoot, PrepGoto, Discard
  <2>3. CASE CloneCurrent \/ CloneRelated \/ ValidateGitConfiguration \/ HandOver
    BY <1>1, <2>3 DEF CloneCurrent, CloneRelated, ValidateGitConfiguration, HandOver, SetupStep,
                      PrepGoto, Discard
  <2> QED BY <1>3, <2>1, <2>2, <2>3 DEF PrepareStep
<1>4. CASE JobPrepares
  BY <1>4 DEF JobPrepares, BeginPrepare, NoPrep
<1>5. CASE MainStep
  <2>1. CleanStep \/ CleanFails => prep' = prep
    BY DEF CleanStep, CleanFails, ReadDir, RemoveContents, RemoveEntry
  <2>2. prep' = prep \/ prep' = NoPrep
    BY <1>5, <2>1 DEF MainStep, OpenStore, RecoverInterrupted, NewManager, Listen, SelectEnded,
         SelectSignal, KeepSelect, ShutDownServer, Await, AllAwaited, CloseManager, CloseStore,
         Exit, Gone, workspaceVars
  <2> QED BY <1>2, <2>2
<1>6. CASE ~MainStep /\ ~JobPrepares /\ ~PrepareStep
  <2>1. prep' = prep \/ prep' = NoPrep
    BY <1>6 DEF Next, Start, Signal, Request, Respond, ServeEnds, ReconcilerEnds, FeedbackEnds,
         StartJob, WorkerStep, PollEnds, JobEnded, Grace, Abandon, JobStep, JobPreparing,
         JobPrepared, JobReviewed, JobCloses, JobCheckpoint, Kill, Gone, workspaceVars
  <2> QED BY <1>2, <2>1
<1> QED BY <1>3, <1>4, <1>5, <1>6

\* Prepare exposes no partial root, also when Manager.Close removes the staging
\* directory under an abandoned job.
THEOREM ReviewsHaveWholeRoots == Spec => ReviewHasWholeRoot
<1> DEFINE Ready == prep.pc # "ready" /\ prep'.pc = "ready" =>
                      place'[prep.root] = "review" /\ content'[prep.root] = "whole"
<1>1. WholeInv /\ [Next]_vars => [Ready]_vars
  BY ReadyIsWhole
<1> QED BY <1>1, ExitInit, ExitPreserved, WholeInit, WholePreserved, PTL
        DEF Spec, ReviewHasWholeRoot


-----------------------------------------------------------------------------
(* The roots on disk. *)

\* A root that is not on disk, or that could not be removed.
Settled(r) == place[r] = "none" \/ r \in stuck

\* A root that the cleaning under way has yet to come to.
Listed(r) == Settled(r) \/ r \in entries \/ (place[r] = "staging" /\ Staging \in entries)

\* The root of a Prepare under way: it ends with the root ready, or removed.
Preparing(r) == r = prep.root /\ job = "prepare" /\ prep.pc # "ready"

\* From the end of NewManager until Manager.Close has read the workspace root.
Owning ==
  \/ main \in {"listen", "select", "shutdown", "wait"}
  \/ main = "closeManager" /\ (~closed \/ unread)

\* The job holds a root from Prepare to Workspace.Close only, and Prepare lets
\* go of the one it fails with.
JobInv ==
  /\ \A r \in Roots : place[r] = "staging" => stagingRoot
  /\ job \notin {"prepare", "review", "close"} => prep.root = 0
  /\ prep.pc \in {"idle", "staging"} => prep.root = 0
  /\ workerPC = "polling" => job = "none"
  /\ job \in {"review", "close"} => prep.pc = "ready"
  /\ prep.pc = "failed" => prep.root = 0 \/ Settled(prep.root)

\* The inductive invariant of RootsAreOwned.  While a cleaning runs every root
\* is one it has yet to come to; the root of an abandoned job escapes it only
\* while Prepare still has to find out that the manager is closed.
OwnInv ==
  /\ JobInv
  /\ main = "newManager" /\ ~unread => \A r \in Roots : Listed(r)
  /\ Owning => \A r \in Roots : Settled(r) \/ r = prep.root
  /\ main = "closeManager" /\ closed /\ ~unread => \A r \in Roots : Listed(r) \/ Preparing(r)
  /\ main = "closeStore" /\ closed => \A r \in Roots : Settled(r) \/ Preparing(r)

LEMMA OwnInit == Init => OwnInv
BY WorkspacesAssumption
   DEF Init, InitWorkspaces, OwnInv, JobInv, Owning, NoPrep, Settled, Roots

\* A step of the job, which leaves run and the cleaning where they are.
LEMMA JobOwn ==
  ASSUME OwnInv, JobInv', main \notin Starting, UNCHANGED <<main, closed, cleanVars>>,
         \A r \in Roots : Settled(r) => Settled(r)' \/ Preparing(r)',
         \A r \in Roots : Listed(r) => Listed(r)' \/ Preparing(r)',
         \A r \in Roots : r = prep.root => r = prep.root' \/ Settled(r)',
         closed => \A r \in Roots : Preparing(r) => Preparing(r)' \/ Settled(r)'
  PROVE  OwnInv'
<1> USE DEF cleanVars
<1>1. \A r \in Roots : Settled(r)' => Listed(r)'
  BY DEF Listed
<1>2. \A r \in Roots : Preparing(r)' => r = prep.root'
  BY DEF Preparing
<1>3. main' # "newManager"
  BY DEF Starting
<1>4. Owning' => \A r \in Roots : (Settled(r) \/ r = prep.root)'
  BY <1>2 DEF OwnInv, Owning
<1>5. (main = "closeManager" /\ closed /\ ~unread => \A r \in Roots : Listed(r) \/ Preparing(r))'
  BY <1>1 DEF OwnInv
<1>6. (main = "closeStore" /\ closed => \A r \in Roots : Settled(r) \/ Preparing(r))'
  BY DEF OwnInv
<1> QED BY <1>3, <1>4, <1>5, <1>6 DEF OwnInv

\* A step of the job that leaves the directories alone and keeps its root, or
\* lets go of one that is settled.
LEMMA JobKeepsDisk ==
  ASSUME OwnInv, main \notin Starting, UNCHANGED <<main, closed, cleanVars, diskVars>>,
         job' \notin {"prepare", "review", "close"} => prep'.root = 0,
         prep'.pc \in {"idle", "staging"} => prep'.root = 0,
         workerPC' = "polling" => job' = "none",
         job' \in {"review", "close"} => prep'.pc = "ready",
         prep'.pc = "failed" => prep'.root = 0 \/ Settled(prep'.root),
         \/ prep'.root = prep.root
         \/ prep'.root = 0 /\ (prep.root = 0 \/ Settled(prep.root)),
         closed /\ job = "prepare" /\ prep.pc # "ready" =>
           \/ job' = "prepare" /\ prep'.pc # "ready"
           \/ prep.pc = "failed"
  PROVE  OwnInv'
<1> USE DEF cleanVars, diskVars
<1>1. \A r \in Roots : (Settled(r) <=> Settled(r)') /\ (Listed(r) <=> Listed(r)') /\ r # 0
  BY DEF Settled, Listed, Roots
<1>2. JobInv'
  BY DEF OwnInv, JobInv, Settled
<1>3. \A r \in Roots : r = prep.root => r = prep.root' \/ Settled(r)'
  BY <1>1
<1>4. closed => \A r \in Roots : Preparing(r) => Preparing(r)' \/ Settled(r)'
  <2> SUFFICES ASSUME closed, NEW r \in Roots, Preparing(r), ~Settled(r)' PROVE Preparing(r)'
    OBVIOUS
  <2>1. r = prep.root /\ job = "prepare" /\ prep.pc # "ready" /\ ~Settled(prep.root) /\ prep.root # 0
    BY <1>1 DEF Preparing
  <2>2. prep.pc # "failed"
    BY <2>1 DEF OwnInv, JobInv
  <2> QED BY <2>1, <2>2 DEF Preparing
<1> QED BY <1>1, <1>2, <1>3, <1>4, JobOwn

\* A step that leaves the job and its root alone.
LEMMA MainFrame ==
  ASSUME OwnInv, UNCHANGED <<workspaceVars, workerVars>>,
         main' = main \/ main' \in {"down", "open", "recover", "return"}
           \/ (Owning /\ main' \in {"select", "shutdown", "wait", "closeManager"} /\ ~closed)
           \/ (main' = "closeStore" /\ ~closed)
  PROVE  OwnInv'
<1> USE DEF workspaceVars, workerVars, diskVars, cleanVars
<1>1. \A r \in Roots : (Settled(r) <=> Settled(r)') /\ (Listed(r) <=> Listed(r)')
                       /\ (Preparing(r) <=> Preparing(r)')
  BY DEF Settled, Listed, Preparing
<1>2. JobInv'
  BY DEF OwnInv, JobInv, Settled
<1>3. main' = "newManager" => main = "newManager"
  OBVIOUS
<1>4. Owning' => Owning
  BY DEF Owning
<1>5. closed /\ main' = "closeManager" /\ ~unread => main = "closeManager"
  OBVIOUS
<1>6. closed /\ main' = "closeStore" => main = "closeStore"
  OBVIOUS
<1> QED BY <1>1, <1>2, <1>3, <1>4, <1>5, <1>6 DEF OwnInv

\* What the cleaning does to the roots: it settles them, one entry at a time.
LEMMA CleanOwn ==
  ASSUME RootTypes, CleanStep, \A r \in Roots : place[r] = "staging" => stagingRoot
  PROVE  /\ \A r \in Roots : place'[r] = "staging" => stagingRoot'
         /\ \A r \in Roots : Settled(r) => Settled(r)'
         /\ \/ unread /\ \A r \in Roots : Listed(r)'
            \/ unread' = unread /\ \A r \in Roots : Listed(r) => Listed(r)'
<1>1. place \in [Roots -> {"none", "staging", "review"}]
  BY DEF RootTypes
<1>2. CASE ReadDir
  <2>1. \A r \in Roots : r # Staging
    BY DEF Roots, Staging
  <2>2. unread /\ UNCHANGED <<place, stagingRoot, stuck>>
    BY <1>2 DEF ReadDir, diskVars
  <2>3. \A r \in Roots : place[r] = "review" => r \in entries'
    BY <1>2 DEF ReadDir
  <2>4. stagingRoot => Staging \in entries'
    BY <1>2 DEF ReadDir
  <2>5. \A r \in Roots : place[r] \in {"none", "staging", "review"}
    BY <1>1
  <2>6. \A r \in Roots : Listed(r)'
    BY <2>2, <2>3, <2>4, <2>5 DEF Listed, Settled
  <2> QED BY <2>2, <2>6 DEF Settled
<1>3. ASSUME NEW entry \in entries, RemoveContents(entry) PROVE UNCHANGED <<place, stagingRoot, stuck, cleanVars>>
  BY <1>3 DEF RemoveContents
<1>4. ASSUME UNCHANGED <<place, stagingRoot, stuck, cleanVars>>
      PROVE  /\ \A r \in Roots : place'[r] = "staging" => stagingRoot'
             /\ unread' = unread
             /\ \A r \in Roots : (Settled(r) => Settled(r)') /\ (Listed(r) => Listed(r)')
  BY <1>4 DEF Settled, Listed, cleanVars
<1>5. ASSUME NEW entry \in entries, RemoveEntry(entry)
      PROVE  /\ \A r \in Roots : place'[r] = "staging" => stagingRoot'
             /\ unread' = unread
             /\ \A r \in Roots : (Settled(r) => Settled(r)') /\ (Listed(r) => Listed(r)')
  <2>1. /\ place' = [r \in Roots |-> IF r \in Below(entry) THEN "none" ELSE place[r]]
        /\ stuck' = stuck \ Below(entry)
        /\ stagingRoot' = (stagingRoot /\ entry # Staging)
        /\ entries' = entries \ {entry} /\ unread' = unread
    BY <1>5 DEF RemoveEntry
  <2>2. \A r \in Roots : r \in Below(entry) =>
          place'[r] = "none" /\ Settled(r)' /\ Listed(r)'
    BY <2>1 DEF Settled, Listed
  <2>3. \A r \in Roots : r \notin Below(entry) =>
          place'[r] = place[r] /\ (r \in stuck => r \in stuck')
    BY <2>1
  <2>4. \A r \in Roots : r \notin Below(entry) => r # entry
                           /\ (place[r] = "staging" => entry # Staging)
    BY DEF Below, Staging, Roots
  <2> QED BY <2>1, <2>2, <2>3, <2>4 DEF Settled, Listed
<1> QED BY <1>2, <1>3, <1>4, <1>5 DEF CleanStep


LEMMA CleanFailsOwn ==
  ASSUME CleanFails, \A r \in Roots : place[r] = "staging" => stagingRoot
  PROVE  /\ \A r \in Roots : place'[r] = "staging" => stagingRoot'
         /\ \A r \in Roots : Settled(r)'
BY DEF CleanFails, Settled

LEMMA GoneOwn == ASSUME OwnInv, Gone PROVE OwnInv'
BY NoPrepTyped DEF Gone, OwnInv, JobInv, Owning, diskVars, NoPrep

\* The part of the invariant about the job, after a step that leaves the job
\* alone and settles roots only.
LEMMA SettlingKeepsJob ==
  ASSUME RootTypes, JobInv, UNCHANGED <<prep, workerVars>>,
         \A r \in Roots : place'[r] = "staging" => stagingRoot',
         \A r \in Roots : Settled(r) => Settled(r)'
  PROVE  JobInv'
<1>1. prep.root = 0 \/ prep.root \in Roots
  BY WorkspacesAssumption DEF RootTypes, Roots
<1>2. prep.pc = "failed" => prep.root = 0 \/ Settled(prep.root)'
  BY <1>1 DEF JobInv
<1> QED BY <1>2 DEF JobInv, workerVars, Settled

LEMMA NewManagerOwn ==
  ASSUME WholeInv, OwnInv, NewManager
  PROVE  OwnInv'
<1>1. /\ main = "newManager" /\ ~closed /\ UNCHANGED workerVars /\ RootTypes /\ JobInv
      /\ \A r \in Roots : place[r] = "staging" => stagingRoot
  BY DEF NewManager, KeepComponents, WholeInv, Starting, OwnInv, JobInv
<1>2. CASE CleanStep /\ UNCHANGED main
  <2>1. UNCHANGED <<closed, prep>>
    BY <1>1, <1>2, CleanTyped
  <2>2. JobInv'
    BY <1>1, <1>2, <2>1, CleanOwn, SettlingKeepsJob
  <2>3. ~unread' => \A r \in Roots : Listed(r)'
    BY <1>1, <1>2, CleanOwn DEF OwnInv
  <2> QED BY <1>1, <1>2, <2>1, <2>2, <2>3 DEF OwnInv, Owning
<1>3. CASE CleanFails /\ main' = "closeStore"
  <2>1. UNCHANGED <<closed, prep>>
    BY <1>3 DEF CleanFails
  <2>2. JobInv'
    BY <1>1, <1>3, <2>1, CleanFailsOwn, SettlingKeepsJob
  <2> QED BY <1>1, <1>3, <2>1, <2>2 DEF OwnInv, Owning
<1>4. CASE Cleaned /\ main' = "listen" /\ stagingRoot' = TRUE
           /\ UNCHANGED <<place, stuck, closed, prep>>
  <2>1. \A r \in Roots : Settled(r) /\ Settled(r)'
    BY <1>1, <1>4 DEF OwnInv, Listed, Settled, Cleaned
  <2>2. JobInv'
    BY <1>1, <1>4, <2>1, SettlingKeepsJob
  <2> QED BY <1>4, <2>1, <2>2 DEF OwnInv, Owning
<1>5. CASE main' = "closeStore" /\ UNCHANGED workspaceVars
  BY <1>1, <1>5, MainFrame
<1> QED BY <1>2, <1>3, <1>4, <1>5 DEF NewManager

LEMMA CloseManagerOwn ==
  ASSUME WholeInv, OwnInv, CloseManager
  PROVE  OwnInv'
<1>1. /\ main = "closeManager" /\ UNCHANGED workerVars /\ RootTypes /\ JobInv
      /\ \A r \in Roots : place[r] = "staging" => stagingRoot
  BY DEF CloseManager, KeepComponents, WholeInv, OwnInv, JobInv
<1>2. CASE ~closed
  <2>1. closed' = TRUE /\ unread' = TRUE /\ UNCHANGED <<main, place, stuck, stagingRoot, prep>>
    BY <1>2 DEF CloseManager, BeginClean, diskVars
  <2>2. \A r \in Roots : (Settled(r) <=> Settled(r)')
    BY <2>1 DEF Settled
  <2>3. JobInv'
    BY <1>1, <2>1, <2>2, SettlingKeepsJob
  <2> QED BY <1>1, <1>2, <2>1, <2>2, <2>3 DEF OwnInv, Owning
<1>3. CASE closed /\ CleanStep /\ UNCHANGED main
  <2>1. UNCHANGED <<closed, prep>>
    BY <1>1, <1>3, CleanTyped
  <2>2. JobInv'
    BY <1>1, <1>3, <2>1, CleanOwn, SettlingKeepsJob
  <2>3. \A r \in Roots : Preparing(r) => Preparing(r)'
    BY <1>1, <2>1 DEF Preparing, workerVars
  <2>4. \A r \in Roots : Settled(r) => Settled(r)'
    BY <1>1, <1>3, CleanOwn
  <2>5. ~unread' => \A r \in Roots : (Listed(r) \/ Preparing(r))'
    BY <1>1, <1>3, <2>3, CleanOwn DEF OwnInv
  <2>6. unread' => \A r \in Roots : (Settled(r) \/ r = prep.root)'
    <3>1. CASE ReadDir
      BY <3>1 DEF ReadDir
    <3>2. CASE unread' = unread
      BY <1>1, <1>3, <2>1, <2>4, <3>2 DEF OwnInv, Owning
    <3> QED BY <1>3, <3>1, <3>2 DEF CleanStep, RemoveContents, RemoveEntry, cleanVars
  <2> QED BY <1>1, <1>3, <2>1, <2>2, <2>5, <2>6 DEF OwnInv, Owning
<1>4. CASE closed /\ CleanFails /\ main' = "closeStore"
  <2>1. UNCHANGED <<closed, prep>>
    BY <1>4 DEF CleanFails
  <2>2. JobInv' /\ \A r \in Roots : Settled(r)'
    BY <1>1, <1>4, <2>1, CleanFailsOwn, SettlingKeepsJob
  <2> QED BY <1>4, <2>2 DEF OwnInv, Owning
<1>5. CASE closed /\ Cleaned /\ main' = "closeStore" /\ UNCHANGED workspaceVars
  <2>1. UNCHANGED <<closed, prep, place, stuck, stagingRoot>>
    BY <1>5 DEF workspaceVars, diskVars
  <2>2. \A r \in Roots : (Settled(r) <=> Settled(r)') /\ (Preparing(r) <=> Preparing(r)')
    BY <1>1, <2>1 DEF Settled, Preparing, workerVars
  <2>3. \A r \in Roots : Settled(r) \/ Preparing(r)
    BY <1>1, <1>5 DEF OwnInv, Listed, Cleaned
  <2>4. JobInv'
    BY <1>1, <2>1, <2>2, SettlingKeepsJob
  <2> QED BY <1>5, <2>2, <2>3, <2>4 DEF OwnInv, Owning
<1> QED BY <1>2, <1>3, <1>4, <1>5 DEF CloseManager

LEMMA MainOwn ==
  ASSUME WholeInv, OwnInv, MainStep
  PROVE  OwnInv'
<1>1. CASE OpenStore
  <2>1. ~closed /\ main' \in {"recover", "return"}
    BY <1>1 DEF OpenStore, WholeInv, Starting
  <2> QED BY <1>1, <2>1, MainFrame DEF OpenStore, KeepComponents
<1>2. CASE RecoverInterrupted
  <2>1. /\ ~closed /\ UNCHANGED <<workerVars, place, stuck, stagingRoot, prep, closed>>
        /\ main' = "closeStore" \/ (main' = "newManager" /\ unread')
    BY <1>2 DEF RecoverInterrupted, BeginClean, KeepComponents, WholeInv, Starting, diskVars
  <2>2. JobInv'
    BY <2>1 DEF OwnInv, JobInv, Settled, workerVars
  <2> QED BY <2>1, <2>2 DEF OwnInv, Owning
<1>3. CASE Listen
  <2>1. ~closed /\ Owning /\ main' \in {"select", "closeManager"}
    BY <1>3 DEF Listen, WholeInv, Starting, Owning
  <2> QED BY <1>3, <2>1, MainFrame DEF Listen
<1>4. CASE (\E c \in Components : SelectEnded(c)) \/ SelectSignal
  <2>1. ~closed /\ Owning /\ main' = "shutdown" /\ KeepSelect
    BY <1>4 DEF SelectEnded, SelectSignal, WholeInv, Closing, Owning
  <2> QED BY <2>1, MainFrame DEF KeepSelect
<1>5. CASE ShutDownServer
  <2>1. ~closed /\ Owning /\ main' = "wait"
    BY <1>5 DEF ShutDownServer, WholeInv, Closing, Owning
  <2> QED BY <1>5, <2>1, MainFrame DEF ShutDownServer
<1>6. CASE \E k \in DOMAIN Waits : Await(k)
  BY <1>6, MainFrame DEF Await
<1>7. CASE AllAwaited
  <2>1. ~closed /\ Owning /\ main' = "closeManager"
    BY <1>7 DEF AllAwaited, WholeInv, Closing, Owning
  <2> QED BY <1>7, <2>1, MainFrame DEF AllAwaited, KeepComponents
<1>8. CASE CloseStore
  BY <1>8, MainFrame DEF CloseStore, KeepComponents
<1>9. CASE Exit
  BY <1>9, GoneOwn DEF Exit
<1> QED BY <1>1, <1>2, <1>3, <1>4, <1>5, <1>6, <1>7, <1>8, <1>9, NewManagerOwn, CloseManagerOwn
        DEF MainStep


\* One step of Prepare.  A manager that was closed is noticed at the latest
\* after the rename, and the root removed.
LEMMA PrepareOwn ==
  ASSUME WholeInv, OwnInv, PrepareStep, main \notin Starting, job = "prepare",
         UNCHANGED <<main, workerVars>>
  PROVE  OwnInv'
<1> USE DEF workerVars
<1>1. /\ prep \in [pc : PrepPC, root : 0 .. MaxRoots, err : PrepErrors]
      /\ place \in [Roots -> {"none", "staging", "review"}]
      /\ made \in 0 .. MaxRoots /\ JobInv /\ workerPC # "polling"
  BY DEF WholeInv, RootTypes, OwnInv, JobInv
<1>2. ASSUME NEW label \in PrepPC \ {"idle", "staging", "failed"},
             label = "ready" => ~closed,
             prep'.pc = label, prep'.root = prep.root,
             UNCHANGED <<place, stagingRoot, stuck, closed, cleanVars>>
      PROVE  OwnInv'
  <2>1. \A r \in Roots : (Settled(r) <=> Settled(r)') /\ (Listed(r) <=> Listed(r)')
    BY <1>2 DEF Settled, Listed, cleanVars
  <2>2. JobInv'
    BY <1>1, <1>2 DEF JobInv
  <2>3. closed => \A r \in Roots : Preparing(r) => Preparing(r)'
    BY <1>2 DEF Preparing
  <2> QED BY <1>2, <2>1, <2>2, <2>3, JobOwn
<1>3. ASSUME NEW err, Discard(err), UNCHANGED <<place, stagingRoot, stuck, closed, cleanVars>>
      PROVE  OwnInv'
  <2>1. prep'.pc = "discard" /\ prep'.root = prep.root
    BY <1>1, <1>3 DEF Discard
  <2>2. "discard" \in PrepPC
    BY DEF PrepPC
  <2> QED BY <1>2, <1>3, <2>1, <2>2
<1>4. ASSUME NEW label \in PrepPC \ {"idle", "staging", "failed"}, PrepGoto(label),
             label = "ready" => ~closed,
             UNCHANGED <<place, stagingRoot, stuck, closed, cleanVars>>
      PROVE  OwnInv'
  <2>1. prep'.pc = label /\ prep'.root = prep.root
    BY <1>1, <1>4 DEF PrepGoto
  <2> QED BY <1>2, <1>4, <2>1
<1>5. CASE MakeStaging
  <2>1. /\ prep.root = 0 /\ prep.pc = "staging"
        /\ UNCHANGED <<stagingRoot, stuck, cleanVars, closed>>
    BY <1>1, <1>5 DEF MakeStaging, JobInv
  <2>2. CASE /\ stagingRoot /\ made < MaxRoots /\ made' = made + 1
             /\ place' = [place EXCEPT ![made'] = "staging"]
             /\ prep' = [prep EXCEPT !.pc = "clone", !.root = made']
    <3>1. prep'.pc = "clone" /\ prep'.root = made'
      BY <1>1, <2>2
    <3>2. \A r \in Roots : r # made' => place'[r] = place[r]
      BY <1>1, <2>2
    <3>3. \A r \in Roots : r = made' => Preparing(r)'
      BY <3>1 DEF Preparing
    <3>4. \A r \in Roots : r # made' => (Settled(r) => Settled(r)') /\ (Listed(r) => Listed(r)')
      BY <2>1, <3>2 DEF Settled, Listed, cleanVars
    <3>5. JobInv'
      BY <1>1, <2>1, <2>2, <3>1 DEF JobInv
    <3>6. \A r \in Roots : r # prep.root
      BY <2>1 DEF Roots
    <3> QED BY <2>1, <3>3, <3>4, <3>5, <3>6, JobOwn DEF Preparing
  <2>3. CASE /\ \E err \in {"retry", "failed"} :
                  prep' = [prep EXCEPT !.pc = "failed", !.err = Classify(err)]
             /\ UNCHANGED place
    <3>1. prep'.pc = "failed" /\ prep'.root = 0
      BY <1>1, <2>1, <2>3
    <3>2. \A r \in Roots : (Settled(r) <=> Settled(r)') /\ (Listed(r) <=> Listed(r)') /\ r # prep.root
      BY <2>1, <2>3 DEF Settled, Listed, cleanVars, Roots
    <3>3. JobInv'
      BY <1>1, <2>1, <2>3, <3>1 DEF JobInv
    <3> QED BY <2>1, <3>2, <3>3, JobOwn DEF Preparing
  <2> QED BY <1>5, <2>2, <2>3 DEF MakeStaging
<1>6. ASSUME NEW step, NEW next \in {"related", "validate", "transfer", "checkContext"}, NEW errs,
             SetupStep(step, next, errs)
      PROVE  OwnInv'
  <2>1. UNCHANGED <<place, stagingRoot, stuck, closed, cleanVars>>
    BY <1>6 DEF SetupStep
  <2>2. next \in PrepPC \ {"idle", "staging", "failed"} /\ next # "ready"
    BY DEF PrepPC, SetupSteps
  <2>3. PrepGoto(next) \/ \E err \in errs \cup {"retry", "timeout"} : Discard(err)
    BY <1>6 DEF SetupStep
  <2> QED BY <1>3, <1>4, <2>1, <2>2, <2>3
<1>7. CASE CloneCurrent \/ CloneRelated \/ ValidateGitConfiguration \/ HandOver
  BY <1>6, <1>7 DEF CloneCurrent, CloneRelated, ValidateGitConfiguration, HandOver
<1>8. CASE CheckContext
  <2>1. UNCHANGED <<place, stagingRoot, stuck, closed, cleanVars>>
    BY <1>8 DEF CheckContext, diskVars
  <2>2. PrepGoto("rename") \/ \E err \in {"retry", "timeout"} : Discard(err)
    BY <1>8 DEF CheckContext
  <2> QED BY <1>3, <1>4, <2>1, <2>2 DEF PrepPC
<1>9. CASE Rename
  <2>1. UNCHANGED <<stagingRoot, stuck, closed, cleanVars>>
    BY <1>9 DEF Rename
  <2>2. CASE /\ place[prep.root] = "staging" /\ PrepGoto("recheckContext")
             /\ place' = [place EXCEPT ![prep.root] = "review"]
    <3>1. prep'.pc = "recheckContext" /\ prep'.root = prep.root
      BY <1>1, <2>2 DEF PrepGoto
    <3>2. \A r \in Roots : r # prep.root => place'[r] = place[r]
      BY <1>1, <2>2
    <3>3. \A r \in Roots : r = prep.root => Preparing(r)' /\ place'[r] = "review"
      BY <1>1, <2>2, <3>1 DEF Preparing
    <3>4. \A r \in Roots : r # prep.root => (Settled(r) => Settled(r)') /\ (Listed(r) => Listed(r)')
      BY <2>1, <3>2 DEF Settled, Listed, cleanVars
    <3>5. JobInv'
      BY <1>1, <2>1, <3>1, <3>2, <3>3 DEF JobInv
    <3>6. \A r \in Roots : Preparing(r) => r = prep.root
      BY DEF Preparing
    <3> QED BY <2>1, <3>1, <3>3, <3>4, <3>5, <3>6, JobOwn
  <2>3. CASE Discard("retry") /\ UNCHANGED place
    BY <1>3, <2>1, <2>3
  <2> QED BY <1>9, <2>2, <2>3 DEF Rename
<1>10. CASE RecheckContext
  <2>1. UNCHANGED <<place, stagingRoot, stuck, closed, cleanVars>>
    BY <1>10 DEF RecheckContext, diskVars
  <2>2. PrepGoto("recheckClosed") \/ \E err \in {"retry", "timeout"} : Discard(err)
    BY <1>10 DEF RecheckContext
  <2> QED BY <1>3, <1>4, <2>1, <2>2 DEF PrepPC
<1>11. CASE RecheckClosed
  <2>1. UNCHANGED <<place, stagingRoot, stuck, closed, cleanVars>>
    BY <1>11 DEF RecheckClosed, diskVars
  <2>2. (~closed /\ PrepGoto("ready")) \/ Discard("retry")
    BY <1>11 DEF RecheckClosed
  <2> QED BY <1>3, <1>4, <2>1, <2>2 DEF PrepPC
<1>12. CASE DiscardRoot
  <2>1. UNCHANGED <<stagingRoot, closed, cleanVars>> /\ RemoveRoot(prep.root)
    BY <1>12 DEF DiscardRoot
  <2>2. prep'.pc = "failed" /\ prep'.root = prep.root
    BY <1>1, <1>12 DEF DiscardRoot
  <2>3. \A r \in Roots : r = prep.root => Settled(r)' /\ place'[r] \in {"none", place[r]}
    BY <1>1, <2>1 DEF RemoveRoot, Settled
  <2>4. \A r \in Roots : r # prep.root =>
          place'[r] = place[r] /\ (Settled(r) => Settled(r)') /\ (Listed(r) => Listed(r)')
    BY <1>1, <2>1 DEF RemoveRoot, Settled, Listed, cleanVars
  <2>5. prep.root = 0 \/ prep.root \in Roots
    BY <1>1, WorkspacesAssumption DEF Roots
  <2>6. (prep.pc = "failed" => prep.root = 0 \/ Settled(prep.root))'
    BY <2>2, <2>3, <2>5 DEF Settled
  <2>7. \A r \in Roots : place'[r] = "staging" => stagingRoot'
    BY <1>1, <2>1, <2>3, <2>4 DEF JobInv
  <2>8. JobInv'
    BY <1>1, <2>2, <2>6, <2>7 DEF JobInv
  <2> QED BY <2>1, <2>2, <2>3, <2>4, <2>8, JobOwn DEF Preparing, Listed
<1> QED BY <1>5, <1>7, <1>8, <1>9, <1>10, <1>11, <1>12 DEF PrepareStep

LEMMA OwnPreserved == ExitInv /\ WholeInv /\ OwnInv /\ [Next]_vars => OwnInv'
<1> SUFFICES ASSUME ExitInv, WholeInv, OwnInv, [Next]_vars PROVE OwnInv'
  OBVIOUS
<1> USE DEF KeepMain, KeepService, KeepDisk
<1>1. /\ prep \in [pc : PrepPC, root : 0 .. MaxRoots, err : PrepErrors]
      /\ place \in [Roots -> {"none", "staging", "review"}] /\ JobInv
  BY DEF WholeInv, RootTypes, OwnInv
<1>2. job # "none" => main \notin Starting
  BY DEF WholeInv
<1>3. status["worker"] = "running" => main \notin Starting
  BY DEF ExitInv, Components
<1>4. NoPrep.pc = "idle" /\ NoPrep.root = 0
  BY DEF NoPrep
<1>5. CASE Start
  BY <1>5, MainFrame DEF Start
<1>6. CASE Signal \/ Request \/ Respond
  BY <1>6, MainFrame DEF Signal, Request, Respond
<1>7. CASE ServeEnds \/ ReconcilerEnds \/ FeedbackEnds
  BY <1>7, MainFrame DEF ServeEnds, ReconcilerEnds, FeedbackEnds
<1>8. CASE StartJob
  <2>1. /\ main \notin Starting /\ UNCHANGED <<main, diskVars, cleanVars, closed>>
        /\ prep.root = 0 /\ prep' = NoPrep /\ job = "none"
        /\ job' \in {"start", "checkpoint"} /\ workerPC' = "busy"
    BY <1>1, <1>3, <1>8 DEF StartJob, Working, JobInv
  <2> QED BY <1>4, <2>1, JobKeepsDisk
<1>9. CASE PollEnds
  BY <1>9, MainFrame DEF PollEnds
<1>10. CASE JobEnded
  <2>1. /\ main \notin Starting /\ UNCHANGED <<main, diskVars, cleanVars, closed, prep>>
        /\ prep.root = 0 /\ job \in {"done", "failed"} /\ job' = "none"
    BY <1>1, <1>3, <1>10 DEF JobEnded, Working, JobInv
  <2> QED BY <2>1, JobKeepsDisk
<1>11. CASE Grace \/ Abandon
  <2>1. /\ main \notin Starting /\ UNCHANGED <<main, diskVars, cleanVars, closed, prep, job>>
        /\ workerPC' = "grace"
    BY <1>3, <1>11 DEF Grace, Abandon, Working, workspaceVars, workerVars
  <2> QED BY <1>1, <2>1, JobKeepsDisk DEF JobInv
<1>12. CASE JobPrepares
  <2>1. /\ main \notin Starting /\ UNCHANGED <<main, diskVars, cleanVars, closed, workerPC>>
        /\ job = "start" /\ job' = "prepare" /\ prep.root = 0
    BY <1>1, <1>2, <1>12 DEF JobPrepares, BeginPrepare, JobGoto, JobInv
  <2>2. prep'.root = 0
    BY <1>4, <1>12 DEF JobPrepares, BeginPrepare, NoPrep
  <2> QED BY <1>1, <2>1, <2>2, JobKeepsDisk DEF JobInv
<1>13. CASE JobPreparing
  BY <1>2, <1>13, PrepareOwn DEF JobPreparing
<1>14. CASE JobPrepared
  <2>1. /\ main \notin Starting /\ UNCHANGED <<main, diskVars, cleanVars, closed, workerPC>>
        /\ job = "prepare" /\ workerPC # "polling"
    BY <1>1, <1>2, <1>14 DEF JobPrepared, JobGoto, JobInv
  <2>2. CASE prep.pc = "ready" /\ job' = "review" /\ prep' = prep
    BY <2>1, <2>2, JobKeepsDisk
  <2>3. CASE prep.pc = "failed" /\ job' = "checkpoint" /\ prep' = NoPrep
    <3>1. prep.root = 0 \/ Settled(prep.root)
      BY <1>1, <2>3 DEF JobInv
    <3> QED BY <1>4, <2>1, <2>3, <3>1, JobKeepsDisk
  <2> QED BY <1>14, <2>2, <2>3 DEF JobPrepared, JobGoto
<1>15. CASE JobReviewed
  <2>1. /\ main \notin Starting /\ UNCHANGED <<main, diskVars, cleanVars, closed, workerPC, prep>>
        /\ job = "review" /\ job' = "close" /\ workerPC # "polling" /\ prep.pc = "ready"
    BY <1>1, <1>2, <1>15 DEF JobReviewed, JobGoto, JobInv, workspaceVars
  <2> QED BY <2>1, JobKeepsDisk
<1>16. CASE JobCloses
  <2>1. /\ main \notin Starting /\ UNCHANGED <<main, cleanVars, stagingRoot, closed, workerPC>>
        /\ job = "close" /\ job' = "checkpoint" /\ workerPC # "polling"
        /\ prep' = NoPrep /\ RemoveRoot(prep.root)
    BY <1>1, <1>2, <1>16 DEF JobCloses, JobGoto, JobInv, CloseWorkspace
  <2>2. \A r \in Roots : r = prep.root => Settled(r)' /\ place'[r] \in {"none", place[r]}
    BY <1>1, <2>1 DEF RemoveRoot, Settled
  <2>3. \A r \in Roots : r # prep.root =>
          place'[r] = place[r] /\ (Settled(r) => Settled(r)') /\ (Listed(r) => Listed(r)')
    BY <1>1, <2>1 DEF RemoveRoot, Settled, Listed, cleanVars
  <2>4. \A r \in Roots : place'[r] = "staging" => stagingRoot'
    BY <1>1, <2>1, <2>2, <2>3 DEF JobInv
  <2>5. JobInv'
    BY <1>4, <2>1, <2>4 DEF JobInv
  <2> QED BY <2>1, <2>2, <2>3, <2>5, JobOwn DEF Preparing, Listed
<1>17. CASE JobCheckpoint
  <2>1. /\ main \notin Starting /\ UNCHANGED <<main, diskVars, cleanVars, closed, workerPC, prep>>
        /\ job = "checkpoint" /\ job' \in {"done", "failed"} /\ prep.root = 0 /\ workerPC # "polling"
    BY <1>1, <1>2, <1>17 DEF JobCheckpoint, JobGoto, JobInv, workspaceVars
  <2> QED BY <2>1, JobKeepsDisk
<1>18. CASE Kill
  BY <1>18, GoneOwn DEF Kill
<1>19. CASE UNCHANGED vars
  BY <1>19, MainFrame DEF vars, serviceVars
<1> QED BY <1>5, <1>6, <1>7, <1>8, <1>9, <1>10, <1>11, <1>12, <1>13, <1>14, <1>15, <1>16, <1>17,
           <1>18, <1>19, MainOwn DEF Next, JobStep, WorkerStep

\* Every review root on disk is accounted for: while reviews run it is the one
\* of the present review, whatever an earlier process left; when the database
\* is closed only an abandoned Prepare, which has yet to remove it, has one.
THEOREM RootsStayOwned == Spec => []RootsAreOwned
<1>1. OwnInv => RootsAreOwned
  BY DEF OwnInv, RootsAreOwned, Owning, Settled, Preparing
<1> QED BY <1>1, ExitInit, ExitPreserved, WholeInit, WholePreserved, OwnInit, OwnPreserved, PTL
        DEF Spec
=============================================================================
