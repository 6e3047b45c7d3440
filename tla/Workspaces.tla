------------------------------ MODULE Workspaces ------------------------------
(***************************************************************************)
(* repository.Manager: the directories of the reviews below one workspace  *)
(* root.  Prepare builds a review root in the private .staging directory   *)
(* and exposes it with a rename; Workspace.Close removes it; Manager.Close *)
(* and NewManager clean the workspace root, entry by entry.                *)
(*                                                                         *)
(* One review is prepared at a time.  Its goroutine is abandoned when a    *)
(* shutdown takes too long, so that Manager.Close may run beside Prepare.  *)
(* What a root contains is abstracted to whether it is complete.           *)
(***************************************************************************)
EXTENDS Naturals

CONSTANT MaxRoots   \* bound: review roots that are made

ASSUME WorkspacesAssumption == MaxRoots \in Nat \ {0}

Roots == 1 .. MaxRoots
Staging == 0        \* the entry .staging of the workspace root

VARIABLES
  place,        \* where a review root is on disk: none, staging or review
  content,      \* what it holds: nothing, partial, whole, or gutted by a removal under way
  made,         \* random identifiers used so far
  stagingRoot,  \* does .staging exist?
  unread,       \* has cleanDirectory yet to read the workspace root?
  entries,      \* what it read and has not removed
  stuck,        \* roots whose removal failed
  closed,       \* Manager.closed
  cancelled,    \* is the context of the review job cancelled?
  prep          \* the call of Prepare, with the error it returns

diskVars == <<place, content, stagingRoot, stuck>>
cleanVars == <<unread, entries>>
workspaceVars == <<diskVars, made, cleanVars, closed, cancelled, prep>>

SetupSteps == {"clone", "related", "validate", "transfer"}
PrepPC == {"idle", "staging", "checkContext", "rename", "recheckContext",
           "recheckClosed", "discard", "ready", "failed"} \cup SetupSteps
PrepErrors == {"none", "cancelled", "timeout", "obsolete", "failed", "retry"}

NoPrep == [pc |-> "idle", root |-> 0, err |-> "none"]

InitWorkspaces ==
  /\ place = [r \in Roots |-> "none"]
  /\ content = [r \in Roots |-> "nothing"]
  /\ made = 0
  /\ stagingRoot = FALSE
  /\ unread = FALSE /\ entries = {}
  /\ stuck = {}
  /\ closed = FALSE
  /\ cancelled = FALSE
  /\ prep = NoPrep

-----------------------------------------------------------------------------
(* cleanDirectory, for NewManager and Manager.Close. *)

BeginClean == unread' = TRUE /\ entries' = {}

ReadDir ==
  /\ unread
  /\ unread' = FALSE
  /\ entries' = {r \in Roots : place[r] = "review"}
                  \cup (IF stagingRoot THEN {Staging} ELSE {})
  /\ UNCHANGED <<diskVars, made, closed, cancelled, prep>>

\* What RemoveAll of an entry takes away.
Below(entry) == IF entry = Staging THEN {r \in Roots : place[r] = "staging"} ELSE {entry}

\* The entries are sorted by name, so that .staging comes first.
Turn(entry) == entry \in entries /\ (Staging \in entries => entry = Staging)

RemoveContents(entry) ==
  /\ Turn(entry)
  /\ content' = [r \in Roots |-> IF r \in Below(entry) THEN "gutted" ELSE content[r]]
  /\ UNCHANGED <<place, stagingRoot, stuck, made, cleanVars, closed, cancelled, prep>>

RemoveEntry(entry) ==
  /\ Turn(entry)
  /\ place' = [r \in Roots |-> IF r \in Below(entry) THEN "none" ELSE place[r]]
  /\ content' = [r \in Roots |-> IF r \in Below(entry) THEN "nothing" ELSE content[r]]
  /\ stuck' = stuck \ Below(entry)
  /\ stagingRoot' = (stagingRoot /\ entry # Staging)
  /\ entries' = entries \ {entry}
  /\ UNCHANGED <<unread, made, closed, cancelled, prep>>

\* A root that cannot be read, or an entry that cannot be removed, ends the
\* cleaning.
CleanFails ==
  /\ unread \/ entries # {}
  /\ unread' = FALSE /\ entries' = {}
  /\ stuck' = {r \in Roots : place[r] # "none"}
  /\ UNCHANGED <<place, content, stagingRoot, made, closed, cancelled, prep>>

CleanStep == ReadDir \/ \E entry \in entries : RemoveContents(entry) \/ RemoveEntry(entry)
Cleaned == ~unread /\ entries = {}

-----------------------------------------------------------------------------
(* Prepare. *)

PrepGoto(label) == prep' = [prep EXCEPT !.pc = label]

\* The order in which Prepare looks at the contexts and at the error.
Classify(err) == IF cancelled THEN "cancelled" ELSE err

BeginPrepare ==
  /\ prep.pc = "idle"
  /\ prep' = (IF closed THEN [NoPrep EXCEPT !.pc = "failed", !.err = "retry"]
              ELSE [NoPrep EXCEPT !.pc = "staging"])
  /\ UNCHANGED <<diskVars, made, cleanVars, closed, cancelled>>

\* A snapshot of another merge request is a failure, without a directory.
MakeStaging ==
  /\ prep.pc = "staging"
  /\ \/ /\ stagingRoot /\ made < MaxRoots
        /\ made' = made + 1
        /\ place' = [place EXCEPT ![made'] = "staging"]
        /\ content' = [content EXCEPT ![made'] = "partial"]
        /\ prep' = [prep EXCEPT !.pc = "clone", !.root = made']
     \/ /\ \E err \in {"retry", "failed"} :
             prep' = [prep EXCEPT !.pc = "failed", !.err = Classify(err)]
        /\ UNCHANGED <<place, content, made>>
  /\ UNCHANGED <<stagingRoot, stuck, cleanVars, closed, cancelled>>

Discard(err) == prep' = [prep EXCEPT !.pc = "discard", !.err = err]

\* A step of the setup: it may fail at any time, also because its context is
\* done or its directory was removed; when both are ready, either is taken.
SetupStep(step, next, errs) ==
  /\ prep.pc = step
  /\ \/ place[prep.root] = "staging" /\ PrepGoto(next)
     \/ \E err \in errs \cup {"retry", "timeout"} : Discard(err)
  /\ UNCHANGED <<place, stagingRoot, stuck, made, cleanVars, closed, cancelled>>

\* The clone, fetch and checkout of the current repository, whose merge
\* request head may have moved.
CloneCurrent == SetupStep("clone", "related", {"obsolete"}) /\ UNCHANGED content
CloneRelated == SetupStep("related", "validate", {}) /\ UNCHANGED content
ValidateGitConfiguration == SetupStep("validate", "transfer", {}) /\ UNCHANGED content

\* writeReviewMemory and chownTree, the last steps: the root is complete.
HandOver ==
  /\ SetupStep("transfer", "checkContext", {})
  /\ content' = (IF prep'.pc = "checkContext" /\ content[prep.root] = "partial"
                 THEN [content EXCEPT ![prep.root] = "whole"] ELSE content)

CheckContext ==
  /\ prep.pc = "checkContext"
  /\ IF cancelled THEN Discard("retry") ELSE PrepGoto("rename") \/ Discard("timeout")
  /\ UNCHANGED <<diskVars, made, cleanVars, closed, cancelled>>

\* Mutant: the contexts and the manager are not looked at after the rename.
RenameEnds ==
  /\ prep.pc = "rename"
  /\ \/ /\ place[prep.root] = "staging"
        /\ place' = [place EXCEPT ![prep.root] = "review"]
        /\ PrepGoto("ready")
     \/ Discard("retry") /\ UNCHANGED place
  /\ UNCHANGED <<content, stagingRoot, stuck, made, cleanVars, closed, cancelled>>

Rename ==
  /\ prep.pc = "rename"
  /\ \/ /\ place[prep.root] = "staging"
        /\ place' = [place EXCEPT ![prep.root] = "review"]
        /\ PrepGoto("recheckContext")
     \/ Discard("retry") /\ UNCHANGED place
  /\ UNCHANGED <<content, stagingRoot, stuck, made, cleanVars, closed, cancelled>>

RecheckContext ==
  /\ prep.pc = "recheckContext"
  /\ IF cancelled THEN Discard("retry") ELSE PrepGoto("recheckClosed") \/ Discard("timeout")
  /\ UNCHANGED <<diskVars, made, cleanVars, closed, cancelled>>

RecheckClosed ==
  /\ prep.pc = "recheckClosed"
  /\ IF closed THEN Discard("retry") ELSE PrepGoto("ready")
  /\ UNCHANGED <<diskVars, made, cleanVars, closed, cancelled>>

\* RemoveAll of one review root, which may fail.
RemoveRoot(root) ==
  \/ /\ place' = [place EXCEPT ![root] = "none"]
     /\ content' = [content EXCEPT ![root] = "nothing"]
     /\ stuck' = stuck \ {root}
  \/ /\ place[root] # "none" /\ UNCHANGED <<place, content>>
     /\ stuck' = stuck \cup {root}

\* The root is removed, before or after the rename; an error of that is
\* ignored.
DiscardRoot ==
  /\ prep.pc = "discard"
  /\ RemoveRoot(prep.root)
  /\ prep' = [prep EXCEPT !.pc = "failed", !.err = Classify(@)]
  /\ UNCHANGED <<stagingRoot, made, cleanVars, closed, cancelled>>

PrepareStep ==
  \/ MakeStaging \/ CloneCurrent \/ CloneRelated \/ ValidateGitConfiguration \/ HandOver
  \/ CheckContext \/ Rename \/ RecheckContext \/ RecheckClosed \/ DiscardRoot

\* Workspace.Close.
CloseWorkspace ==
  /\ RemoveRoot(prep.root)
  /\ UNCHANGED <<stagingRoot, made, cleanVars, closed, cancelled>>

TypeOKWorkspaces ==
  /\ place \in [Roots -> {"none", "staging", "review"}]
  /\ content \in [Roots -> {"nothing", "partial", "whole", "gutted"}]
  /\ made \in 0 .. MaxRoots
  /\ stagingRoot \in BOOLEAN /\ unread \in BOOLEAN
  /\ entries \subseteq Roots \cup {Staging}
  /\ stuck \subseteq Roots
  /\ closed \in BOOLEAN /\ cancelled \in BOOLEAN
  /\ prep \in [pc : PrepPC, root : 0 .. MaxRoots, err : PrepErrors]
=============================================================================
