------------------------------ MODULE Reconciler ------------------------------
(***************************************************************************)
(* Periodic reconciliation (internal/reconcile): the scan that lists the   *)
(* open merge requests of each project page by page and creates the jobs   *)
(* that no webhook created, while merge requests are opened, closed,       *)
(* pushed to and marked ready between the pages.                           *)
(*                                                                         *)
(* A merge request is a number: GitLab lists the newest first.  The ghost  *)
(* variables stable and shrunk remember what stayed the same since the     *)
(* scan of the current project began.                                      *)
(***************************************************************************)
EXTENDS ReviewJobs, Sequences, FiniteSets

CONSTANTS
  Projects,    \* the authorized projects, in configuration order
  ProjectOf,   \* the project of each merge request
  PageSize,    \* merge requests per page (100 in the code)
  MaxPages,    \* pages per project (10 in the code)
  MaxMoves     \* bound: changes of merge requests

ASSUME ReconcilerAssumption ==
  /\ MergeRequests \subseteq Nat /\ IsFiniteSet(MergeRequests)
  /\ Heads # {}
  /\ ProjectOf \in [MergeRequests -> {Projects[k] : k \in DOMAIN Projects}]
  /\ PageSize \in Nat \ {0} /\ MaxPages \in Nat \ {0} /\ MaxMoves \in Nat

VARIABLES
  mrs,     \* merge request -> is it open, its head, is it no draft
  moves,
  pc,      \* idle, resolve, list or insert
  at,      \* the index of the project being scanned
  page,    \* the page being listed
  batch,   \* the listed merge requests still to be inserted, with their rows
  next,    \* the number of the next page, 0 after the last one
  stable,  \* ghost: identities listed as ready ever since the project's scan began
  shrunk   \* ghost: has a merge request of the project left the list since then?

scanVars == <<pc, at, page, batch, next>>
reconcilerVars == <<storeVars, mrs, moves, scanVars, stable, shrunk>>

Listed(m) == mrs[m].open /\ ProjectOf[m] = Projects[at]
ReadyIdentity(m) == <<m, mrs[m].head>>
ReadyNow(k) ==
  {ReadyIdentity(m) : m \in {n \in MergeRequests :
     mrs[n].open /\ mrs[n].ready /\ ProjectOf[n] = Projects[k]}}

InitScan ==
  /\ InitStore
  /\ LET h == CHOOSE h \in Heads : TRUE   \* heads of different merge requests never meet
     IN mrs \in [MergeRequests -> [open : BOOLEAN, head : {h}, ready : BOOLEAN]]
  /\ moves = 0
  /\ pc = "idle" /\ at = 1 /\ page = 0 /\ batch = << >> /\ next = 0
  /\ stable = {} /\ shrunk = FALSE

-----------------------------------------------------------------------------
(* External: the merge requests change. *)

Change(m, row) ==
  /\ moves < MaxMoves
  /\ moves' = moves + 1
  /\ mrs' = [mrs EXCEPT ![m] = row]
  /\ stable' = {i \in stable : MergeRequestOf(i) # m \/
                               (row.open /\ row.ready /\ row.head = HeadOf(i))}
  /\ shrunk' = (shrunk \/ (Listed(m) /\ ~row.open))
  /\ UNCHANGED <<storeVars, scanVars>>

Opens(m) == ~mrs[m].open /\ Change(m, [mrs[m] EXCEPT !.open = TRUE])
Closes(m) == mrs[m].open /\ Change(m, [mrs[m] EXCEPT !.open = FALSE])
Pushed(m) ==
  /\ mrs[m].open
  /\ \E h \in Heads \ {mrs[m].head} : Change(m, [mrs[m] EXCEPT !.head = h])
DraftToggled(m) == mrs[m].open /\ Change(m, [mrs[m] EXCEPT !.ready = ~@])

-----------------------------------------------------------------------------
(* The scan. *)

KeepGitLab == UNCHANGED <<mrs, moves>>

\* Begin with project k, or end the cycle behind the last one.
BeginProject(k) ==
  IF k > Len(Projects)
  THEN /\ pc' = "idle" /\ at' = 1 /\ page' = 0 /\ batch' = << >> /\ next' = 0
       /\ stable' = {} /\ shrunk' = FALSE
  ELSE /\ pc' = "resolve" /\ at' = k /\ page' = 1 /\ batch' = << >> /\ next' = 0
       /\ stable' = ReadyNow(k) /\ shrunk' = FALSE

\* Run: the first scan starts at once, the others after the interval.
StartScan == pc = "idle" /\ BeginProject(1) /\ KeepGitLab /\ UNCHANGED storeVars

\* The rows of a page are inserted in the order of the list.
NextRow(m) == m \in DOMAIN batch /\ \A n \in DOMAIN batch : n <= m

\* scanProject returns with an error: the next project is scanned, or none
\* when GitLab asked for a pause.
ScanFails ==
  /\ pc # "idle"
  /\ pc = "insert" => \E m \in MergeRequests : NextRow(m) /\ batch[m].ready
  /\ \/ BeginProject(at + 1)
     \/ pc \in {"resolve", "list"} /\ BeginProject(Len(Projects) + 1)
  /\ KeepGitLab /\ UNCHANGED storeVars

ResolveProject(k) ==
  /\ pc = "resolve" /\ at = k
  /\ pc' = "list"
  /\ KeepGitLab /\ UNCHANGED <<storeVars, at, page, batch, next, stable, shrunk>>

\* One page of the list as it is now, newest first; X-Next-Page says whether
\* there is another one.
Newer(m) == {n \in MergeRequests : Listed(n) /\ n > m}
Position(m) == Cardinality(Newer(m))
ListOpenMergeRequests(p) ==
  [rows |-> {m \in MergeRequests : /\ Listed(m)
                                   /\ (p - 1) * PageSize <= Position(m)
                                   /\ Position(m) < p * PageSize},
   next |-> IF Cardinality({m \in MergeRequests : Listed(m)}) > p * PageSize THEN p + 1 ELSE 0]

ListPage(k, p) ==
  /\ pc = "list" /\ at = k /\ page = p
  /\ batch' = [m \in ListOpenMergeRequests(p).rows |-> mrs[m]]
  /\ next' = ListOpenMergeRequests(p).next
  /\ pc' = "insert"
  /\ KeepGitLab /\ UNCHANGED <<storeVars, at, page, stable, shrunk>>

\* Mutant: a merge request that has a job for any head counts as known.
InsertRowPerMergeRequest(m) ==
  /\ pc = "insert" /\ NextRow(m)
  /\ LET known == \E h \in Heads : ~HasState(<<m, h>>, "absent")
     IN \/ (~batch[m].ready \/ known) /\ UNCHANGED storeVars
        \/ batch[m].ready /\ ~known /\ CreateReviewJob(<<m, batch[m].head>>)
  /\ batch' = [n \in DOMAIN batch \ {m} |-> batch[n]]
  /\ KeepGitLab /\ UNCHANGED <<pc, at, page, next, stable, shrunk>>

\* CreateReconciledJob for the next listed merge request; drafts are skipped.
InsertRow(m) ==
  /\ pc = "insert" /\ NextRow(m)
  /\ LET i == <<m, batch[m].head>>
     IN \/ ~batch[m].ready /\ UNCHANGED storeVars
        \/ batch[m].ready /\ ~HasState(i, "absent") /\ UNCHANGED storeVars
        \/ batch[m].ready /\ CreateReviewJob(i)
  /\ batch' = [n \in DOMAIN batch \ {m} |-> batch[n]]
  /\ KeepGitLab /\ UNCHANGED <<pc, at, page, next, stable, shrunk>>

\* Mutant: the page number is advanced twice.
TurnPageSkipsOne ==
  /\ pc = "insert" /\ DOMAIN batch = {}
  /\ IF next = 0 \/ next + 1 > MaxPages
     THEN BeginProject(at + 1)
     ELSE /\ pc' = "list" /\ page' = next + 1 /\ next' = 0
          /\ UNCHANGED <<at, batch, stable, shrunk>>
  /\ KeepGitLab /\ UNCHANGED storeVars

\* The page is done: the project is finished, or too long, or has another page.
TurnPage ==
  /\ pc = "insert" /\ DOMAIN batch = {}
  /\ IF next = 0 \/ page = MaxPages
     THEN BeginProject(at + 1)
     ELSE /\ pc' = "list" /\ page' = next /\ next' = 0
          /\ UNCHANGED <<at, batch, stable, shrunk>>
  /\ KeepGitLab /\ UNCHANGED storeVars

NextScan ==
  \/ \E m \in MergeRequests : Opens(m) \/ Closes(m) \/ Pushed(m) \/ DraftToggled(m)
  \/ StartScan \/ ScanFails \/ TurnPage
  \/ \E k \in DOMAIN Projects : ResolveProject(k) \/ \E p \in 1 .. MaxPages : ListPage(k, p)
  \/ \E m \in MergeRequests : InsertRow(m)

SpecScan == InitScan /\ [][NextScan]_reconcilerVars

(* Fairness: the reconciler keeps running, and no call fails every time.     *)
ScanFairness ==
  /\ WF_reconcilerVars(StartScan) /\ WF_reconcilerVars(TurnPage)
  /\ \A k \in DOMAIN Projects : /\ SF_reconcilerVars(ResolveProject(k))
                                /\ \A p \in 1 .. MaxPages : SF_reconcilerVars(ListPage(k, p))
  /\ \A m \in MergeRequests : SF_reconcilerVars(InsertRow(m))

FairSpecScan == SpecScan /\ ScanFairness

-----------------------------------------------------------------------------
(* Properties. *)

\* The scan of a project has ended without an error.
Finished == pc = "insert" /\ DOMAIN batch = {} /\ next = 0

Known(i) == ~HasState(i, "absent")

\* A project scan that ends without an error and during which no merge
\* request left the list has found every revision that was ready all along,
\* although the list grew, heads moved and drafts changed between its pages.
ScanCoversProject == Finished /\ ~shrunk => \A i \in stable : Known(i)

\* Liveness, README.md: "Reconciles open merge requests periodically so missed
\* webhooks do not lose reviews".  However often scans fail, a merge request
\* that stays ready in a project within the page limit gets its job.
WithinPageLimit(m) ==
  Cardinality({n \in MergeRequests : mrs[n].open /\ ProjectOf[n] = ProjectOf[m]})
    <= MaxPages * PageSize
ReadyIsDiscovered ==
  \A m \in MergeRequests :
    <>[](mrs[m].open /\ mrs[m].ready /\ WithinPageLimit(m)) => <>[]Known(ReadyIdentity(m))
=============================================================================
