------------------------------- MODULE Codemode -------------------------------
(***************************************************************************)
(* One codemode call of the reviewer: localWorkspace.RunCode in the        *)
(* service, the QuickJS helper process that runs the model's script, the   *)
(* goroutine of each nested tool call and the evidence budget they share.  *)
(* Host and helper talk over two pipes.  The script, its text output and   *)
(* the tools are abstracted to what they may do next; the reader goroutine *)
(* and the select loop it feeds are one step.  ReviewLoop composes this    *)
(* module with the review that makes the calls.                            *)
(***************************************************************************)
EXTENDS Integers, Sequences, FiniteSets

CONSTANTS
  MaxCalls,        \* bound: nested calls of the script
  MaxConcurrent,   \* calls in flight, on both sides (8 in the code)
  PipeCapacity,    \* frames a pipe holds before a write blocks
  MaxEvidence,     \* what the evidence budget admits (16 MiB in the code)
  MaxResponse,     \* bound: the size of one response, in the same unit
  HasTimeout       \* does the script set timeout_ms?

ASSUME CodemodeAssumption ==
  /\ {MaxCalls, MaxConcurrent, PipeCapacity} \subseteq Nat \ {0}
  /\ MaxEvidence \in Nat /\ MaxResponse \in Nat
  /\ HasTimeout \in BOOLEAN

Calls == 1 .. MaxCalls

VARIABLES
  helper,    \* running, blocked (reading), done, crashed or killed
  nextID,    \* the prelude's next call id
  pending,   \* the prelude's unsettled calls
  toHost,    \* the helper's stdout
  toHelper,  \* the helper's stdin
  op,        \* each nested call's goroutine, by its state
  slots,     \* the occupied slots
  lastID,    \* the last call id the host accepted
  used,      \* the evidence budget: what was admitted
  exhausted, \* ... and whether it refused one
  fatal,     \* fatalErr
  runCtx,    \* live, cancelled or expired
  parent,    \* is the review's context done?
  host,      \* idle (no call), loop, cleanup, draining or returned
  result     \* what the loop decided, then what RunCode returns

helperVars == <<helper, nextID, pending>>
opVars == <<op, slots, used, exhausted>>
hostVars == <<lastID, host, result>>
callVars == <<helperVars, toHost, toHelper, op, slots, hostVars, fatal, runCtx>>
codeVars == <<callVars, used, exhausted, parent>>

Done == [kind |-> "done"]
Call(id) == [kind |-> "call", id |-> id]

OpStates == {"none", "calling", "responding", "ended", "limit", "fatal", "cancelled"}
Errors == {"limit", "fatal", "invalid", "cancelled"}
\* "response": the script's output or its error, the model sees either.
Results == {"none", "response"} \cup Errors

\* No script runs; the budget is that of the whole review.
InitCode ==
  /\ helper = "killed" /\ nextID = 1 /\ pending = {}
  /\ toHost = << >> /\ toHelper = << >>
  /\ op = [id \in Calls |-> "none"]
  /\ slots = 0 /\ used = 0 /\ exhausted = FALSE
  /\ lastID = 0 /\ host = "idle" /\ result = "none"
  /\ fatal = "none" /\ runCtx = "cancelled" /\ parent = FALSE

\* RunCode, once its arguments are parsed and the helper was started.
StartCode ==
  /\ host = "idle"
  /\ host' = "loop" /\ helper' = "running"
  /\ runCtx' = (IF parent THEN "cancelled" ELSE "live")
  /\ UNCHANGED <<nextID, pending, toHost, toHelper, opVars, lastID, result, fatal, parent>>

\* RunCode has returned: its local state is gone.
ForgetCode ==
  /\ helper' = "killed" /\ nextID' = 1 /\ pending' = {}
  /\ toHost' = << >> /\ toHelper' = << >>
  /\ op' = [id \in Calls |-> "none"]
  /\ slots' = 0
  /\ lastID' = 0 /\ host' = "idle" /\ result' = "none"
  /\ fatal' = "none" /\ runCtx' = "cancelled"

-----------------------------------------------------------------------------
(* The helper process: a single thread that runs the script. *)

Room(pipe) == Len(pipe) < PipeCapacity

\* pump: at most MaxConcurrent calls are unsettled, the others wait in the
\* script.
ScriptCalls ==
  /\ helper = "running" /\ nextID \in Calls
  /\ Cardinality(pending) < MaxConcurrent
  /\ Room(toHost)
  /\ toHost' = Append(toHost, Call(nextID))
  /\ pending' = pending \cup {nextID}
  /\ nextID' = nextID + 1
  /\ UNCHANGED <<helper, toHelper, opVars, hostVars, fatal, runCtx, parent>>

\* The script has run as far as it can: read the next response.  Without an
\* unsettled call it is stalled, which is a completion (ScriptEnds).
ScriptAwaits ==
  /\ helper = "running" /\ pending # {}
  /\ helper' = "blocked"
  /\ UNCHANGED <<nextID, pending, toHost, toHelper, opVars, hostVars, fatal, runCtx, parent>>

ScriptSettles ==
  /\ helper = "blocked" /\ toHelper # << >>
  /\ helper' = "running"
  /\ pending' = pending \ {Head(toHelper)}
  /\ toHelper' = Tail(toHelper)
  /\ UNCHANGED <<nextID, toHost, opVars, hostVars, fatal, runCtx, parent>>

\* The script returns, exits, throws or stalls, awaited calls or not.
ScriptEnds ==
  /\ helper = "running" /\ Room(toHost)
  /\ toHost' = Append(toHost, Done)
  /\ helper' = "done"
  /\ UNCHANGED <<nextID, pending, toHelper, opVars, hostVars, fatal, runCtx, parent>>

HelperCrashes ==
  /\ helper \in {"running", "blocked"}
  /\ helper' = "crashed"
  /\ UNCHANGED <<nextID, pending, toHost, toHelper, opVars, hostVars, fatal, runCtx, parent>>

HelperStep == ScriptCalls \/ ScriptAwaits \/ ScriptSettles \/ ScriptEnds

-----------------------------------------------------------------------------
(* The goroutine of a nested call. *)

\* Mutant: the first error wins.
FailFirst(err) ==
  /\ fatal' = (IF fatal = "none" THEN err ELSE fatal)
  /\ runCtx' = (IF runCtx = "live" THEN "cancelled" ELSE runCtx)

\* fail: a real failure replaces exhaustion and is joined with another one.
Fail(err) ==
  /\ fatal' = (IF fatal \in {"none", "limit"} THEN err ELSE fatal)
  /\ runCtx' = (IF runCtx = "live" THEN "cancelled" ELSE runCtx)

\* The slot is given back before the outcome is reported to anybody.
EndCall(id, state) ==
  /\ op[id] = "calling"
  /\ op' = [op EXCEPT ![id] = state]
  /\ slots' = slots - 1
  /\ UNCHANGED <<helperVars, toHost, toHelper, hostVars, parent>>

\* toolEvidenceBudget.admit: the first refusal is final.
Admissible(size) == ~exhausted /\ used + size <= MaxEvidence

\* The tool's response is charged to the budget, or ends the evidence.
CallSucceeds(id) ==
  \E size \in 1 .. MaxResponse :
    \/ /\ Admissible(size)
       /\ used' = used + size
       /\ EndCall(id, "responding")
       /\ UNCHANGED <<exhausted, fatal, runCtx>>
    \/ /\ ~Admissible(size)
       /\ exhausted' = TRUE
       /\ EndCall(id, "limit") /\ Fail("limit")
       /\ UNCHANGED used

\* Arguments that are no object are answered without calling the tool.
CallRefusesArguments(id) ==
  /\ EndCall(id, "responding")
  /\ UNCHANGED <<used, exhausted, fatal, runCtx>>

CallFails(id) == EndCall(id, "fatal") /\ Fail("fatal") /\ UNCHANGED <<used, exhausted>>

\* Cancellation of a call whose context ended is no failure of its own.
CallCancelled(id) ==
  /\ runCtx # "live"
  /\ EndCall(id, "cancelled")
  /\ UNCHANGED <<used, exhausted, fatal, runCtx>>

\* Mutant: nothing unblocks a write to a helper that does not read any more.
RespondBlocks(id) ==
  /\ op[id] = "responding"
  /\ Room(toHelper) /\ toHelper' = Append(toHelper, id)
  /\ op' = [op EXCEPT ![id] = "ended"]
  /\ UNCHANGED <<helperVars, toHost, slots, used, exhausted, hostVars, fatal, runCtx, parent>>

\* write: blocks while the pipe is full; once either side closed it the
\* response is lost.
Respond(id) ==
  /\ op[id] = "responding"
  /\ \/ host \in {"loop", "cleanup"} /\ Room(toHelper) /\ toHelper' = Append(toHelper, id)
     \/ host = "draining" /\ UNCHANGED toHelper
     \/ helper \in {"done", "crashed"} /\ UNCHANGED toHelper
  /\ op' = [op EXCEPT ![id] = "ended"]
  /\ UNCHANGED <<helperVars, toHost, slots, used, exhausted, hostVars, fatal, runCtx, parent>>

CallStep(id) ==
  CallSucceeds(id) \/ CallRefusesArguments(id) \/ CallFails(id) \/ CallCancelled(id) \/ Respond(id)

-----------------------------------------------------------------------------
(* RunCode: the loop, and the deferred cleanup. *)

Leave(res) == host' = "cleanup" /\ result' = res

\* The script is over: its output is formatted and, when long, spooled.  The
\* spool allowance may be exhausted (the script fails) or the spool broken.
Present == Leave("response") \/ Leave("fatal")

\* A call frame starts a goroutine when its id is new and a slot is free;
\* otherwise the helper broke the protocol.
ReceiveCall ==
  LET id == Head(toHost).id
  IN /\ host = "loop" /\ toHost # << >> /\ Head(toHost).kind = "call"
     /\ toHost' = Tail(toHost)
     /\ IF id > lastID /\ slots < MaxConcurrent
        THEN /\ lastID' = id
             /\ slots' = slots + 1
             /\ op' = [op EXCEPT ![id] = "calling"]
             /\ UNCHANGED <<host, result>>
        ELSE Leave("invalid") /\ UNCHANGED <<lastID, slots, op>>
     /\ UNCHANGED <<helperVars, toHelper, used, exhausted, fatal, runCtx, parent>>

ReceiveDone ==
  /\ host = "loop" /\ toHost # << >> /\ Head(toHost).kind = "done"
  /\ toHost' = Tail(toHost)
  /\ Present
  /\ runCtx' = (IF runCtx = "live" THEN "cancelled" ELSE runCtx)
  /\ UNCHANGED <<helperVars, toHelper, opVars, lastID, fatal, parent>>

\* End of file without a done frame.
ReceiveEOF ==
  /\ host = "loop" /\ toHost = << >> /\ helper = "crashed"
  /\ Leave("invalid")
  /\ UNCHANGED <<helperVars, toHost, toHelper, opVars, lastID, fatal, runCtx, parent>>

\* The run's context is done: for the whole review, for a failed call, or for
\* the script's own timeout only.
NoticeDone ==
  /\ host = "loop" /\ runCtx # "live"
  /\ IF parent THEN Leave("cancelled")
     ELSE IF fatal # "none" THEN Leave(fatal) ELSE Present
  /\ UNCHANGED <<helperVars, toHost, toHelper, opVars, lastID, fatal, runCtx, parent>>

\* The deferred function up to operations.Wait: record the loop's error, end
\* the context, close the pipes and kill the helper.
Cleanup ==
  /\ host = "cleanup"
  /\ IF result \in Errors THEN Fail(result)
     ELSE /\ runCtx' = (IF runCtx = "live" THEN "cancelled" ELSE runCtx)
          /\ UNCHANGED fatal
  /\ helper' = (IF helper = "crashed" THEN helper ELSE "killed")
  /\ host' = "draining"
  /\ UNCHANGED <<nextID, pending, toHost, toHelper, opVars, lastID, result, parent>>

\* All goroutines have ended: their failures decide before the script's result.
ReturnResult ==
  /\ host = "draining"
  /\ \A id \in Calls : op[id] \notin {"calling", "responding"}
  /\ host' = "returned"
  /\ result' = (IF parent THEN "cancelled"
                ELSE IF fatal # "none" THEN fatal ELSE result)
  /\ UNCHANGED <<helperVars, toHost, toHelper, opVars, lastID, fatal, runCtx, parent>>

HostStep == ReceiveCall \/ ReceiveDone \/ ReceiveEOF \/ NoticeDone \/ Cleanup \/ ReturnResult

-----------------------------------------------------------------------------

ScriptTimeout ==
  /\ HasTimeout /\ runCtx = "live"
  /\ runCtx' = "expired"
  /\ UNCHANGED <<helperVars, toHost, toHelper, opVars, hostVars, fatal, parent>>

\* The review's context is done: its own deadline, or the service stops.
ParentDone ==
  /\ parent' = TRUE
  /\ runCtx' = (IF runCtx = "live" THEN "cancelled" ELSE runCtx)
  /\ UNCHANGED <<helperVars, toHost, toHelper, opVars, hostVars, fatal>>

NextCode ==
  \/ HelperStep \/ HelperCrashes
  \/ \E id \in Calls : CallStep(id)
  \/ HostStep
  \/ ScriptTimeout

-----------------------------------------------------------------------------
(* Properties. *)

\* Type invariant.
TypeOKCode ==
  /\ helper \in {"running", "blocked", "done", "crashed", "killed"}
  /\ nextID \in 1 .. MaxCalls + 1 /\ pending \subseteq Calls
  /\ toHost \in Seq({Call(id) : id \in Calls} \cup {Done})
  /\ toHelper \in Seq(Calls)
  /\ op \in [Calls -> OpStates]
  /\ slots \in 0 .. MaxConcurrent /\ lastID \in 0 .. MaxCalls
  /\ used \in 0 .. MaxEvidence /\ exhausted \in BOOLEAN
  /\ fatal \in Errors \cup {"none"} /\ runCtx \in {"live", "cancelled", "expired"}
  /\ parent \in BOOLEAN
  /\ host \in {"idle", "loop", "cleanup", "draining", "returned"} /\ result \in Results

\* What RunCode promises when it returns.  A failed nested call is never
\* hidden: not by a script that ends without awaiting it, not by the script's
\* timeout, and not by evidence exhaustion, which would let the review go on
\* without the lost evidence.  The host, which counts the calls in flight apart
\* from the script, takes only a crashed helper for a broken one.  And nothing
\* is left behind: every goroutine has ended, so that none uses the workspace
\* after it is closed, the slots are free and the helper is gone.
RunCodeIsHonest ==
  host = "returned" =>
    /\ (\E id \in Calls : op[id] = "fatal") => result \in {"fatal", "invalid", "cancelled"}
    /\ (\E id \in Calls : op[id] = "limit") => result \in Errors
    /\ result = "cancelled" => parent
    /\ result = "invalid" => helper = "crashed"
    /\ \A id \in Calls : op[id] \notin {"calling", "responding"}
    /\ slots = 0 /\ helper \in {"killed", "crashed"}
=============================================================================
