------------------------------- MODULE BashTool -------------------------------
(***************************************************************************)
(* The bash tool of a review workspace: callBash, its output capture and   *)
(* the review-local output files.  Several commands run at once (nested    *)
(* calls of a script) and draw on one spool allowance, as does the output  *)
(* of the script itself (codemodeOutput).  Each command has three actors:  *)
(* its processes, the goroutine that copies the pipe, and the call, which  *)
(* waits for whichever of five events comes first.                         *)
(*                                                                         *)
(* Output is counted in units; a file is the number of units it holds.     *)
(***************************************************************************)
EXTENDS Integers, FiniteSets, Functions

CONSTANTS
  Commands,       \* bash calls of the review
  ShowLimit,      \* output shown without a file (MaxToolBytes, MaxToolLines)
  CommandLimit,   \* output of one command (MaxCommandOutputBytes)
  SpoolLimit,     \* spool writes of a review (MaxReviewSpoolBytes)
  PipeCapacity,   \* unread output that a pipe holds
  Timed,          \* calls that are given a timeout
  NoFile          \* no such file

ASSUME BashAssumption ==
  /\ {ShowLimit, CommandLimit, SpoolLimit} \subseteq Nat
  /\ PipeCapacity \in Nat \ {0}
  /\ IsFiniteSet(Commands) /\ Timed \subseteq Commands
  /\ NoFile \notin Nat

VARIABLES
  shell,      \* none, running, away (in another process group) or exited
  keeper,     \* a background process that holds the pipe: no, group, detached
  pipe,       \* unread output
  copy,       \* copying, or how io.Copy ended: eof, limit, spool or closed
  total,      \* output captured
  limitErr,   \* was the limit reached?
  spoolErr,   \* has the spool failed?
  file,       \* the output file on disk, or NoFile
  spoolPath,  \* does the capture name it?
  call,       \* idle, select, killing, waiting, draining, closing, answering, returned
  outcome,    \* which event the call took
  answer,     \* what the call returned, and whether its text names the file
  spoolUsed,  \* the allowance used up
  scriptFile, \* the output file of the script
  ctxDone     \* is the context of the calls done?

captureVars == <<copy, total, limitErr, spoolErr, spoolPath>>
processVars == <<shell, keeper>>
callVars == <<call, outcome, answer>>
vars == <<processVars, pipe, captureVars, file, callVars, spoolUsed, scriptFile, ctxDone>>

Answers == [kind : {"none", "refused", "done", "timeout", "limit", "retry", "canceled"},
            path : BOOLEAN]
Answered(kind, path) == [kind |-> kind, path |-> path]

Init ==
  /\ shell = [c \in Commands |-> "none"]
  /\ keeper = [c \in Commands |-> "no"]
  /\ pipe = [c \in Commands |-> 0]
  /\ copy = [c \in Commands |-> "copying"]
  /\ total = [c \in Commands |-> 0]
  /\ limitErr = [c \in Commands |-> FALSE]
  /\ spoolErr = [c \in Commands |-> FALSE]
  /\ file = [c \in Commands |-> NoFile]
  /\ spoolPath = [c \in Commands |-> FALSE]
  /\ call = [c \in Commands |-> "idle"]
  /\ outcome = [c \in Commands |-> "none"]
  /\ answer = [c \in Commands |-> Answered("none", FALSE)]
  /\ spoolUsed = 0
  /\ scriptFile = NoFile
  /\ ctxDone = FALSE

-----------------------------------------------------------------------------
(* The processes of a command (external). *)

Alive(c) == shell[c] \in {"running", "away"}
Writing(c) == Alive(c) \/ keeper[c] # "no"

Output(c) ==
  /\ Writing(c) /\ copy[c] = "copying"
  /\ pipe[c] < PipeCapacity
  /\ pipe' = [pipe EXCEPT ![c] = @ + 1]
  /\ UNCHANGED <<processVars, captureVars, file, callVars, spoolUsed, scriptFile, ctxDone>>

Spawn(c) ==
  /\ Alive(c) /\ keeper[c] = "no"
  /\ \E k \in {"group", "detached"} : keeper' = [keeper EXCEPT ![c] = k]
  /\ UNCHANGED <<shell, pipe, captureVars, file, callVars, spoolUsed, scriptFile, ctxDone>>

\* The process that was started moves itself to another process group, out of
\* reach of the signals.
Leave(c) ==
  /\ shell[c] = "running"
  /\ shell' = [shell EXCEPT ![c] = "away"]
  /\ UNCHANGED <<keeper, pipe, captureVars, file, callVars, spoolUsed, scriptFile, ctxDone>>

Exit(c) ==
  /\ Alive(c)
  /\ shell' = [shell EXCEPT ![c] = "exited"]
  /\ UNCHANGED <<keeper, pipe, captureVars, file, callVars, spoolUsed, scriptFile, ctxDone>>

-----------------------------------------------------------------------------
(* The goroutine that copies the pipe: bashCapture.Write. *)

\* Mutant: the allowance is compared before the write, not with it.
ComparedBeforeWrite(c, n) == n = 0 \/ spoolUsed < SpoolLimit

\* writeSpool's allowance, which is never given back.
Affordable(c, n) == spoolUsed + n <= SpoolLimit

\* The output that a write to the spool has to hold: all of it when the file
\* is started, the new output afterwards.
Pending(c, n) ==
  IF total[c] + n <= ShowLimit THEN 0
  ELSE IF file[c] = NoFile THEN total[c] + n ELSE n

Ends(c, how) == copy' = [copy EXCEPT ![c] = how]

\* Mutant: what was captured before the file was started is not written to it.
SpoolTheRest(c, n, more) ==
  LET before == IF file[c] = NoFile THEN 0 ELSE file[c]
  IN /\ file' = [file EXCEPT ![c] = IF Pending(c, n) = 0 THEN @ ELSE before + n]
     /\ spoolPath' = [spoolPath EXCEPT ![c] = @ \/ Pending(c, n) > 0]
     /\ spoolUsed' = spoolUsed + Pending(c, n)
     /\ limitErr' = [limitErr EXCEPT ![c] = more]
     /\ copy' = (IF more THEN [copy EXCEPT ![c] = "limit"] ELSE copy)
     /\ UNCHANGED spoolErr

\* The accepted output is kept in memory or in the file; when there was more
\* than the command may write, the limit is reached.
Spool(c, n, more) ==
  LET before == IF file[c] = NoFile THEN 0 ELSE file[c]
  IN /\ file' = [file EXCEPT ![c] = IF Pending(c, n) = 0 THEN @ ELSE before + Pending(c, n)]
     /\ spoolPath' = [spoolPath EXCEPT ![c] = @ \/ Pending(c, n) > 0]
     /\ spoolUsed' = spoolUsed + Pending(c, n)
     /\ limitErr' = [limitErr EXCEPT ![c] = more]
     /\ copy' = (IF more THEN [copy EXCEPT ![c] = "limit"] ELSE copy)
     /\ UNCHANGED spoolErr

\* The allowance of the review does not cover the write; a file that could not
\* be started is removed.
SpoolRefused(c) ==
  /\ limitErr' = [limitErr EXCEPT ![c] = TRUE]
  /\ Ends(c, "limit")
  /\ UNCHANGED <<file, spoolPath, spoolErr, spoolUsed>>

\* The file cannot be created, or the charged write fails or is short.
SpoolFails(c, n) ==
  /\ spoolErr' = [spoolErr EXCEPT ![c] = TRUE]
  /\ Ends(c, "spool")
  /\ spoolUsed' \in {spoolUsed, spoolUsed + Pending(c, n)}
  /\ UNCHANGED <<file, spoolPath, limitErr>>

Write(c) ==
  /\ copy[c] = "copying"
  /\ \E read \in 1 .. pipe[c] :
       LET n == IF total[c] + read > CommandLimit THEN CommandLimit - total[c] ELSE read
       IN /\ pipe' = [pipe EXCEPT ![c] = @ - read]
          /\ total' = [total EXCEPT ![c] = @ + n]
          /\ \/ Affordable(c, Pending(c, n)) /\ Spool(c, n, n < read)
             \/ ~Affordable(c, Pending(c, n)) /\ SpoolRefused(c)
             \/ Pending(c, n) > 0 /\ Affordable(c, Pending(c, n)) /\ SpoolFails(c, n)
  /\ UNCHANGED <<processVars, callVars, scriptFile, ctxDone>>

EndOfFile(c) ==
  /\ copy[c] = "copying" /\ pipe[c] = 0
  /\ shell[c] = "exited" /\ keeper[c] = "no"
  /\ Ends(c, "eof")
  /\ UNCHANGED <<processVars, pipe, total, limitErr, spoolErr, spoolPath, file, callVars,
                 spoolUsed, scriptFile, ctxDone>>

-----------------------------------------------------------------------------
(* callBash. *)

KeepOutput == UNCHANGED <<pipe, captureVars, file, spoolUsed, scriptFile, ctxDone>>

Step(c, from, to) == call[c] = from /\ call' = [call EXCEPT ![c] = to]

\* Bad arguments and a command that cannot be started are answered at once.
Start(c) ==
  /\ \/ /\ ~ctxDone
        /\ Step(c, "idle", "select")
        /\ shell' = [shell EXCEPT ![c] = "running"]
        /\ UNCHANGED answer
     \/ /\ Step(c, "idle", "returned")
        /\ \E kind \in (IF ctxDone THEN {"canceled"} ELSE {"refused", "retry"}) :
             answer' = [answer EXCEPT ![c] = Answered(kind, FALSE)]
        /\ UNCHANGED shell
  /\ KeepOutput /\ UNCHANGED <<keeper, outcome>>

\* The select: whichever of the events that are ready.
Event(c, event) ==
  CASE event = "exit"            -> shell[c] = "exited"
    [] event = "output_limit"    -> limitErr[c]
    [] event = "capture_failure" -> spoolErr[c]
    [] event = "timeout"         -> c \in Timed
    [] event = "canceled"        -> ctxDone

Select(c) ==
  /\ call[c] = "select"
  /\ \E event \in {"exit", "output_limit", "capture_failure", "timeout", "canceled"} :
       /\ Event(c, event)
       /\ outcome' = [outcome EXCEPT ![c] = event]
       /\ call' = [call EXCEPT ![c] = IF event = "exit" THEN "draining" ELSE "killing"]
  /\ KeepOutput /\ UNCHANGED <<processVars, answer>>

\* terminateProcessGroup signals the group, and whatever is in it ends.
Kill(c) ==
  /\ Step(c, "killing", IF shell[c] = "away" THEN "waiting" ELSE "draining")
  /\ shell' = [shell EXCEPT ![c] = IF @ = "away" THEN @ ELSE "exited"]
  /\ keeper' = [keeper EXCEPT ![c] = IF @ = "group" THEN "no" ELSE @]
  /\ KeepOutput /\ UNCHANGED <<outcome, answer>>

\* The wait for a process that the signals did not reach has no time limit.
WaitDone(c) ==
  /\ shell[c] = "exited"
  /\ Step(c, "waiting", "draining")
  /\ KeepOutput /\ UNCHANGED <<processVars, outcome, answer>>

\* Mutant: the call waits for the end of the pipe without a time limit.
DrainBlocks(c) ==
  /\ copy[c] # "copying"
  /\ pipe' = [pipe EXCEPT ![c] = 0]
  /\ Step(c, "draining", "closing")
  /\ UNCHANGED <<captureVars, file, spoolUsed, scriptFile, ctxDone>>
  /\ UNCHANGED <<processVars, outcome, answer>>

\* The copy has ended, or 100 ms have passed and the pipe is closed under it;
\* what was not read is lost.
Drain(c) ==
  /\ \/ copy[c] # "copying" /\ UNCHANGED copy
     \/ copy[c] = "copying" /\ Ends(c, "closed")
  /\ pipe' = [pipe EXCEPT ![c] = 0]
  /\ Step(c, "draining", "closing")
  /\ UNCHANGED <<total, limitErr, spoolErr, spoolPath, file, spoolUsed, scriptFile, ctxDone>>
  /\ UNCHANGED <<processVars, outcome, answer>>

\* bashCapture.close: the file is synced, handed to the tool user and closed.
CloseCapture(c) ==
  /\ Step(c, "closing", "answering")
  /\ \/ ~spoolErr[c] /\ UNCHANGED <<spoolErr, outcome>>
     \/ /\ spoolErr[c] \/ file[c] # NoFile
        /\ spoolErr' = [spoolErr EXCEPT ![c] = TRUE]
        /\ outcome' = [outcome EXCEPT ![c] = "capture_failure"]
  /\ UNCHANGED <<pipe, copy, total, limitErr, spoolPath, file, spoolUsed, scriptFile, ctxDone>>
  /\ UNCHANGED <<processVars, answer>>

\* Mutant: only the event decides whether the limit is reported.
AnswerByEvent(c) ==
  LET named == total[c] > ShowLimit /\ spoolPath[c]
  IN CASE outcome[c] = "canceled"        -> Answered("canceled", FALSE)
       [] outcome[c] = "capture_failure" -> Answered("retry", FALSE)
       [] outcome[c] = "output_limit"    -> Answered("limit", FALSE)
       [] outcome[c] = "timeout"         -> Answered("timeout", named)
       [] OTHER                          -> Answered("done", named)

\* What the call answers; the text is formatted before the file of an output
\* over the limit is removed, and names it unless the limit was the event.
AnswerOf(c) ==
  LET named == total[c] > ShowLimit /\ spoolPath[c] /\ outcome[c] # "output_limit"
      limit == outcome[c] = "output_limit" \/ copy[c] = "limit"
  IN CASE outcome[c] = "canceled"        -> Answered("canceled", FALSE)
       [] outcome[c] = "capture_failure" -> Answered("retry", FALSE)
       [] OTHER -> Answered(IF limit THEN "limit"
                            ELSE IF outcome[c] = "timeout" THEN "timeout" ELSE "done", named)

Answer(c) ==
  /\ Step(c, "answering", "returned")
  /\ answer' = [answer EXCEPT ![c] = AnswerOf(c)]
  /\ IF AnswerOf(c).kind = "limit"
     THEN /\ file' = [file EXCEPT ![c] = NoFile]
          /\ spoolPath' = [spoolPath EXCEPT ![c] = FALSE]
     ELSE UNCHANGED <<file, spoolPath>>
  /\ UNCHANGED <<processVars, pipe, copy, total, limitErr, spoolErr, outcome,
                 spoolUsed, scriptFile, ctxDone>>

-----------------------------------------------------------------------------

\* codemodeOutput: the long output of a script is spooled in one write; a file
\* that cannot be written in full is removed, its charge is not given back.
SpoolScript ==
  /\ scriptFile = NoFile
  /\ \E n \in ShowLimit + 1 .. CommandLimit :
       \/ /\ spoolUsed + n <= SpoolLimit
          /\ spoolUsed' = spoolUsed + n
          /\ scriptFile' \in {n, NoFile}
       \/ spoolUsed + n > SpoolLimit /\ UNCHANGED <<spoolUsed, scriptFile>>
  /\ UNCHANGED <<processVars, pipe, captureVars, file, callVars, ctxDone>>

ContextDone ==
  /\ ~ctxDone
  /\ ctxDone' = TRUE
  /\ UNCHANGED <<processVars, pipe, captureVars, file, callVars, spoolUsed, scriptFile>>

Process(c) == Output(c) \/ Spawn(c) \/ Leave(c) \/ Exit(c)
Copy(c) == Write(c) \/ EndOfFile(c)
CallStep(c) ==
  Select(c) \/ Kill(c) \/ WaitDone(c) \/ Drain(c) \/ CloseCapture(c) \/ Answer(c)

Next ==
  \/ \E c \in Commands : Process(c) \/ Copy(c) \/ Start(c) \/ CallStep(c)
  \/ SpoolScript \/ ContextDone

Spec == Init /\ [][Next]_vars

(* The deadline of the review comes, and of the calls that can go on one     *)
(* does.  Nothing is assumed of the command, which may run and write for     *)
(* ever, nor of the goroutine that copies its output.                        *)
Fairness == WF_vars(ContextDone) /\ WF_vars(\E c \in Commands : CallStep(c))

FairSpec == Spec /\ Fairness

-----------------------------------------------------------------------------
(* Properties. *)

\* Type invariant.
TypeOK ==
  /\ shell \in [Commands -> {"none", "running", "away", "exited"}]
  /\ keeper \in [Commands -> {"no", "group", "detached"}]
  /\ pipe \in [Commands -> 0 .. PipeCapacity]
  /\ copy \in [Commands -> {"copying", "eof", "limit", "spool", "closed"}]
  /\ total \in [Commands -> 0 .. CommandLimit]
  /\ limitErr \in [Commands -> BOOLEAN] /\ spoolErr \in [Commands -> BOOLEAN]
  /\ file \in [Commands -> 0 .. CommandLimit \cup {NoFile}]
  /\ spoolPath \in [Commands -> BOOLEAN]
  /\ call \in [Commands -> {"idle", "select", "killing", "waiting", "draining", "closing",
                           "answering", "returned"}]
  /\ outcome \in [Commands -> {"none", "exit", "output_limit", "capture_failure", "timeout",
                              "canceled"}]
  /\ answer \in [Commands -> Answers]
  /\ spoolUsed \in 0 .. SpoolLimit

Held(f) == IF f = NoFile THEN 0 ELSE f
HeldIn(files) == FoldFunction(LAMBDA f, sum : Held(f) + sum, 0, files)

\* The output files of a review never hold more than its allowance, whatever
\* commands write at the same time, and the allowance is never exceeded.
SpoolWithinAllowance ==
  Held(scriptFile) + HeldIn(file) <= spoolUsed /\ spoolUsed <= SpoolLimit

\* docs/agents/reliability.md: bash output, "when truncated, points to a
\* complete review-local output file".  Of a command that was not stopped for
\* its output: an answer that names a file names one that is there and holds
\* everything that was captured, and truncated output is always in one.
TruncatedOutputIsInFile ==
  \A c \in Commands :
    answer[c].kind \in {"done", "timeout"} =>
      /\ answer[c].path <=> total[c] > ShowLimit
      /\ answer[c].path => file[c] = total[c]

\* A command whose output reached a limit is never answered as one that ended:
\* whichever event the call took, the model learns that output is missing, and
\* the incomplete file is gone.
LimitIsReported ==
  \A c \in Commands :
    call[c] = "returned" /\ limitErr[c] =>
      /\ answer[c].kind \in {"limit", "retry", "canceled"}
      /\ answer[c].kind = "limit" => file[c] = NoFile

\* Liveness: every call that was started returns, although the command may
\* write for ever and a process that left its group may hold the pipe open.
\* Only the process that the call itself started can hold it up, by leaving its
\* group: the wait for it has no limit, not even that of the review.
CallReturns ==
  <>[](\A c \in Commands :
         call[c] \in {"idle", "returned"} \/ (call[c] = "waiting" /\ shell[c] = "away"))

\* The same sentence, for every answer: a file that the text points to exists.
NamedFileExists ==
  \A c \in Commands : answer[c].path => file[c] # NoFile
=============================================================================
