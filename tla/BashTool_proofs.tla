---------------------------- MODULE BashTool_proofs ----------------------------
(***************************************************************************)
(* Machine-checked proofs about the bash tool, for every number of         *)
(* concurrent commands and every limit: what the model is told about a     *)
(* command's output is true, whichever of the five events its call took.   *)
(*                                                                         *)
(* The commands share the allowance of the review and nothing else, so the *)
(* inductive invariant speaks of one command at a time.                    *)
(***************************************************************************)
EXTENDS BashTool, FiniteSetTheorems, WellFoundedInduction, TLAPS

\* All output captured so far is shown, or is in the file that the capture names.
AllKept(c) ==
  \/ total[c] <= ShowLimit /\ file[c] = NoFile /\ ~spoolPath[c]
  \/ total[c] > ShowLimit /\ file[c] = total[c] /\ spoolPath[c]

\* The three flags of a capture agree: a limit and a spool failure end the copy,
\* and a copy that did not end that way has kept everything.
CaptureInv(c) ==
  /\ limitErr[c] => copy[c] = "limit"
  /\ copy[c] = "spool" => spoolErr[c]
  /\ copy[c] \in {"copying", "eof", "closed"} => AllKept(c)

\* The capture is over before its call looks at it, and a command that was
\* never started has no output.
PhaseInv(c) ==
  /\ call[c] = "idle" => copy[c] = "copying"
  /\ call[c] = "idle" \/ (call[c] = "returned" /\ copy[c] = "copying")
       => shell[c] = "none" /\ keeper[c] = "no" /\ pipe[c] = 0
  /\ call[c] \in {"closing", "answering"} => copy[c] # "copying"
  /\ outcome[c] = "output_limit" => limitErr[c]
  /\ call[c] = "answering" /\ spoolErr[c] => outcome[c] = "capture_failure"

\* What was answered.
AnswerInv(c) ==
  /\ call[c] # "returned" => answer[c].kind = "none"
  /\ answer[c].kind \in {"done", "timeout"} =>
       copy[c] \in {"eof", "closed"} /\ (answer[c].path <=> total[c] > ShowLimit)
  /\ call[c] = "returned" /\ limitErr[c] =>
       /\ answer[c].kind \in {"limit", "retry", "canceled"}
       /\ answer[c].kind = "limit" => file[c] = NoFile

CommandInv(c) == CaptureInv(c) /\ PhaseInv(c) /\ AnswerInv(c)

BInv == TypeOK /\ \A c \in Commands : CommandInv(c)

LEMMA BInvInit == Init => BInv
<1> SUFFICES ASSUME Init PROVE BInv
  OBVIOUS
<1>1. TypeOK
  BY BashAssumption DEF Init, TypeOK, Answers, Answered
<1>2. \A c \in Commands : CommandInv(c)
  BY BashAssumption DEF Init, CommandInv, CaptureInv, PhaseInv, AnswerInv, AllKept, Answered
<1> QED BY <1>1, <1>2 DEF BInv

\* A step that leaves everything of a command alone keeps its invariant.
LEMMA OtherCommand ==
  ASSUME NEW d \in Commands, CommandInv(d),
         shell'[d] = shell[d], keeper'[d] = keeper[d], pipe'[d] = pipe[d], copy'[d] = copy[d],
         total'[d] = total[d], limitErr'[d] = limitErr[d], spoolErr'[d] = spoolErr[d],
         file'[d] = file[d], spoolPath'[d] = spoolPath[d], call'[d] = call[d],
         outcome'[d] = outcome[d], answer'[d] = answer[d]
  PROVE  CommandInv(d)'
BY DEF CommandInv, CaptureInv, PhaseInv, AnswerInv, AllKept

-----------------------------------------------------------------------------
(* The processes. *)

LEMMA ProcessStep ==
  ASSUME BInv, NEW c \in Commands, Process(c)
  PROVE  BInv'
<1> USE DEF captureVars, processVars, callVars
<1>1. CASE Output(c)
  <2>1. TypeOK'
    BY <1>1, BashAssumption DEF Output, BInv, TypeOK
  <2>2. CommandInv(c)'
    BY <1>1 DEF Output, Writing, Alive, BInv, TypeOK, CommandInv, CaptureInv, PhaseInv, AnswerInv, AllKept
  <2>3. ASSUME NEW d \in Commands \ {c} PROVE CommandInv(d)'
    BY <1>1, OtherCommand DEF Output, BInv, TypeOK
  <2> QED BY <2>1, <2>2, <2>3 DEF BInv
<1>2. CASE Spawn(c)
  <2>1. TypeOK'
    BY <1>2 DEF Spawn, BInv, TypeOK
  <2>2. CommandInv(c)'
    BY <1>2 DEF Spawn, Alive, BInv, TypeOK, CommandInv, CaptureInv, PhaseInv, AnswerInv, AllKept
  <2>3. ASSUME NEW d \in Commands \ {c} PROVE CommandInv(d)'
    BY <1>2, OtherCommand DEF Spawn, BInv, TypeOK
  <2> QED BY <2>1, <2>2, <2>3 DEF BInv
<1>3. CASE Leave(c)
  <2>1. TypeOK'
    BY <1>3 DEF Leave, BInv, TypeOK
  <2>2. CommandInv(c)'
    BY <1>3 DEF Leave, BInv, TypeOK, CommandInv, CaptureInv, PhaseInv, AnswerInv, AllKept
  <2>3. ASSUME NEW d \in Commands \ {c} PROVE CommandInv(d)'
    BY <1>3, OtherCommand DEF Leave, BInv, TypeOK
  <2> QED BY <2>1, <2>2, <2>3 DEF BInv
<1>4. CASE Exit(c)
  <2>1. TypeOK'
    BY <1>4 DEF Exit, BInv, TypeOK
  <2>2. CommandInv(c)'
    BY <1>4 DEF Exit, Alive, BInv, TypeOK, CommandInv, CaptureInv, PhaseInv, AnswerInv, AllKept
  <2>3. ASSUME NEW d \in Commands \ {c} PROVE CommandInv(d)'
    BY <1>4, OtherCommand DEF Exit, BInv, TypeOK
  <2> QED BY <2>1, <2>2, <2>3 DEF BInv
<1> QED BY <1>1, <1>2, <1>3, <1>4 DEF Process

-----------------------------------------------------------------------------
(* The copy of the pipe. *)

LEMMA WriteStep ==
  ASSUME BInv, NEW c \in Commands, Write(c)
  PROVE  BInv'
<1> USE DEF captureVars, processVars, callVars
<1> DEFINE N(read) == IF total[c] + read > CommandLimit THEN CommandLimit - total[c] ELSE read
<1>1. PICK read \in 1 .. pipe[c] :
        /\ pipe' = [pipe EXCEPT ![c] = @ - read]
        /\ total' = [total EXCEPT ![c] = @ + N(read)]
        /\ \/ Affordable(c, Pending(c, N(read))) /\ Spool(c, N(read), N(read) < read)
           \/ ~Affordable(c, Pending(c, N(read))) /\ SpoolRefused(c)
           \/ Pending(c, N(read)) > 0 /\ Affordable(c, Pending(c, N(read))) /\ SpoolFails(c, N(read))
  BY DEF Write
<1>2. PICK n \in Nat : n = N(read) /\ n <= read /\ total[c] + n \in 0 .. CommandLimit
  BY BashAssumption DEF BInv, TypeOK
<1> HIDE DEF N
<1>3. /\ pipe[c] \in Nat /\ total[c] \in 0 .. CommandLimit /\ copy[c] = "copying"
      /\ call[c] \notin {"idle", "closing", "answering", "returned"}
      /\ ~limitErr[c] /\ AllKept(c) /\ CommandInv(c)
      /\ pipe[c] - read \in 0 .. PipeCapacity
  BY BashAssumption DEF Write, BInv, TypeOK, CommandInv, CaptureInv, PhaseInv
<1>4. /\ UNCHANGED <<shell, keeper, call, outcome, answer>>
      /\ pipe' = [pipe EXCEPT ![c] = pipe[c] - read]
      /\ total' = [total EXCEPT ![c] = total[c] + n]
  BY <1>1, <1>2 DEF Write
<1>5. Pending(c, n) \in 0 .. CommandLimit /\ spoolUsed \in 0 .. SpoolLimit
  BY <1>2, BashAssumption DEF Pending, BInv, TypeOK
<1>6. CASE Affordable(c, Pending(c, n)) /\ Spool(c, n, n < read)
  <2> DEFINE f == IF Pending(c, n) = 0 THEN file[c]
                  ELSE (IF file[c] = NoFile THEN 0 ELSE file[c]) + Pending(c, n)
             path == spoolPath[c] \/ Pending(c, n) > 0
  <2>0. \/ total[c] + n <= ShowLimit /\ f = NoFile /\ ~path
        \/ total[c] + n > ShowLimit /\ f = total[c] + n /\ path
    <3>1. CASE total[c] + n <= ShowLimit
      <4>1. Pending(c, n) = 0
        BY <3>1 DEF Pending
      <4>2. ~(total[c] > ShowLimit)
        BY <1>2, <1>3, <3>1, BashAssumption
      <4>3. file[c] = NoFile /\ ~spoolPath[c]
        BY <1>3, <4>2 DEF AllKept
      <4> QED BY <3>1, <4>1, <4>3
    <3>2. CASE ~(total[c] + n <= ShowLimit) /\ file[c] = NoFile
      <4>1. Pending(c, n) = total[c] + n
        BY <3>2 DEF Pending
      <4> QED BY <1>2, <1>3, <3>2, <4>1, BashAssumption
    <3>3. CASE ~(total[c] + n <= ShowLimit) /\ file[c] # NoFile
      <4>1. Pending(c, n) = n /\ file[c] = total[c] /\ spoolPath[c]
        BY <1>3, <3>3 DEF Pending, AllKept
      <4> QED BY <1>2, <1>3, <3>3, <4>1, BashAssumption
    <3> QED BY <3>1, <3>2, <3>3
  <2>1. f \in 0 .. CommandLimit \cup {NoFile} /\ file' = [file EXCEPT ![c] = f]
    BY <1>2, <1>6, <2>0 DEF Spool
  <2> HIDE DEF f
  <2>2. /\ spoolPath' = [spoolPath EXCEPT ![c] = spoolPath[c] \/ Pending(c, n) > 0]
        /\ limitErr' = [limitErr EXCEPT ![c] = n < read]
        /\ copy' = (IF n < read THEN [copy EXCEPT ![c] = "limit"] ELSE copy)
        /\ spoolUsed' = spoolUsed + Pending(c, n) /\ spoolErr' = spoolErr
    BY <1>6 DEF Spool
  <2>3. TypeOK'
    <3>1. spoolUsed' \in 0 .. SpoolLimit
      BY <1>5, <1>6, <2>2, BashAssumption DEF Affordable
    <3>2. file' \in [Commands -> 0 .. CommandLimit \cup {NoFile}]
      BY <2>1 DEF BInv, TypeOK
    <3>3. /\ pipe' \in [Commands -> 0 .. PipeCapacity]
          /\ total' \in [Commands -> 0 .. CommandLimit]
      BY <1>2, <1>3, <1>4 DEF BInv, TypeOK
    <3> QED BY <1>4, <2>2, <3>1, <3>2, <3>3 DEF BInv, TypeOK
  <2>4. CommandInv(c)'
    <3>1. /\ pipe'[c] = pipe[c] - read /\ total'[c] = total[c] + n /\ file'[c] = f
          /\ limitErr'[c] = (n < read) /\ spoolPath'[c] = (spoolPath[c] \/ Pending(c, n) > 0)
          /\ copy'[c] = IF n < read THEN "limit" ELSE "copying"
      BY <1>3, <1>4, <2>1, <2>2 DEF BInv, TypeOK
    <3>2. AllKept(c)'
      BY <2>0, <3>1 DEF AllKept
    <3>3. CaptureInv(c)'
      BY <3>1, <3>2 DEF CaptureInv
    <3>4. PhaseInv(c)' /\ AnswerInv(c)'
      BY <1>3, <1>4, <2>2, <3>1 DEF CommandInv, PhaseInv, AnswerInv
    <3> QED BY <3>3, <3>4 DEF CommandInv
  <2>5. ASSUME NEW d \in Commands \ {c} PROVE CommandInv(d)'
    BY <1>4, <2>1, <2>2, OtherCommand DEF BInv, TypeOK
  <2> QED BY <2>3, <2>4, <2>5 DEF BInv
<1>7. CASE SpoolRefused(c)
  <2>1. TypeOK'
    <3>1. /\ pipe' \in [Commands -> 0 .. PipeCapacity]
          /\ total' \in [Commands -> 0 .. CommandLimit]
      BY <1>2, <1>3, <1>4 DEF BInv, TypeOK
    <3> QED BY <1>4, <1>7, <3>1 DEF SpoolRefused, Ends, BInv, TypeOK
  <2>2. CommandInv(c)'
    BY <1>3, <1>4, <1>7 DEF SpoolRefused, Ends, BInv, TypeOK, CommandInv, CaptureInv, PhaseInv, AnswerInv
  <2>3. ASSUME NEW d \in Commands \ {c} PROVE CommandInv(d)'
    BY <1>4, <1>7, OtherCommand DEF SpoolRefused, Ends, BInv, TypeOK
  <2> QED BY <2>1, <2>2, <2>3 DEF BInv
<1>8. CASE Affordable(c, Pending(c, n)) /\ SpoolFails(c, n)
  <2>1. TypeOK'
    <3>1. /\ pipe' \in [Commands -> 0 .. PipeCapacity]
          /\ total' \in [Commands -> 0 .. CommandLimit]
      BY <1>2, <1>3, <1>4 DEF BInv, TypeOK
    <3>2. spoolUsed' \in 0 .. SpoolLimit
      BY <1>5, <1>8, BashAssumption DEF SpoolFails, Affordable
    <3> QED BY <1>4, <1>8, <3>1, <3>2 DEF SpoolFails, Ends, BInv, TypeOK
  <2>2. CommandInv(c)'
    BY <1>3, <1>4, <1>8 DEF SpoolFails, Ends, BInv, TypeOK, CommandInv, CaptureInv, PhaseInv, AnswerInv
  <2>3. ASSUME NEW d \in Commands \ {c} PROVE CommandInv(d)'
    BY <1>4, <1>8, OtherCommand DEF SpoolFails, Ends, BInv, TypeOK
  <2> QED BY <2>1, <2>2, <2>3 DEF BInv
<1> QED BY <1>1, <1>2, <1>6, <1>7, <1>8

LEMMA EndOfFileStep ==
  ASSUME BInv, NEW c \in Commands, EndOfFile(c)
  PROVE  BInv'
<1> USE DEF EndOfFile, Ends, processVars, callVars
<1>1. TypeOK'
  BY DEF BInv, TypeOK
<1>2. CommandInv(c)'
  BY DEF BInv, TypeOK, CommandInv, CaptureInv, PhaseInv, AnswerInv, AllKept
<1>3. ASSUME NEW d \in Commands \ {c} PROVE CommandInv(d)'
  BY OtherCommand DEF BInv, TypeOK
<1> QED BY <1>1, <1>2, <1>3 DEF BInv

-----------------------------------------------------------------------------
(* The call. *)

LEMMA StartStep ==
  ASSUME BInv, NEW c \in Commands, Start(c)
  PROVE  BInv'
<1> USE DEF Start, Step, KeepOutput, captureVars
<1>1. answer' \in [Commands -> Answers]
  <2>1. \A kind \in {"canceled", "refused", "retry"} : Answered(kind, FALSE) \in Answers
    BY DEF Answers, Answered
  <2>2. \/ UNCHANGED answer
        \/ \E kind \in {"canceled", "refused", "retry"} :
             answer' = [answer EXCEPT ![c] = Answered(kind, FALSE)]
    OBVIOUS
  <2>3. answer \in [Commands -> Answers]
    BY DEF BInv, TypeOK
  <2>4. ASSUME NEW kind \in {"canceled", "refused", "retry"},
               answer' = [answer EXCEPT ![c] = Answered(kind, FALSE)]
        PROVE  answer' \in [Commands -> Answers]
    BY <2>1, <2>3, <2>4
  <2> QED BY <2>2, <2>3, <2>4
<1>2. TypeOK'
  BY <1>1 DEF BInv, TypeOK
<1>3. CommandInv(c)'
  BY DEF BInv, TypeOK, CommandInv, CaptureInv, PhaseInv, AnswerInv, AllKept, Answered
<1>4. ASSUME NEW d \in Commands \ {c} PROVE CommandInv(d)'
  BY OtherCommand, ZenonT(60) DEF BInv, TypeOK
<1> QED BY <1>2, <1>3, <1>4 DEF BInv

LEMMA CallStepStep ==
  ASSUME BInv, NEW c \in Commands, CallStep(c)
  PROVE  BInv'
<1> USE DEF Step, KeepOutput, captureVars, processVars
<1>1. CASE Select(c)
  <2>1. PICK event \in {"exit", "output_limit", "capture_failure", "timeout", "canceled"} :
          /\ event = "output_limit" => limitErr[c]
          /\ outcome' = [outcome EXCEPT ![c] = event]
          /\ call' = [call EXCEPT ![c] = IF event = "exit" THEN "draining" ELSE "killing"]
    BY <1>1 DEF Select, Event
  <2>2. TypeOK'
    BY <1>1, <2>1 DEF Select, BInv, TypeOK
  <2>3. CommandInv(c)'
    BY <1>1, <2>1 DEF Select, BInv, TypeOK, CommandInv, CaptureInv, PhaseInv, AnswerInv, AllKept
  <2>4. ASSUME NEW d \in Commands \ {c} PROVE CommandInv(d)'
    BY <1>1, <2>1, OtherCommand DEF Select, BInv, TypeOK
  <2> QED BY <2>2, <2>3, <2>4 DEF BInv
<1>2. CASE Kill(c)
  <2>1. TypeOK'
    BY <1>2 DEF Kill, BInv, TypeOK
  <2>2. CommandInv(c)'
    BY <1>2 DEF Kill, BInv, TypeOK, CommandInv, CaptureInv, PhaseInv, AnswerInv, AllKept
  <2>3. ASSUME NEW d \in Commands \ {c} PROVE CommandInv(d)'
    BY <1>2, OtherCommand DEF Kill, BInv, TypeOK
  <2> QED BY <2>1, <2>2, <2>3 DEF BInv
<1>3. CASE WaitDone(c)
  <2>1. TypeOK'
    BY <1>3 DEF WaitDone, BInv, TypeOK
  <2>2. CommandInv(c)'
    BY <1>3 DEF WaitDone, BInv, TypeOK, CommandInv, CaptureInv, PhaseInv, AnswerInv, AllKept
  <2>3. ASSUME NEW d \in Commands \ {c} PROVE CommandInv(d)'
    BY <1>3, OtherCommand DEF WaitDone, BInv, TypeOK
  <2> QED BY <2>1, <2>2, <2>3 DEF BInv
<1>4. CASE Drain(c)
  <2>1. TypeOK'
    BY <1>4, BashAssumption DEF Drain, Ends, BInv, TypeOK
  <2>2. CommandInv(c)'
    BY <1>4 DEF Drain, Ends, BInv, TypeOK, CommandInv, CaptureInv, PhaseInv, AnswerInv, AllKept
  <2>3. ASSUME NEW d \in Commands \ {c} PROVE CommandInv(d)'
    BY <1>4, OtherCommand DEF Drain, Ends, BInv, TypeOK
  <2> QED BY <2>1, <2>2, <2>3 DEF BInv
<1>5. CASE CloseCapture(c)
  <2>1. TypeOK'
    BY <1>5 DEF CloseCapture, BInv, TypeOK
  <2>2. CommandInv(c)'
    BY <1>5 DEF CloseCapture, BInv, TypeOK, CommandInv, CaptureInv, PhaseInv, AnswerInv, AllKept
  <2>3. ASSUME NEW d \in Commands \ {c} PROVE CommandInv(d)'
    BY <1>5, OtherCommand DEF CloseCapture, BInv, TypeOK
  <2> QED BY <2>1, <2>2, <2>3 DEF BInv
<1>6. CASE Answer(c)
  <2>1. /\ CaptureInv(c) /\ PhaseInv(c) /\ copy[c] # "copying" /\ call[c] = "answering"
        /\ call' = [call EXCEPT ![c] = "returned"]
        /\ copy[c] \in {"eof", "limit", "spool", "closed"}
    BY <1>6 DEF Answer, BInv, TypeOK, CommandInv, PhaseInv
  <2>2. /\ AnswerOf(c) \in Answers
        /\ copy[c] = "limit" => AnswerOf(c).kind \in {"limit", "retry", "canceled"}
        /\ AnswerOf(c).kind \in {"done", "timeout"} =>
             copy[c] \in {"eof", "closed"} /\ (AnswerOf(c).path <=> total[c] > ShowLimit)
        /\ AnswerOf(c).kind = "limit" => copy[c] = "limit"
    <3>1. CASE outcome[c] \in {"canceled", "capture_failure"}
      BY <3>1 DEF AnswerOf, Answered, Answers
    <3>2. CASE outcome[c] \notin {"canceled", "capture_failure"} /\ copy[c] = "limit"
      BY <3>2 DEF AnswerOf, Answered, Answers
    <3>3. CASE outcome[c] \notin {"canceled", "capture_failure"} /\ copy[c] # "limit"
      <4>1. /\ copy[c] \in {"eof", "closed"} /\ outcome[c] # "output_limit"
            /\ AllKept(c)
        BY <2>1, <3>3 DEF CaptureInv, PhaseInv
      <4>2. total[c] > ShowLimit <=> total[c] > ShowLimit /\ spoolPath[c]
        <5>1. total[c] \in Nat /\ ShowLimit \in Nat
          BY BashAssumption DEF BInv, TypeOK
        <5> QED BY <4>1, <5>1 DEF AllKept
      <4> QED BY <3>3, <4>1, <4>2 DEF AnswerOf, Answered, Answers
    <3> QED BY <3>1, <3>2, <3>3
  <2>3. /\ answer' = [answer EXCEPT ![c] = AnswerOf(c)]
        /\ UNCHANGED <<shell, keeper, pipe, copy, total, limitErr, spoolErr, outcome, spoolUsed>>
        /\ file' \in {file, [file EXCEPT ![c] = NoFile]}
        /\ spoolPath' \in {spoolPath, [spoolPath EXCEPT ![c] = FALSE]}
        /\ IF AnswerOf(c).kind = "limit" THEN file' = [file EXCEPT ![c] = NoFile]
           ELSE UNCHANGED <<file, spoolPath>>
    BY <1>6 DEF Answer
  <2> HIDE DEF AnswerOf
  <2>4. TypeOK'
    BY <2>1, <2>2, <2>3 DEF BInv, TypeOK
  <2>5. CommandInv(c)'
    BY <2>1, <2>2, <2>3 DEF BInv, TypeOK, CommandInv, CaptureInv, PhaseInv, AnswerInv, AllKept
  <2>6. ASSUME NEW d \in Commands \ {c} PROVE CommandInv(d)'
    BY <2>1, <2>3, OtherCommand DEF BInv, TypeOK
  <2> QED BY <2>4, <2>5, <2>6 DEF BInv
<1> QED BY <1>1, <1>2, <1>3, <1>4, <1>5, <1>6 DEF CallStep

-----------------------------------------------------------------------------

LEMMA BInvPreserved == BInv /\ [Next]_vars => BInv'
<1> SUFFICES ASSUME BInv, [Next]_vars PROVE BInv'
  OBVIOUS
<1>1. ASSUME NEW c \in Commands, Process(c) \/ Copy(c) \/ Start(c) \/ CallStep(c) PROVE BInv'
  BY <1>1, ProcessStep, WriteStep, EndOfFileStep, StartStep, CallStepStep DEF Copy
<1>2. CASE SpoolScript
  <2>1. spoolUsed' \in 0 .. SpoolLimit
    BY <1>2, BashAssumption DEF SpoolScript, BInv, TypeOK
  <2>2. TypeOK'
    BY <1>2, <2>1 DEF SpoolScript, BInv, TypeOK, captureVars, processVars, callVars
  <2>3. \A d \in Commands : CommandInv(d)'
    BY <1>2, OtherCommand DEF SpoolScript, BInv, captureVars, processVars, callVars
  <2> QED BY <2>2, <2>3 DEF BInv
<1>3. CASE ContextDone
  <2>1. TypeOK'
    BY <1>3 DEF ContextDone, BInv, TypeOK, captureVars, processVars, callVars
  <2>2. \A d \in Commands : CommandInv(d)'
    BY <1>3, OtherCommand DEF ContextDone, BInv, captureVars, processVars, callVars
  <2> QED BY <2>1, <2>2 DEF BInv
<1>4. CASE UNCHANGED vars
  <2>1. TypeOK'
    BY <1>4 DEF vars, BInv, TypeOK, captureVars, processVars, callVars
  <2>2. \A d \in Commands : CommandInv(d)'
    BY <1>4, OtherCommand DEF vars, BInv, captureVars, processVars, callVars
  <2> QED BY <2>1, <2>2 DEF BInv
<1> QED BY <1>1, <1>2, <1>3, <1>4 DEF Next

LEMMA BashInvariance == Spec => []BInv
BY BInvInit, BInvPreserved, PTL DEF Spec

\* The types, and with them the allowance of a review: spoolUsed never passes
\* MaxReviewSpoolBytes, whatever commands and the script write at once.
THEOREM BashTypeCorrect == Spec => []TypeOK
<1>1. BInv => TypeOK
  BY DEF BInv
<1> QED BY <1>1, BashInvariance, PTL

\* Whichever event callBash took, a command whose output reached a limit is not
\* answered as one that ended, and its incomplete file is gone.
THEOREM LimitsAreReported == Spec => []LimitIsReported
<1>1. BInv => LimitIsReported
  BY DEF BInv, CommandInv, AnswerInv, LimitIsReported
<1> QED BY <1>1, BashInvariance, PTL

\* Truncated output of a command that ended or timed out is, complete, in the
\* file that its answer names.
THEOREM TruncatedOutputsAreKept == Spec => []TruncatedOutputIsInFile
<1>1. BInv => TruncatedOutputIsInFile
  <2> SUFFICES ASSUME BInv, NEW c \in Commands, answer[c].kind \in {"done", "timeout"}
               PROVE  /\ answer[c].path <=> total[c] > ShowLimit
                      /\ answer[c].path => file[c] = total[c]
    BY DEF TruncatedOutputIsInFile
  <2>1. AllKept(c) /\ (answer[c].path <=> total[c] > ShowLimit)
    BY DEF BInv, CommandInv, AnswerInv, CaptureInv
  <2>2. total[c] > ShowLimit => ~(total[c] <= ShowLimit)
    BY BashAssumption DEF BInv, TypeOK
  <2> QED BY <2>1, <2>2 DEF AllKept
<1> QED BY <1>1, BashInvariance, PTL


-----------------------------------------------------------------------------
(* The output files and the allowance of the review. *)

\* Every set of numbers has a least one: the form of induction used here.
LEMMA LeastNumber ==
  ASSUME NEW T \in SUBSET Nat, T # {} PROVE \E x \in T : \A y \in T : x <= y
<1>1. PICK x \in T : \A y \in T : ~ (<<y, x>> \in OpToRel(<, Nat))
  BY NatLessThanWellFounded, WFMin, Zenon
<1>2. \A y \in T : ~(y < x)
  BY <1>1 DEF OpToRel
<1> QED BY <1>2

\* The sums that FoldFunction computes, of each set of files in a domain that is
\* closed under the removal of a file.
First(s) == CHOOSE c \in s : TRUE
AreTallies(sum, fl, D) ==
  sum = [s \in D |-> IF s = {} THEN 0 ELSE Held(fl[First(s)]) + sum[s \ {First(s)}]]

Files == [Commands -> Nat \cup {NoFile}]
UpTo(n) == {s \in SUBSET Commands : Cardinality(s) <= n}

LEMMA SubsetsAreFinite ==
  ASSUME NEW s \in SUBSET Commands
  PROVE  /\ IsFiniteSet(s) /\ Cardinality(s) \in Nat /\ Cardinality(s) <= Cardinality(Commands)
         /\ s # {} => First(s) \in s
         /\ Cardinality(s) = 0 <=> s = {}
         /\ \A c \in s : s \ {c} \in SUBSET Commands /\ Cardinality(s \ {c}) = Cardinality(s) - 1
<1>1. IsFiniteSet(Commands)
  BY BashAssumption
<1>2. IsFiniteSet(s) /\ Cardinality(s) <= Cardinality(Commands)
  BY <1>1, FS_Subset
<1>3. Cardinality(s) \in Nat /\ (Cardinality(s) = 0 <=> s = {})
  BY <1>2, FS_CardinalityType, FS_EmptySet
<1>4. \A c \in s : s \ {c} \in SUBSET Commands /\ Cardinality(s \ {c}) = Cardinality(s) - 1
  BY <1>2, FS_RemoveElement
<1> QED BY <1>2, <1>3, <1>4 DEF First

LEMMA HeldIsNumber ==
  ASSUME NEW fl \in Files, NEW c \in Commands PROVE Held(fl[c]) \in Nat
BY DEF Files, Held

\* They exist, for sets of at most n files by induction on n.
LEMMA TalliesExist ==
  ASSUME NEW fl \in Files
  PROVE  \E sum \in [SUBSET Commands -> Nat] : AreTallies(sum, fl, SUBSET Commands)
<1> DEFINE Has(n) == \E sum \in [UpTo(n) -> Nat] : AreTallies(sum, fl, UpTo(n))
           T == {n \in Nat : ~Has(n)}
<1>1. \A n \in Nat : Has(n)
  <2> SUFFICES ASSUME T # {} PROVE FALSE
    OBVIOUS
  <2>1. T \in SUBSET Nat
    OBVIOUS
  <2>2. PICK m \in T : \A y \in T : m <= y
    BY <2>1, LeastNumber, Zenon
  <2>3. m \in Nat /\ ~Has(m)
    OBVIOUS
  <2>4. m # 0
    <3> SUFFICES ASSUME m = 0 PROVE Has(m)
      BY <2>3
    <3> DEFINE sum == [s \in UpTo(0) |-> 0]
    <3>1. \A s \in UpTo(0) : s = {}
      BY SubsetsAreFinite DEF UpTo
    <3>2. AreTallies(sum, fl, UpTo(0)) /\ sum \in [UpTo(0) -> Nat]
      BY <3>1 DEF AreTallies
    <3> QED BY <3>2
  <2>5. m - 1 \in Nat /\ Has(m - 1)
    <3>1. m - 1 \in Nat /\ ~(m <= m - 1)
      BY <2>3, <2>4
    <3> QED BY <2>2, <3>1
  <2>6. PICK f \in [UpTo(m - 1) -> Nat] : AreTallies(f, fl, UpTo(m - 1))
    BY <2>5
  <2>7. \A s \in UpTo(m - 1) :
          f[s] = IF s = {} THEN 0 ELSE Held(fl[First(s)]) + f[s \ {First(s)}]
    BY <2>6 DEF AreTallies
  <2> DEFINE g == [s \in UpTo(m) |-> IF s = {} THEN 0 ELSE Held(fl[First(s)]) + f[s \ {First(s)}]]
  <2>8. \A s \in UpTo(m) : s # {} =>
          First(s) \in Commands /\ s \ {First(s)} \in UpTo(m - 1) /\ s \ {First(s)} \in UpTo(m)
    BY <2>3, SubsetsAreFinite DEF UpTo
  <2>9. g \in [UpTo(m) -> Nat]
    <3> SUFFICES ASSUME NEW s \in UpTo(m), s # {}
                 PROVE  Held(fl[First(s)]) + f[s \ {First(s)}] \in Nat
      OBVIOUS
    <3>1. Held(fl[First(s)]) \in Nat /\ f[s \ {First(s)}] \in Nat
      BY <2>8, HeldIsNumber
    <3> QED BY <3>1
  <2>10. \A s \in UpTo(m - 1) : s \in UpTo(m) /\ g[s] = f[s]
    <3>1. \A s \in UpTo(m - 1) : s \in UpTo(m)
      BY <2>3, SubsetsAreFinite DEF UpTo
    <3> QED BY <2>7, <3>1
  <2>11. AreTallies(g, fl, UpTo(m))
    BY <2>8, <2>10 DEF AreTallies
  <2> QED BY <2>3, <2>9, <2>11
<1>2. UpTo(Cardinality(Commands)) = SUBSET Commands
  BY SubsetsAreFinite DEF UpTo
<1>3. Cardinality(Commands) \in Nat
  BY SubsetsAreFinite
<1> QED BY <1>1, <1>2, <1>3

Tallies(fl) == CHOOSE sum : AreTallies(sum, fl, SUBSET Commands)

LEMMA TalliesAreTallies ==
  ASSUME NEW fl \in Files
  PROVE  /\ Tallies(fl) \in [SUBSET Commands -> Nat]
         /\ Tallies(fl)[{}] = 0
         /\ \A s \in SUBSET Commands : s # {} =>
              Tallies(fl)[s] = Held(fl[First(s)]) + Tallies(fl)[s \ {First(s)}]
<1> DEFINE h == Tallies(fl)
<1>1. AreTallies(h, fl, SUBSET Commands)
  BY TalliesExist DEF Tallies
<1>2. h = [s \in SUBSET Commands |-> IF s = {} THEN 0 ELSE Held(fl[First(s)]) + h[s \ {First(s)}]]
  BY <1>1 DEF AreTallies
<1> HIDE DEF h
<1>3. /\ h[{}] = 0
      /\ \A s \in SUBSET Commands : s # {} => h[s] = Held(fl[First(s)]) + h[s \ {First(s)}]
  BY <1>2
<1>4. \A s \in SUBSET Commands : h[s] \in Nat
  <2> DEFINE T == {n \in Nat : \E s \in SUBSET Commands : Cardinality(s) = n /\ h[s] \notin Nat}
  <2> SUFFICES ASSUME T # {} PROVE FALSE
    BY SubsetsAreFinite
  <2>1. T \in SUBSET Nat
    OBVIOUS
  <2>2. PICK m \in T : \A y \in T : m <= y
    BY <2>1, LeastNumber, Zenon
  <2>3. PICK s \in SUBSET Commands : Cardinality(s) = m /\ h[s] \notin Nat
    OBVIOUS
  <2>4. s # {} /\ First(s) \in s /\ s \ {First(s)} \in SUBSET Commands
    BY <1>3, <2>3, SubsetsAreFinite
  <2>5. Cardinality(s \ {First(s)}) = m - 1 /\ m - 1 \in Nat /\ ~(m <= m - 1)
    BY <2>3, <2>4, SubsetsAreFinite
  <2>6. h[s \ {First(s)}] \in Nat
    BY <2>2, <2>4, <2>5
  <2>7. Held(fl[First(s)]) \in Nat
    BY <2>4, HeldIsNumber
  <2>8. h[s] = Held(fl[First(s)]) + h[s \ {First(s)}]
    BY <1>3, <2>4
  <2> QED BY <2>3, <2>6, <2>7, <2>8
<1>5. h \in [SUBSET Commands -> Nat]
  BY <1>2, <1>4
<1> QED BY <1>3, <1>5 DEF h

\* The order in which the files are counted does not matter.
LEMMA TallyOfOne ==
  ASSUME NEW fl \in Files, NEW s \in SUBSET Commands, NEW c \in s
  PROVE  Tallies(fl)[s] = Held(fl[c]) + Tallies(fl)[s \ {c}]
<1> DEFINE h == Tallies(fl)
           Good(u) == \A d \in u : h[u] = Held(fl[d]) + h[u \ {d}]
           T == {n \in Nat : \E u \in SUBSET Commands : Cardinality(u) = n /\ ~Good(u)}
<1>1. /\ h \in [SUBSET Commands -> Nat] /\ h[{}] = 0
      /\ \A u \in SUBSET Commands : u # {} => h[u] = Held(fl[First(u)]) + h[u \ {First(u)}]
  BY TalliesAreTallies
<1> HIDE DEF h
<1>2. T = {}
  <2> SUFFICES ASSUME T # {} PROVE FALSE
    OBVIOUS
  <2>1. T \in SUBSET Nat
    OBVIOUS
  <2>2. PICK m \in T : \A y \in T : m <= y
    BY <2>1, LeastNumber, Zenon
  <2>3. PICK u \in SUBSET Commands : Cardinality(u) = m /\ ~Good(u)
    OBVIOUS
  <2>4. PICK d \in u : h[u] # Held(fl[d]) + h[u \ {d}]
    BY <2>3
  <2>5. /\ First(u) \in u /\ h[u] = Held(fl[First(u)]) + h[u \ {First(u)}] /\ d # First(u)
        /\ First(u) \in Commands /\ d \in Commands
    BY <1>1, <2>3, <2>4, SubsetsAreFinite
  <2>6. \A x \in u : u \ {x} \in SUBSET Commands /\ Good(u \ {x})
    <3> SUFFICES ASSUME NEW x \in u PROVE u \ {x} \in SUBSET Commands /\ Good(u \ {x})
      OBVIOUS
    <3>1. /\ u \ {x} \in SUBSET Commands /\ Cardinality(u \ {x}) = m - 1
          /\ m - 1 \in Nat /\ ~(m <= m - 1)
      BY <2>3, SubsetsAreFinite
    <3> QED BY <2>2, <3>1
  <2>7. /\ h[u \ {First(u)}] = Held(fl[d]) + h[(u \ {First(u)}) \ {d}]
        /\ h[u \ {d}] = Held(fl[First(u)]) + h[(u \ {d}) \ {First(u)}]
    BY <2>5, <2>6
  <2>8. (u \ {First(u)}) \ {d} = (u \ {d}) \ {First(u)}
    OBVIOUS
  <2>9. Held(fl[d]) \in Nat /\ Held(fl[First(u)]) \in Nat /\ h[(u \ {d}) \ {First(u)}] \in Nat
    BY <1>1, <2>5, HeldIsNumber
  <2> DEFINE x == Held(fl[First(u)])
             y == Held(fl[d])
             z == h[(u \ {d}) \ {First(u)}]
  <2>10. {x, y, z} \subseteq Nat /\ h[u] = x + (y + z) /\ h[u \ {d}] = x + z
    BY <2>5, <2>7, <2>8, <2>9
  <2> HIDE DEF x, y, z
  <2>11. h[u] = y + h[u \ {d}]
    BY <2>10
  <2> QED BY <2>4, <2>11 DEF y
<1>3. Good(s)
  BY <1>2, SubsetsAreFinite
<1> QED BY <1>3 DEF h

\* Nor do the files that are not counted.
LEMMA TallyOfOthers ==
  ASSUME NEW fl \in Files, NEW gl \in Files, NEW s \in SUBSET Commands,
         \A c \in s : gl[c] = fl[c]
  PROVE  Tallies(gl)[s] = Tallies(fl)[s]
<1> DEFINE h == Tallies(fl)
           k == Tallies(gl)
           T == {n \in Nat : \E u \in SUBSET s : Cardinality(u) = n /\ h[u] # k[u]}
<1>1. /\ h[{}] = 0 /\ k[{}] = 0
      /\ \A u \in SUBSET s : u # {} =>
           /\ h[u] = Held(fl[First(u)]) + h[u \ {First(u)}]
           /\ k[u] = Held(gl[First(u)]) + k[u \ {First(u)}]
  BY TalliesAreTallies
<1> HIDE DEF h, k
<1>2. T = {}
  <2> SUFFICES ASSUME T # {} PROVE FALSE
    OBVIOUS
  <2>1. T \in SUBSET Nat
    OBVIOUS
  <2>2. PICK m \in T : \A y \in T : m <= y
    BY <2>1, LeastNumber, Zenon
  <2>3. PICK u \in SUBSET s : Cardinality(u) = m /\ h[u] # k[u]
    OBVIOUS
  <2>4. u # {} /\ First(u) \in u /\ u \ {First(u)} \in SUBSET s
    BY <1>1, <2>3, SubsetsAreFinite
  <2>5. Cardinality(u \ {First(u)}) = m - 1 /\ m - 1 \in Nat /\ ~(m <= m - 1)
    BY <2>3, <2>4, SubsetsAreFinite
  <2>6. h[u \ {First(u)}] = k[u \ {First(u)}]
    BY <2>2, <2>4, <2>5
  <2> QED BY <1>1, <2>3, <2>4, <2>6
<1>3. h[s] = k[s]
  BY <1>2, SubsetsAreFinite
<1> QED BY <1>3 DEF h, k


\* HeldIn is the sum of all files.
LEMMA HeldIsTally ==
  ASSUME NEW fl \in Files
  PROVE  HeldIn(fl) = Tallies(fl)[Commands]
<1>1. DOMAIN fl = Commands
  BY DEF Files
<1> QED BY <1>1 DEF HeldIn, FoldFunction, FoldFunctionOnSet, MapThenFoldSet, Tallies, AreTallies, First

\* A file is written to, or removed.
LEMMA OneFileChanges ==
  ASSUME file \in Files, NEW c \in Commands, NEW v \in Nat \cup {NoFile},
         file' = [file EXCEPT ![c] = v]
  PROVE  /\ HeldIn(file) \in Nat /\ HeldIn(file') \in Nat
         /\ HeldIn(file') + Held(file[c]) = HeldIn(file) + Held(v)
<1> DEFINE fl == file
           gl == [fl EXCEPT ![c] = v]
           rest == Commands \ {c}
<1>1. fl \in Files /\ gl \in Files /\ gl[c] = v /\ \A d \in rest : gl[d] = fl[d]
  BY DEF Files
<1>2. HeldIn(file) = Tallies(fl)[Commands] /\ HeldIn(file') = Tallies(gl)[Commands]
  BY <1>1, HeldIsTally
<1>3. /\ Tallies(fl)[Commands] = Held(fl[c]) + Tallies(fl)[rest]
      /\ Tallies(gl)[Commands] = Held(v) + Tallies(gl)[rest]
  <2>1. Commands \in SUBSET Commands
    OBVIOUS
  <2>2. Tallies(gl)[Commands] = Held(gl[c]) + Tallies(gl)[rest]
    BY <1>1, <2>1, TallyOfOne, Zenon
  <2>3. Tallies(fl)[Commands] = Held(fl[c]) + Tallies(fl)[rest]
    BY <1>1, <2>1, TallyOfOne, Zenon
  <2> QED BY <1>1, <2>2, <2>3, Zenon
<1>4. Tallies(gl)[rest] = Tallies(fl)[rest]
  BY <1>1, TallyOfOthers
<1>5. Tallies(fl)[rest] \in Nat /\ Held(fl[c]) \in Nat /\ Held(v) \in Nat
  BY <1>1, TalliesAreTallies, HeldIsNumber
<1> QED BY <1>2, <1>3, <1>4, <1>5

LEMMA NoFilesHoldNothing ==
  ASSUME file = [c \in Commands |-> NoFile] PROVE HeldIn(file) = 0
<1> DEFINE h == Tallies(file)
           T == {n \in Nat : \E u \in SUBSET Commands : Cardinality(u) = n /\ h[u] # 0}
<1>1. file \in Files /\ \A c \in Commands : Held(file[c]) = 0
  BY DEF Files, Held
<1>2. /\ h[{}] = 0
      /\ \A u \in SUBSET Commands : u # {} => h[u] = Held(file[First(u)]) + h[u \ {First(u)}]
  BY <1>1, TalliesAreTallies
<1> HIDE DEF h
<1>3. T = {}
  <2> SUFFICES ASSUME T # {} PROVE FALSE
    OBVIOUS
  <2>1. T \in SUBSET Nat
    OBVIOUS
  <2>2. PICK m \in T : \A y \in T : m <= y
    BY <2>1, LeastNumber, Zenon
  <2>3. PICK u \in SUBSET Commands : Cardinality(u) = m /\ h[u] # 0
    OBVIOUS
  <2>4. u # {} /\ First(u) \in u /\ u \ {First(u)} \in SUBSET Commands
    BY <1>2, <2>3, SubsetsAreFinite
  <2>5. Cardinality(u \ {First(u)}) = m - 1 /\ m - 1 \in Nat /\ ~(m <= m - 1)
    BY <2>3, <2>4, SubsetsAreFinite
  <2>6. h[u \ {First(u)}] = 0 /\ Held(file[First(u)]) = 0
    BY <1>1, <2>2, <2>4, <2>5
  <2>7. h[u] = 0 + 0
    BY <1>2, <2>4, <2>6
  <2> QED BY <2>3, <2>7
<1>4. h[Commands] = 0
  BY <1>3, SubsetsAreFinite
<1> QED BY <1>1, <1>4, HeldIsTally DEF h

\* What the files hold, and the script's file.  The files may hold less than
\* was charged, never more.
ScriptFileOK == scriptFile \in Nat \cup {NoFile}
Covered == Held(scriptFile) + HeldIn(file) <= spoolUsed
SpoolInv == ScriptFileOK /\ Covered

LEMMA FilesAreTyped ==
  ASSUME BInv, ScriptFileOK
  PROVE  /\ file \in Files /\ spoolUsed \in Nat
         /\ HeldIn(file) \in Nat /\ Held(scriptFile) \in Nat
<1>1. file \in Files /\ spoolUsed \in Nat
  BY BashAssumption DEF BInv, TypeOK, Files
<1>2. HeldIn(file) \in Nat
  BY <1>1, HeldIsTally, TalliesAreTallies
<1>3. Held(scriptFile) \in Nat
  BY DEF ScriptFileOK, Held
<1> QED BY <1>1, <1>2, <1>3

\* A step that writes to no file and gives nothing back.
LEMMA NoFileChanges ==
  ASSUME BInv, SpoolInv, UNCHANGED <<file, scriptFile>>, spoolUsed' \in Nat, spoolUsed <= spoolUsed'
  PROVE  SpoolInv'
<1>1. HeldIn(file) \in Nat /\ Held(scriptFile) \in Nat /\ spoolUsed \in Nat
  BY FilesAreTyped DEF SpoolInv
<1>2. HeldIn(file') = HeldIn(file) /\ Held(scriptFile)' = Held(scriptFile)
  BY DEF Held
<1> QED BY <1>1, <1>2 DEF SpoolInv, ScriptFileOK, Covered

\* A step that writes to one file what it charges, or removes it.
LEMMA FileIsCharged ==
  ASSUME BInv, SpoolInv, UNCHANGED scriptFile, NEW c \in Commands, NEW n \in Nat,
         NEW v \in Nat \cup {NoFile}, Held(v) <= Held(file[c]) + n,
         file' = [file EXCEPT ![c] = v], spoolUsed' = spoolUsed + n
  PROVE  SpoolInv'
<1>1. /\ file \in Files /\ HeldIn(file) \in Nat /\ Held(scriptFile) \in Nat /\ spoolUsed \in Nat
      /\ Held(file[c]) \in Nat /\ Held(v) \in Nat
  BY FilesAreTyped, HeldIsNumber DEF SpoolInv, Held
<1>2. HeldIn(file') \in Nat /\ HeldIn(file') + Held(file[c]) = HeldIn(file) + Held(v)
  BY <1>1, OneFileChanges
<1>3. Held(scriptFile)' = Held(scriptFile)
  BY DEF Held
<1>4. Covered'
  <2> DEFINE a == HeldIn(file)
             b == HeldIn(file')
             w == Held(v)
             o == Held(file[c])
             q == Held(scriptFile)
  <2>1. {a, b, w, o, q} \subseteq Nat /\ b + o = a + w /\ w <= o + n /\ q + a <= spoolUsed
    BY <1>1, <1>2 DEF SpoolInv, Covered
  <2> HIDE DEF a, b, w, o, q
  <2>2. q + b <= spoolUsed + n
    BY <1>1, <2>1
  <2> QED BY <1>3, <2>2 DEF Covered, b, q
<1> QED BY <1>4 DEF SpoolInv, ScriptFileOK

LEMMA WriteIsCharged ==
  ASSUME BInv, SpoolInv, NEW c \in Commands, Write(c)
  PROVE  SpoolInv'
<1>1. PICK read \in 1 .. pipe[c], n \in Int :
        /\ n = IF total[c] + read > CommandLimit THEN CommandLimit - total[c] ELSE read
        /\ \/ Spool(c, n, n < read)
           \/ SpoolRefused(c)
           \/ SpoolFails(c, n)
  <2>1. pipe[c] \in Nat /\ total[c] \in 0 .. CommandLimit /\ CommandLimit \in Nat
    BY BashAssumption DEF BInv, TypeOK
  <2> QED BY <2>1 DEF Write
<1>2. total[c] \in Nat /\ n \in Nat /\ spoolUsed \in Nat /\ file \in Files
  BY <1>1, BashAssumption, FilesAreTyped DEF BInv, TypeOK, SpoolInv
<1>3. Pending(c, n) \in Nat /\ Held(file[c]) \in Nat
  BY <1>2, HeldIsNumber DEF Pending
<1>4. UNCHANGED scriptFile
  BY DEF Write
<1>5. CASE Spool(c, n, n < read)
  <2> DEFINE v == IF Pending(c, n) = 0 THEN file[c] ELSE Held(file[c]) + Pending(c, n)
  <2>1. file' = [file EXCEPT ![c] = v] /\ spoolUsed' = spoolUsed + Pending(c, n)
    BY <1>5 DEF Spool, Held
  <2>2. v \in Nat \cup {NoFile} /\ Held(v) <= Held(file[c]) + Pending(c, n)
    BY <1>2, <1>3, BashAssumption DEF Files, Held
  <2> QED BY <1>3, <1>4, <2>1, <2>2, FileIsCharged
<1>6. CASE SpoolRefused(c)
  BY <1>2, <1>4, <1>6, NoFileChanges DEF SpoolRefused
<1>7. CASE SpoolFails(c, n)
  <2>1. spoolUsed' \in Nat /\ spoolUsed <= spoolUsed' /\ UNCHANGED file
    BY <1>2, <1>3, <1>7 DEF SpoolFails
  <2> QED BY <1>4, <2>1, NoFileChanges
<1> QED BY <1>1, <1>5, <1>6, <1>7

LEMMA AnswerFrees ==
  ASSUME BInv, SpoolInv, NEW c \in Commands, Answer(c)
  PROVE  SpoolInv'
<1>1. file \in Files /\ spoolUsed \in Nat /\ UNCHANGED <<spoolUsed, scriptFile>>
  BY FilesAreTyped DEF SpoolInv, Answer
<1>2. CASE UNCHANGED file
  BY <1>1, <1>2, NoFileChanges
<1>3. CASE file' = [file EXCEPT ![c] = NoFile]
  <2>1. Held(NoFile) = 0 /\ Held(file[c]) \in Nat /\ spoolUsed' = spoolUsed + 0
    BY <1>1, HeldIsNumber DEF Held
  <2>2. 0 \in Nat /\ NoFile \in Nat \cup {NoFile} /\ Held(NoFile) <= Held(file[c]) + 0
    BY <2>1
  <2> QED BY <1>1, <1>3, <2>1, <2>2, FileIsCharged
<1> QED BY <1>2, <1>3 DEF Answer

LEMMA ScriptIsCharged ==
  ASSUME BInv, SpoolInv, SpoolScript
  PROVE  SpoolInv'
<1>1. /\ spoolUsed \in Nat /\ HeldIn(file) \in Nat /\ scriptFile = NoFile /\ HeldIn(file) <= spoolUsed
      /\ UNCHANGED file
  BY FilesAreTyped DEF SpoolInv, Covered, SpoolScript, Held
<1>2. CASE UNCHANGED <<spoolUsed, scriptFile>>
  BY <1>1, <1>2, NoFileChanges
<1>3. ASSUME NEW n \in ShowLimit + 1 .. CommandLimit, spoolUsed' = spoolUsed + n,
             scriptFile' \in {n, NoFile}
      PROVE  SpoolInv'
  <2>1. n \in Nat /\ HeldIn(file') = HeldIn(file)
    BY <1>1, BashAssumption
  <2>2. Held(scriptFile)' \in {n, 0}
    BY <1>3 DEF Held
  <2> QED BY <1>1, <1>3, <2>1, <2>2 DEF SpoolInv, ScriptFileOK, Covered
<1> QED BY <1>2, <1>3 DEF SpoolScript

\* The output files of a review never hold more than its allowance, however
\* many commands write at once: writeSpool charges a write before it is made.
THEOREM FilesStayWithinAllowance == Spec => []SpoolWithinAllowance
<1>1. Init => SpoolInv
  BY NoFilesHoldNothing DEF Init, SpoolInv, ScriptFileOK, Covered, Held
<1>2. BInv /\ SpoolInv /\ [Next]_vars => SpoolInv'
  <2> SUFFICES ASSUME BInv, SpoolInv, [Next]_vars PROVE SpoolInv'
    OBVIOUS
  <2>1. spoolUsed \in Nat /\ spoolUsed <= spoolUsed
    BY FilesAreTyped DEF SpoolInv
  <2>2. ASSUME UNCHANGED <<file, scriptFile, spoolUsed>> PROVE SpoolInv'
    BY <2>1, <2>2, NoFileChanges
  <2>3. ASSUME NEW c \in Commands, Process(c) \/ EndOfFile(c) \/ Start(c) PROVE SpoolInv'
    BY <2>2, <2>3 DEF Process, Output, Spawn, Leave, Exit, EndOfFile, Start, KeepOutput
  <2>4. ASSUME NEW c \in Commands, CallStep(c) PROVE SpoolInv'
    BY <2>2, <2>4, AnswerFrees
       DEF CallStep, Select, Kill, WaitDone, Drain, CloseCapture, KeepOutput
  <2>5. ASSUME NEW c \in Commands, Write(c) PROVE SpoolInv'
    BY <2>5, WriteIsCharged
  <2>6. CASE SpoolScript
    BY <2>6, ScriptIsCharged
  <2>7. CASE ContextDone \/ UNCHANGED vars
    BY <2>2, <2>7 DEF ContextDone, vars
  <2> QED BY <2>3, <2>4, <2>5, <2>6, <2>7 DEF Next, Copy
<1>3. BInv /\ SpoolInv => SpoolWithinAllowance
  BY BashAssumption DEF BInv, TypeOK, SpoolInv, Covered, SpoolWithinAllowance
<1> QED BY <1>1, <1>2, <1>3, BashInvariance, PTL DEF Spec
=============================================================================
