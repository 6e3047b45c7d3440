------------------------------ MODULE ReviewLoop ------------------------------
(***************************************************************************)
(* GeminiReviewer.Review: the conversation with the model.  Each turn the  *)
(* model either gives the final review or asks for tool calls, which are   *)
(* dispatched in order, checked, charged to the evidence budget and        *)
(* answered.  A codemode call is the composition with module Codemode,     *)
(* whose nested calls are charged to the same budget.                      *)
(*                                                                         *)
(* The texts are abstracted: a call is its tool, a response its size (0    *)
(* for the notice that the limit was exceeded), the final review whether   *)
(* it is valid.                                                            *)
(***************************************************************************)
EXTENDS Codemode

CONSTANTS
  MaxTurnCalls,  \* bound: calls the model makes in one turn
  MaxScripts     \* bound: codemode calls whose script runs, in one review

ASSUME ReviewLoopAssumption ==
  MaxTurnCalls \in Nat \ {0} /\ MaxScripts \in Nat

VARIABLES
  pc,         \* generate, dispatch, tool, script or returned
  contents,   \* the conversation after the prompt
  calls,      \* the calls of the present turn
  responses,  \* and the responses to the first of them
  turnLimit,  \* the local variable exhausted: this turn hit the limit
  finalOnly,  \* the next generation is offered no tools
  stopped,    \* is the context given to Review done?  (parent: reviewCtx)
  scripts,    \* how many scripts ran
  outcome     \* what Review returns

turnVars == <<contents, calls, responses, turnLimit, finalOnly>>
loopVars == <<pc, turnVars, stopped, scripts, outcome>>
vars == <<loopVars, codeVars>>

Tools == {"plain", "codemode"}   \* read and bash are alike here
Turns == UNION {[1 .. n -> Tools \cup {"undeclared"}] : n \in 1 .. MaxTurnCalls}

ModelTurn(c) == [role |-> "model", parts |-> c]
UserTurn(r) == [role |-> "user", parts |-> r]
Response(call, size) == [call |-> call, size |-> size]
LimitResponse(call) == Response(call, 0)

Outcomes == {"none", "result", "cancelled", "review_timeout", "retry", "failed"}

\* A snapshot with a forbidden value is refused before the loop.
Init ==
  /\ InitCode
  /\ \/ pc = "generate" /\ outcome = "none"
     \/ pc = "returned" /\ outcome = "failed"
  /\ contents = << >> /\ calls = << >> /\ responses = << >>
  /\ turnLimit = FALSE /\ finalOnly = FALSE
  /\ stopped = FALSE /\ scripts = 0

Return(res) == pc' = "returned" /\ outcome' = res

\* Mutant: the deadline of the review is looked at first.
ContextErrorDeadlineFirst(err) ==
  IF parent THEN "review_timeout" ELSE IF stopped THEN "cancelled" ELSE err

\* reviewContextError: the caller's context, then the review's deadline, then
\* the error itself.
ContextError(err) ==
  IF stopped THEN "cancelled" ELSE IF parent THEN "review_timeout" ELSE err

\* How the parts of a turn may end, as failure classes.
ClassifyGeminiError == {"retry", "failed"}
FunctionResponseErrors == {"retry", "failed"}   \* malformed, or a forbidden value
DecodeAndValidate == {"result", "retry"}        \* of the final review

-----------------------------------------------------------------------------
(* A generation. *)

\* The request fails: also on its own deadline, which counts as a retry.
GenerateFails ==
  /\ pc = "generate"
  /\ \E err \in ClassifyGeminiError : Return(ContextError(err))
  /\ UNCHANGED <<turnVars, stopped, scripts, codeVars>>

\* An incomplete or unreadable turn, or a final review: valid or not.
GenerateEnds ==
  /\ pc = "generate"
  /\ \E res \in DecodeAndValidate : Return(res)
  /\ UNCHANGED <<turnVars, stopped, scripts, codeVars>>

\* Mutant: calls made in spite of final-only mode are dispatched.
GenerateCallsAlways(turn) ==
  /\ pc = "generate"
  /\ contents' = Append(contents, ModelTurn(turn))
  /\ IF \E k \in DOMAIN turn : turn[k] \notin Tools
     THEN Return("retry") /\ UNCHANGED <<calls, turnLimit>>
     ELSE /\ pc' = "dispatch" /\ calls' = turn /\ turnLimit' = FALSE
          /\ UNCHANGED outcome
  /\ UNCHANGED <<responses, finalOnly, stopped, scripts, codeVars>>

\* The model asks for tools.  Every call of the turn is validated before the
\* first is dispatched.
GenerateCalls(turn) ==
  /\ pc = "generate"
  /\ contents' = Append(contents, ModelTurn(turn))
  /\ IF finalOnly \/ \E k \in DOMAIN turn : turn[k] \notin Tools
     THEN Return("retry") /\ UNCHANGED <<calls, turnLimit>>
     ELSE /\ pc' = "dispatch" /\ calls' = turn /\ turnLimit' = FALSE
          /\ UNCHANGED outcome
  /\ UNCHANGED <<responses, finalOnly, stopped, scripts, codeVars>>

-----------------------------------------------------------------------------
(* Dispatch of the calls of a turn, in order. *)

NextCall == Len(responses) + 1

AnswerWithLimit ==
  /\ pc = "dispatch" /\ NextCall \in DOMAIN calls
  /\ turnLimit
  /\ responses' = Append(responses, LimitResponse(calls[NextCall]))
  /\ UNCHANGED <<pc, contents, calls, turnLimit, finalOnly, stopped, scripts, outcome, codeVars>>

\* broker.Call, or a codemode call that ends before its script runs.
CallTool ==
  /\ pc = "dispatch" /\ NextCall \in DOMAIN calls
  /\ ~turnLimit
  /\ pc' = "tool"
  /\ UNCHANGED <<turnVars, stopped, scripts, outcome, codeVars>>

CallScript ==
  /\ pc = "dispatch" /\ NextCall \in DOMAIN calls
  /\ ~turnLimit
  /\ calls[NextCall] = "codemode"
  /\ scripts < MaxScripts
  /\ pc' = "script" /\ scripts' = scripts + 1
  /\ StartCode
  /\ UNCHANGED <<turnVars, stopped, outcome>>

\* Mutant: the turn goes on with the next call after a refused response.
LimitForgotten ==
  /\ pc' = "dispatch"
  /\ responses' = Append(responses, LimitResponse(calls[NextCall]))
  /\ UNCHANGED <<contents, calls, turnLimit, finalOnly, outcome>>

\* The evidence is exhausted: this and the later calls get the notice.
Limit ==
  /\ pc' = "dispatch"
  /\ turnLimit' = TRUE
  /\ responses' = Append(responses, LimitResponse(calls[NextCall]))
  /\ UNCHANGED <<contents, calls, finalOnly, outcome>>

\* Mutant: a result of the tool is shown without being charged.
AdmitUncharged(size) ==
  /\ pc' = "dispatch"
  /\ responses' = Append(responses, Response(calls[NextCall], size))
  /\ UNCHANGED <<contents, calls, turnLimit, finalOnly, outcome, used, exhausted>>

\* functionResponse has passed: toolEvidenceBudget.admit.
Admit(size) ==
  \/ /\ Admissible(size)
     /\ used' = used + size
     /\ pc' = "dispatch"
     /\ responses' = Append(responses, Response(calls[NextCall], size))
     /\ UNCHANGED <<contents, calls, turnLimit, finalOnly, outcome, exhausted>>
  \/ /\ ~Admissible(size)
     /\ exhausted' = TRUE
     /\ Limit
     /\ UNCHANGED used

\* What the reviewer does with the result of a tool: refuse it as malformed
\* or because it holds a forbidden value, or admit it.
UseResult ==
  \/ \E err \in FunctionResponseErrors : Return(err) /\ UNCHANGED <<turnVars, used, exhausted>>
  \/ \E size \in 1 .. MaxResponse : Admit(size)

ReturnCallError ==
  /\ \E err \in {"retry", "failed"} : Return(ContextError(err))
  /\ UNCHANGED <<turnVars, used, exhausted>>

ToolReturns ==
  /\ pc = "tool"
  /\ UseResult \/ ReturnCallError
  /\ UNCHANGED <<stopped, scripts, callVars, parent>>

\* RunCode returned: a result, exhaustion by a nested call, or an error.
ScriptReturns ==
  /\ pc = "script" /\ host = "returned"
  /\ CASE result = "response" -> UseResult
       [] result = "limit"    -> Limit /\ UNCHANGED <<used, exhausted>>
       [] OTHER               -> ReturnCallError
  /\ ForgetCode
  /\ UNCHANGED <<stopped, scripts, parent>>

EndTurn ==
  /\ pc = "dispatch" /\ NextCall \notin DOMAIN calls
  /\ contents' = Append(contents, UserTurn(responses))
  /\ finalOnly' = (finalOnly \/ turnLimit)
  /\ calls' = << >> /\ responses' = << >> /\ turnLimit' = FALSE
  /\ pc' = "generate"
  /\ UNCHANGED <<stopped, scripts, outcome, codeVars>>

-----------------------------------------------------------------------------
(* The contexts. *)

ReviewDeadline ==
  /\ pc # "returned" /\ ~parent
  /\ ParentDone
  /\ UNCHANGED loopVars

StopService ==
  /\ pc # "returned" /\ ~stopped
  /\ stopped' = TRUE
  /\ ParentDone
  /\ UNCHANGED <<pc, turnVars, scripts, outcome>>

\* A script runs only inside its call.
ScriptStep == pc = "script" /\ NextCode /\ UNCHANGED loopVars

Generate == GenerateFails \/ GenerateEnds \/ \E turn \in Turns : GenerateCalls(turn)
Dispatch == AnswerWithLimit \/ CallTool \/ CallScript \/ EndTurn

Next ==
  \/ Generate \/ Dispatch \/ ToolReturns \/ ScriptReturns
  \/ ScriptStep
  \/ ReviewDeadline \/ StopService

Spec == Init /\ [][Next]_vars

(* Fairness: a generation ends by its own deadline at the latest, a tool     *)
(* when its context is done, and the deadline of the review comes.           *)
Fairness ==
  /\ WF_vars(Generate) /\ WF_vars(Dispatch)
  /\ WF_vars(parent /\ ToolReturns) /\ WF_vars(ScriptReturns)
  /\ WF_vars(ReviewDeadline)
  /\ WF_vars(HostStep /\ UNCHANGED loopVars)
  /\ \A id \in Calls : WF_vars((CallCancelled(id) \/ Respond(id)) /\ UNCHANGED loopVars)

FairSpec == Spec /\ Fairness

-----------------------------------------------------------------------------
(* Properties. *)

\* Type invariant.
TypeOK ==
  /\ TypeOKCode
  /\ pc \in {"generate", "dispatch", "tool", "script", "returned"}
  /\ calls \in Turns \cup {<< >>}
  /\ responses \in Seq([call : Tools, size : 0 .. MaxResponse])
  /\ turnLimit \in BOOLEAN /\ finalOnly \in BOOLEAN /\ stopped \in BOOLEAN
  /\ outcome \in Outcomes

\* The sum of the first n numbers of a sequence, for every n.
Sums(s) == LET sum[n \in 0 .. Len(s)] == IF n = 0 THEN 0 ELSE sum[n - 1] + s[n] IN sum
Total(s) == Sums(s)[Len(s)]

\* What the responses shown to the model amount to.
Size(r) == Total([k \in 1 .. Len(r) |-> r[k].size])
Sizes(c) == [k \in 1 .. Len(c) |-> IF c[k].role = "user" THEN Size(c[k].parts) ELSE 0]
Shown == Total(Sizes(contents)) + Size(responses)

\* Every byte of evidence that the model sees was charged to the budget, which
\* is never exceeded: the concurrent nested calls of a script and the calls of
\* the loop draw on one allowance, however their checks and charges interleave.
EvidenceIsCharged == Shown <= used /\ used <= MaxEvidence

\* The conversation the model is asked to continue is well formed: it
\* alternates, each turn's calls are all answered, in order, also those the
\* exhausted budget kept from being dispatched, and once the model was told
\* that the limit is exceeded it gets one more turn and no further answer.
ConversationIsWellFormed ==
  /\ pc = "generate" =>
       /\ Len(contents) % 2 = 0
       /\ \A k \in DOMAIN contents :
            IF k % 2 = 1 THEN contents[k].role = "model"
            ELSE /\ contents[k].role = "user"
                 /\ [n \in DOMAIN contents[k].parts |-> contents[k].parts[n].call]
                      = contents[k-1].parts
  /\ \A k \in DOMAIN contents :
       contents[k].role = "user" /\ (\E n \in DOMAIN contents[k].parts : contents[k].parts[n].size = 0)
         => Len(contents) <= k + 1 /\ pc \in {"generate", "returned"}

\* Action property: no call of the loop starts after the budget refused a
\* response, wherever it did: in the loop, or in a nested call of a script
\* that never looked at the refusal.
NoToolAfterExhaustion ==
  [][pc = "dispatch" /\ pc' \in {"tool", "script"} => ~exhausted]_vars

\* The worker takes a context error for the end of the service and leaves the
\* job running without charging it: so the review reports one only when the
\* service does stop, never for a deadline of its own, and a review that the
\* stop interrupted in a call is not reported as having timed out.
CancellationIsGenuine ==
  [][pc' = "returned" /\ pc # "returned" =>
       /\ outcome' = "cancelled" => stopped
       /\ outcome' = "review_timeout" => parent /\ ~stopped]_vars

\* Liveness: the review returns, though the model may ask for tools for ever,
\* tools may hang until they are cancelled and the pipes of a script may be
\* full on both sides.
ReviewReturns == <>(pc = "returned")
=============================================================================
