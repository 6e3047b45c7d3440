-------------------------- MODULE ReviewLoop_proofs --------------------------
(***************************************************************************)
(* Theorems about the review loop and the script it may run, for every     *)
(* allowance, any number of calls in a turn and of nested calls.           *)
(***************************************************************************)
EXTENDS ReviewLoop, FiniteSetTheorems, WellFoundedInduction, TLAPS

USE CodemodeAssumption, ReviewLoopAssumption

-----------------------------------------------------------------------------
(* Exhaustion ends the use of tools. *)

\* What the loop knows of the budget.  The flag of the turn and final-only mode
\* lag behind exhausted only while a call runs, and both are needed: the first
\* inside a turn, the second between turns.
LimitKnown ==
  /\ pc \in {"generate", "dispatch", "tool", "script", "returned"}
  /\ pc = "dispatch" /\ exhausted => turnLimit
  /\ pc = "generate" /\ exhausted => finalOnly

\* What a step of the running script, or the end of a context, leaves alone.
LEMMA ScriptKeepsLoop ==
  ASSUME LimitKnown, ScriptStep \/ ReviewDeadline \/ StopService
  PROVE  LimitKnown'
<1>1. CASE ScriptStep
  BY <1>1 DEF LimitKnown, ScriptStep, loopVars, turnVars
<1>2. CASE ReviewDeadline \/ StopService
  BY <1>2 DEF LimitKnown, ReviewDeadline, StopService, ParentDone, opVars, loopVars, turnVars
<1> QED BY <1>1, <1>2

\* The result of a call is used, or refused, with the limit recorded.
LEMMA UseKeepsLimit ==
  ASSUME pc \in {"tool", "script"}, LimitKnown, UseResult
  PROVE  LimitKnown'
<1>1. ASSUME NEW size \in 1 .. MaxResponse, Admit(size) PROVE LimitKnown'
  BY <1>1 DEF LimitKnown, Admit, Admissible, Limit
<1>2. CASE \E err \in FunctionResponseErrors : Return(err) /\ UNCHANGED <<turnVars, used, exhausted>>
  BY <1>2 DEF LimitKnown, Return
<1> QED BY <1>1, <1>2 DEF UseResult

\* The loop's knowledge of the budget is an invariant.
LEMMA LimitInvariant == Spec => []LimitKnown
<1>1. Init => LimitKnown
  BY DEF Init, InitCode, LimitKnown
<1>2. LimitKnown /\ [Next]_vars => LimitKnown'
  <2> SUFFICES ASSUME LimitKnown, [Next]_vars PROVE LimitKnown'
    OBVIOUS
  <2>1. CASE Generate
    <3>1. CASE GenerateFails \/ GenerateEnds
      BY <2>1, <3>1 DEF GenerateFails, GenerateEnds, Return, LimitKnown
    <3>2. ASSUME NEW turn \in Turns, GenerateCalls(turn) PROVE LimitKnown'
      BY <3>2 DEF GenerateCalls, Return, LimitKnown, codeVars
    <3> QED BY <2>1, <3>1, <3>2 DEF Generate
  <2>2. CASE Dispatch
    <3>1. CASE AnswerWithLimit
      BY <3>1 DEF AnswerWithLimit, LimitKnown, codeVars
    <3>2. CASE CallTool \/ CallScript
      BY <3>2 DEF CallTool, CallScript, LimitKnown
    <3>3. CASE EndTurn
      BY <3>3 DEF EndTurn, LimitKnown, codeVars
    <3> QED BY <2>2, <3>1, <3>2, <3>3 DEF Dispatch
  <2>3. CASE ToolReturns
    BY <2>3, UseKeepsLimit DEF ToolReturns, ReturnCallError, Return, LimitKnown
  <2>4. CASE ScriptReturns
    <3>1. CASE UseResult
      BY <2>4, <3>1, UseKeepsLimit DEF ScriptReturns
    <3>2. CASE Limit /\ UNCHANGED <<used, exhausted>>
      BY <3>2 DEF Limit, LimitKnown
    <3>3. CASE ReturnCallError
      BY <3>3 DEF ReturnCallError, Return, LimitKnown
    <3> QED BY <2>4, <3>1, <3>2, <3>3 DEF ScriptReturns
  <2>5. CASE ScriptStep \/ ReviewDeadline \/ StopService
    BY <2>5, ScriptKeepsLoop
  <2>6. CASE UNCHANGED vars
    BY <2>6 DEF vars, loopVars, turnVars, codeVars, LimitKnown
  <2> QED BY <2>1, <2>2, <2>3, <2>4, <2>5, <2>6 DEF Next
<1> QED BY <1>1, <1>2, PTL DEF Spec

\* No call of the loop is dispatched after the budget refused a response, be it
\* of the loop or of a nested call whose script did not look at the refusal.
THEOREM ExhaustionEndsTools == Spec => NoToolAfterExhaustion
<1>1. LimitKnown /\ [Next]_vars =>
        [pc = "dispatch" /\ pc' \in {"tool", "script"} => ~exhausted]_vars
  <2> SUFFICES ASSUME LimitKnown, Next, pc = "dispatch", pc' \in {"tool", "script"}
               PROVE  ~exhausted
    BY DEF vars
  <2>1. CASE Dispatch
    BY <2>1 DEF Dispatch, AnswerWithLimit, CallTool, CallScript, EndTurn, LimitKnown
  <2>2. CASE ReviewDeadline \/ StopService
    BY <2>2 DEF ReviewDeadline, StopService, loopVars
  <2> QED
    BY <2>1, <2>2 DEF Next, Generate, GenerateFails, GenerateEnds, GenerateCalls,
                      ToolReturns, ScriptReturns, ScriptStep
<1> QED BY <1>1, LimitInvariant, PTL DEF Spec, NoToolAfterExhaustion

-----------------------------------------------------------------------------
(* The errors of the contexts. *)

\* reviewContextError tells a stop of the service from the review's deadline:
\* Review returns a cancellation only when the service stops, and reports a
\* timeout of its own only when it does not.
THEOREM CancellationsAreGenuine == Spec => CancellationIsGenuine
<1> DEFINE Genuine ==
      pc' = "returned" /\ pc # "returned" =>
        /\ outcome' = "cancelled" => stopped
        /\ outcome' = "review_timeout" => parent /\ ~stopped
<1>1. ASSUME NEW err \in {"retry", "failed"}, Return(ContextError(err)) PROVE Genuine
  BY <1>1 DEF Return, ContextError
<1>2. ASSUME NEW res \in {"retry", "failed", "result"}, Return(res) PROVE Genuine
  BY <1>2 DEF Return
<1>3. UseResult => Genuine
  <2>1. ASSUME NEW size \in 1 .. MaxResponse, Admit(size) PROVE pc' = "dispatch"
    BY <2>1 DEF Admit, Limit
  <2> QED BY <2>1, <1>2 DEF UseResult, FunctionResponseErrors
<1>4. [Next]_vars => [Genuine]_vars
  <2> SUFFICES ASSUME Next PROVE Genuine
    OBVIOUS
  <2>1. CASE Generate
    <3>1. CASE GenerateFails
      BY <3>1, <1>1 DEF GenerateFails, ClassifyGeminiError
    <3>2. CASE GenerateEnds
      BY <3>2, <1>2 DEF GenerateEnds, DecodeAndValidate
    <3>3. ASSUME NEW turn \in Turns, GenerateCalls(turn) PROVE Genuine
      BY <3>3, <1>2 DEF GenerateCalls
    <3> QED BY <2>1, <3>1, <3>2, <3>3 DEF Generate
  <2>2. CASE Dispatch
    BY <2>2 DEF Dispatch, AnswerWithLimit, CallTool, CallScript, EndTurn
  <2>3. CASE ToolReturns
    BY <2>3, <1>1, <1>3 DEF ToolReturns, ReturnCallError
  <2>4. CASE ScriptReturns
    <3>1. Limit => Genuine
      BY DEF Limit
    <3> QED BY <2>4, <3>1, <1>1, <1>3 DEF ScriptReturns, ReturnCallError
  <2>5. CASE ScriptStep \/ ReviewDeadline \/ StopService
    BY <2>5 DEF ScriptStep, ReviewDeadline, StopService, loopVars
  <2> QED BY <2>1, <2>2, <2>3, <2>4, <2>5 DEF Next
<1> QED BY <1>4, PTL DEF Spec, CancellationIsGenuine

-----------------------------------------------------------------------------
(* The conversation. *)

CallSeq == Seq(Tools \cup {"undeclared"})
ResponseSeq == Seq([call : Tools \cup {"undeclared"}, size : Nat])
Entries == {ModelTurn(c) : c \in CallSeq} \cup {UserTurn(r) : r \in ResponseSeq}

\* The entry k of a conversation is in its place, and answers the one before.
InPlace(c, k) ==
  IF k % 2 = 1 THEN c[k].role = "model"
  ELSE /\ c[k].role = "user"
       /\ [n \in DOMAIN c[k].parts |-> c[k].parts[n].call] = c[k-1].parts

\* The entry k tells the model that the limit is exceeded.
TellsLimit(c, k) ==
  c[k].role = "user" /\ \E n \in DOMAIN c[k].parts : c[k].parts[n].size = 0

InTurn == pc \in {"dispatch", "tool", "script"}

\* Between turns the conversation is complete, and only its last entry may tell
\* of the limit; within a turn the last entry asks for the calls, and the first
\* of them are answered.
TurnTypes ==
  /\ pc \in {"generate", "dispatch", "tool", "script", "returned"}
  /\ contents \in Seq(Entries) /\ calls \in CallSeq /\ responses \in ResponseSeq
  /\ turnLimit \in BOOLEAN /\ finalOnly \in BOOLEAN
Placed == pc # "returned" => \A k \in 1 .. Len(contents) : InPlace(contents, k)
BetweenTurns ==
  pc = "generate" =>
    /\ Len(contents) % 2 = 0 /\ responses = << >>
    /\ \A k \in 1 .. Len(contents) :
         TellsLimit(contents, k) => finalOnly /\ k = Len(contents)
WithinTurn ==
  InTurn =>
    /\ Len(contents) % 2 = 1 /\ contents[Len(contents)] = ModelTurn(calls)
    /\ Len(responses) <= Len(calls)
    /\ pc # "dispatch" => Len(responses) < Len(calls)
    /\ \A n \in 1 .. Len(responses) :
         responses[n].call = calls[n] /\ (responses[n].size = 0 => turnLimit)
    /\ \A k \in 1 .. Len(contents) : ~TellsLimit(contents, k)
AfterTurns ==
  pc = "returned" =>
    \A k \in 1 .. Len(contents) : TellsLimit(contents, k) => Len(contents) <= k + 1
TurnInv == TurnTypes /\ Placed /\ BetweenTurns /\ WithinTurn /\ AfterTurns

USE DEF InTurn

\* Appending an entry leaves the earlier ones as they were.
LEMMA AppendedEntry ==
  ASSUME NEW c \in Seq(Entries), NEW e \in Entries, NEW d, d = Append(c, e)
  PROVE  /\ d \in Seq(Entries) /\ Len(d) = Len(c) + 1 /\ d[Len(c) + 1] = e
         /\ \A k \in 1 .. Len(c) : /\ d[k] = c[k]
                                   /\ InPlace(d, k) <=> InPlace(c, k)
                                   /\ TellsLimit(d, k) <=> TellsLimit(c, k)
<1>1. /\ d \in Seq(Entries) /\ Len(d) = Len(c) + 1 /\ d[Len(c) + 1] = e
      /\ \A k \in 1 .. Len(c) : d[k] = c[k]
  OBVIOUS
<1>2. ASSUME NEW k \in 1 .. Len(c)
      PROVE  (InPlace(d, k) <=> InPlace(c, k)) /\ (TellsLimit(d, k) <=> TellsLimit(c, k))
  <2>1. k % 2 = 1 \/ k - 1 \in 1 .. Len(c)
    OBVIOUS
  <2>2. d[k] = c[k] /\ (k % 2 = 1 \/ d[k-1] = c[k-1])
    BY <1>1, <2>1
  <2> QED BY <2>2 DEF InPlace, TellsLimit
<1> QED BY <1>1, <1>2

\* The empty sequence is both.
LEMMA NoCalls == << >> \in CallSeq
BY DEF CallSeq

LEMMA NoResponses == << >> \in ResponseSeq
BY DEF ResponseSeq

\* A step that returns without adding to the conversation.
LEMMA ReturnKeepsTurn ==
  ASSUME TurnInv, pc' = "returned",
         UNCHANGED <<contents, calls, responses, turnLimit, finalOnly>>
  PROVE  TurnInv'
BY DEF TurnInv, TurnTypes, Placed, BetweenTurns, WithinTurn, AfterTurns, TellsLimit

\* A response is added to those of the turn.
LEMMA RespondKeepsTurn ==
  ASSUME TurnInv, InTurn, Len(responses) < Len(calls), pc' = "dispatch",
         NEW size \in Nat, size = 0 => turnLimit', turnLimit' \in BOOLEAN, turnLimit => turnLimit',
         responses' = Append(responses, Response(calls[NextCall], size)),
         UNCHANGED <<contents, calls, finalOnly>>
  PROVE  TurnInv'
<1> DEFINE r == Response(calls[NextCall], size)
<1>1. NextCall = Len(responses) + 1 /\ NextCall \in 1 .. Len(calls)
  BY DEF NextCall, TurnInv, TurnTypes, Placed, BetweenTurns, WithinTurn, AfterTurns, ResponseSeq, CallSeq
<1>2. /\ r \in [call : Tools \cup {"undeclared"}, size : Nat]
      /\ r.call = calls[NextCall] /\ r.size = size
  BY <1>1 DEF Response, TurnInv, TurnTypes, Placed, BetweenTurns, WithinTurn, AfterTurns, CallSeq
<1>3. /\ responses' \in ResponseSeq /\ Len(responses') = Len(responses) + 1
      /\ responses'[NextCall] = r
      /\ \A n \in 1 .. Len(responses) : responses'[n] = responses[n]
  BY <1>1, <1>2 DEF TurnInv, TurnTypes, Placed, BetweenTurns, WithinTurn, AfterTurns, ResponseSeq
<1>4. \A n \in 1 .. Len(responses') :
        responses'[n].call = calls'[n] /\ (responses'[n].size = 0 => turnLimit')
  BY <1>1, <1>2, <1>3, SMTT(30) DEF TurnInv, TurnTypes, Placed, BetweenTurns, WithinTurn, AfterTurns, ResponseSeq
<1>5. Len(responses') <= Len(calls')
  BY <1>1, <1>3
<1>6. contents' = contents /\ calls' = calls
  OBVIOUS
<1>7. \A k \in 1 .. Len(contents') : InPlace(contents', k) /\ ~TellsLimit(contents', k)
  BY <1>6 DEF TurnInv, TurnTypes, Placed, BetweenTurns, WithinTurn, AfterTurns
<1>8. Len(contents') % 2 = 1 /\ contents'[Len(contents')] = ModelTurn(calls')
  BY <1>6 DEF TurnInv, TurnTypes, Placed, BetweenTurns, WithinTurn, AfterTurns
<1> QED BY <1>3, <1>4, <1>5, <1>6, <1>7, <1>8 DEF TurnInv, TurnTypes, Placed, BetweenTurns, WithinTurn, AfterTurns

\* The model asks for calls: they are dispatched, or the review ends.
LEMMA CallsKeepTurn ==
  ASSUME TurnInv, NEW turn \in Turns, GenerateCalls(turn)
  PROVE  TurnInv'
<1>1. turn \in CallSeq
  BY DEF Turns, CallSeq
<1> DEFINE e == ModelTurn(turn)
<1>2. e \in Entries /\ e.role = "model" /\ e.parts = turn
  BY <1>1 DEF Entries, ModelTurn
<1>3. contents \in Seq(Entries) /\ contents' = Append(contents, e)
  BY DEF TurnInv, TurnTypes, Placed, BetweenTurns, WithinTurn, AfterTurns, GenerateCalls
<1>4. /\ contents' \in Seq(Entries) /\ Len(contents') = Len(contents) + 1
      /\ contents'[Len(contents) + 1] = e
      /\ \A k \in 1 .. Len(contents) :
           /\ InPlace(contents', k) <=> InPlace(contents, k)
           /\ TellsLimit(contents', k) <=> TellsLimit(contents, k)
  BY <1>2, <1>3, AppendedEntry
<1>5. pc = "generate" /\ Len(contents) \in Nat /\ Len(contents) % 2 = 0
  BY <1>3 DEF TurnInv, TurnTypes, Placed, BetweenTurns, WithinTurn, AfterTurns, GenerateCalls
<1>6. ~TellsLimit(contents', Len(contents) + 1)
  BY <1>2, <1>4 DEF TellsLimit
<1>7. CASE pc' = "returned" /\ UNCHANGED <<calls, turnLimit>>
  <2>1. \A k \in 1 .. Len(contents') : TellsLimit(contents', k) => Len(contents') <= k + 1
    BY <1>4, <1>5, <1>6 DEF TurnInv, TurnTypes, Placed, BetweenTurns, WithinTurn, AfterTurns
  <2> QED BY <1>4, <1>7, <2>1 DEF TurnInv, TurnTypes, Placed, BetweenTurns, WithinTurn, AfterTurns, GenerateCalls
<1>8. CASE ~finalOnly /\ pc' = "dispatch" /\ calls' = turn /\ turnLimit' = FALSE
  <2>1. \A k \in 1 .. Len(contents') : ~TellsLimit(contents', k)
    BY <1>4, <1>5, <1>6, <1>8 DEF TurnInv, TurnTypes, Placed, BetweenTurns, WithinTurn, AfterTurns
  <2>2. InPlace(contents', Len(contents) + 1)
    BY <1>2, <1>4, <1>5 DEF InPlace
  <2>3. \A k \in 1 .. Len(contents') : InPlace(contents', k)
    BY <1>4, <1>5, <2>2 DEF TurnInv, TurnTypes, Placed, BetweenTurns, WithinTurn, AfterTurns
  <2>4. Len(contents') % 2 = 1 /\ contents'[Len(contents')] = ModelTurn(calls')
    BY <1>4, <1>5, <1>8
  <2>5. responses' = << >> /\ finalOnly' = finalOnly
    BY <1>5 DEF TurnInv, TurnTypes, Placed, BetweenTurns, WithinTurn, AfterTurns, GenerateCalls
  <2>6. Len(responses') <= Len(calls')
    BY <1>1, <1>8, <2>5 DEF CallSeq
  <2>7. TurnTypes'
    BY <1>1, <1>4, <1>8, <2>5, NoResponses DEF TurnInv, TurnTypes
  <2>8. Placed' /\ BetweenTurns' /\ AfterTurns'
    BY <1>8, <2>3 DEF Placed, BetweenTurns, AfterTurns
  <2>9. WithinTurn'
    BY <2>1, <2>4, <2>5, <2>6, <1>8 DEF WithinTurn
  <2> QED BY <2>7, <2>8, <2>9 DEF TurnInv
<1> QED BY <1>7, <1>8 DEF GenerateCalls, Return

\* The turn ends: the responses answer its calls, all of them and in order.
LEMMA EndKeepsTurn ==
  ASSUME TurnInv, LimitKnown, EndTurn
  PROVE  TurnInv'
<1> DEFINE e == UserTurn(responses)
<1>1. e \in Entries /\ e.role = "user" /\ e.parts = responses
  BY DEF TurnInv, TurnTypes, Placed, BetweenTurns, WithinTurn, AfterTurns, Entries, UserTurn
<1>2. contents \in Seq(Entries) /\ contents' = Append(contents, e)
  BY DEF TurnInv, TurnTypes, Placed, BetweenTurns, WithinTurn, AfterTurns, EndTurn
<1>3. /\ contents' \in Seq(Entries) /\ Len(contents') = Len(contents) + 1
      /\ contents'[Len(contents) + 1] = e
      /\ \A k \in 1 .. Len(contents) :
           /\ contents'[k] = contents[k]
           /\ InPlace(contents', k) <=> InPlace(contents, k)
           /\ TellsLimit(contents', k) <=> TellsLimit(contents, k)
  BY <1>1, <1>2, AppendedEntry, ZenonT(60)
<1>4. /\ Len(contents) \in Nat /\ Len(contents) % 2 = 1
      /\ contents[Len(contents)] = ModelTurn(calls)
      /\ \A k \in 1 .. Len(contents) : InPlace(contents, k) /\ ~TellsLimit(contents, k)
  BY <1>2 DEF TurnInv, TurnTypes, Placed, BetweenTurns, WithinTurn, AfterTurns, EndTurn
<1>5. Len(responses) = Len(calls)
  BY DEF TurnInv, TurnTypes, Placed, BetweenTurns, WithinTurn, AfterTurns, EndTurn, NextCall, CallSeq, ResponseSeq
<1>6. [n \in DOMAIN responses |-> responses[n].call] = calls
  <2>1. DOMAIN responses = 1 .. Len(calls) /\ calls \in CallSeq
    BY <1>5 DEF TurnInv, TurnTypes, Placed, BetweenTurns, WithinTurn, AfterTurns, ResponseSeq
  <2>2. \A n \in 1 .. Len(calls) : responses[n].call = calls[n]
    BY <1>5 DEF TurnInv, TurnTypes, Placed, BetweenTurns, WithinTurn, AfterTurns, EndTurn
  <2> QED BY <2>1, <2>2 DEF CallSeq
<1>7. Len(contents) >= 1 /\ contents'[Len(contents)].parts = calls
  BY <1>3, <1>4 DEF ModelTurn
<1>8. InPlace(contents', Len(contents) + 1)
  <2>1. (Len(contents) + 1) % 2 # 1 /\ (Len(contents) + 1) - 1 = Len(contents)
    BY <1>4
  <2>2. contents'[Len(contents) + 1].parts = responses /\ contents'[Len(contents) + 1].role = "user"
    BY <1>1, <1>3
  <2> QED BY <1>6, <1>7, <2>1, <2>2 DEF InPlace
<1>9. TellsLimit(contents', Len(contents) + 1) => turnLimit
  <2>0. pc = "dispatch" /\ responses \in ResponseSeq /\ DOMAIN responses = 1 .. Len(responses)
    BY DEF TurnInv, TurnTypes, EndTurn, ResponseSeq
  <2>1. \A n \in DOMAIN responses : responses[n].size = 0 => turnLimit
    BY <2>0 DEF TurnInv, TurnTypes, Placed, BetweenTurns, WithinTurn, AfterTurns, EndTurn, ResponseSeq
  <2> QED BY <1>1, <1>3, <2>1 DEF TellsLimit
<1>10. /\ pc' = "generate" /\ calls' = << >> /\ responses' = << >> /\ turnLimit' = FALSE
       /\ finalOnly' = (finalOnly \/ turnLimit)
  BY DEF EndTurn
<1>11a. turnLimit => finalOnly' = TRUE
  BY <1>10
<1>11. \A k \in 1 .. Len(contents') :
         TellsLimit(contents', k) => finalOnly' /\ k = Len(contents')
  BY <1>3, <1>4, <1>9, <1>11a
<1>12. \A k \in 1 .. Len(contents') : InPlace(contents', k)
  BY <1>3, <1>4, <1>8
<1>13. Len(contents') % 2 = 0
  BY <1>3, <1>4
<1>14. finalOnly' \in BOOLEAN
  BY <1>10 DEF TurnInv, TurnTypes, Placed, BetweenTurns, WithinTurn, AfterTurns
<1>15. TurnTypes'
  BY <1>3, <1>10, <1>14, NoCalls, NoResponses DEF TurnTypes
<1>16. Placed' /\ BetweenTurns'
  BY <1>10, <1>11, <1>12, <1>13 DEF Placed, BetweenTurns
<1>17. WithinTurn' /\ AfterTurns'
  BY <1>10 DEF WithinTurn, AfterTurns
<1> QED BY <1>15, <1>16, <1>17 DEF TurnInv

\* What the loop does with the result of a call.
LEMMA UseKeepsTurn ==
  ASSUME TurnInv, pc \in {"tool", "script"}, UseResult
  PROVE  TurnInv'
<1>1. Len(responses) < Len(calls) /\ InTurn
  BY DEF TurnInv, TurnTypes, Placed, BetweenTurns, WithinTurn, AfterTurns
<1>2. CASE \E err \in FunctionResponseErrors : Return(err) /\ UNCHANGED <<turnVars, used, exhausted>>
  BY <1>2, ReturnKeepsTurn DEF Return, turnVars
<1>3. ASSUME Limit PROVE TurnInv'
  BY <1>1, <1>3, RespondKeepsTurn DEF Limit, LimitResponse
<1>4. ASSUME NEW size \in 1 .. MaxResponse, Admit(size) PROVE TurnInv'
  <2>1. CASE Limit
    BY <2>1, <1>3
  <2>2. CASE /\ pc' = "dispatch"
             /\ responses' = Append(responses, Response(calls[NextCall], size))
             /\ UNCHANGED <<contents, calls, turnLimit, finalOnly>>
    <3>1. size \in Nat /\ size # 0 /\ turnLimit' \in BOOLEAN
      BY <2>2 DEF TurnInv, TurnTypes, Placed, BetweenTurns, WithinTurn, AfterTurns
    <3> QED BY <1>1, <2>2, <3>1, RespondKeepsTurn
  <2> QED BY <1>4, <2>1, <2>2 DEF Admit
<1> QED BY <1>2, <1>4 DEF UseResult

\* TurnInv is an invariant.
LEMMA TurnInvariant == Spec => []TurnInv
<1>1. Init => TurnInv
  <2> SUFFICES ASSUME Init PROVE TurnInv
    OBVIOUS
  <2>1. contents = << >> /\ Len(contents) = 0 /\ responses = << >> /\ calls = << >>
    BY DEF Init
  <2>2. TurnTypes
    <3>1. << >> \in Seq(Entries)
      OBVIOUS
    <3>2. /\ pc \in {"generate", "dispatch", "tool", "script", "returned"}
          /\ turnLimit \in BOOLEAN /\ finalOnly \in BOOLEAN
      BY DEF Init
    <3> QED BY <2>1, <3>1, <3>2, NoCalls, NoResponses DEF TurnTypes
  <2>3. Placed /\ BetweenTurns /\ AfterTurns
    BY <2>1 DEF Placed, BetweenTurns, AfterTurns
  <2>4. WithinTurn
    BY DEF Init, WithinTurn, InTurn
  <2> QED BY <2>2, <2>3, <2>4 DEF TurnInv
<1>2. TurnInv /\ LimitKnown /\ [Next]_vars => TurnInv'
  <2> SUFFICES ASSUME TurnInv, LimitKnown, [Next]_vars PROVE TurnInv'
    OBVIOUS
  <2>1. CASE Generate
    <3>1. CASE GenerateFails \/ GenerateEnds
      BY <3>1, ReturnKeepsTurn DEF GenerateFails, GenerateEnds, Return, turnVars
    <3> QED BY <2>1, <3>1, CallsKeepTurn DEF Generate
  <2>2. CASE Dispatch
    <3>1. CASE AnswerWithLimit
      <4>1. Len(responses) < Len(calls) /\ InTurn
        BY <3>1 DEF AnswerWithLimit, TurnInv, TurnTypes, Placed, BetweenTurns, WithinTurn, AfterTurns, NextCall, CallSeq, ResponseSeq
      <4>2. /\ pc' = "dispatch" /\ turnLimit /\ turnLimit' = turnLimit /\ turnLimit' \in BOOLEAN
            /\ responses' = Append(responses, Response(calls[NextCall], 0))
            /\ UNCHANGED <<contents, calls, finalOnly>>
        BY <3>1 DEF AnswerWithLimit, LimitResponse, TurnInv, TurnTypes, Placed, BetweenTurns, WithinTurn, AfterTurns
      <4> QED BY <4>1, <4>2, RespondKeepsTurn
    <3>2. CASE CallTool \/ CallScript
      <4>1. Len(responses) < Len(calls)
        BY <3>2 DEF CallTool, CallScript, TurnInv, TurnTypes, Placed, BetweenTurns, WithinTurn, AfterTurns, NextCall, CallSeq, ResponseSeq
      <4>2. /\ pc = "dispatch" /\ pc' \in {"tool", "script"}
            /\ UNCHANGED <<contents, calls, responses, turnLimit, finalOnly>>
        BY <3>2 DEF CallTool, CallScript, turnVars
      <4> QED BY <4>1, <4>2 DEF TurnInv, TurnTypes, Placed, BetweenTurns, WithinTurn, AfterTurns, TellsLimit
    <3> QED BY <2>2, <3>1, <3>2, EndKeepsTurn DEF Dispatch
  <2>3. CASE ToolReturns
    BY <2>3, UseKeepsTurn, ReturnKeepsTurn DEF ToolReturns, ReturnCallError, Return, turnVars
  <2>4. CASE ScriptReturns
    <3>1. CASE UseResult
      BY <2>4, <3>1, UseKeepsTurn DEF ScriptReturns
    <3>2. CASE Limit
      <4>1. Len(responses) < Len(calls) /\ InTurn
        BY <2>4 DEF ScriptReturns, TurnInv, TurnTypes, Placed, BetweenTurns, WithinTurn, AfterTurns
      <4> QED BY <3>2, <4>1, RespondKeepsTurn DEF Limit, LimitResponse
    <3>3. CASE ReturnCallError
      BY <3>3, ReturnKeepsTurn DEF ReturnCallError, Return, turnVars
    <3> QED BY <2>4, <3>1, <3>2, <3>3 DEF ScriptReturns
  <2>5. CASE UNCHANGED <<pc, turnVars>>
    BY <2>5 DEF TurnInv, TurnTypes, Placed, BetweenTurns, WithinTurn, AfterTurns, TellsLimit, turnVars
  <2>6. CASE ScriptStep \/ ReviewDeadline \/ StopService \/ UNCHANGED vars
    BY <2>5, <2>6 DEF ScriptStep, ReviewDeadline, StopService, loopVars, vars
  <2> QED BY <2>1, <2>2, <2>3, <2>4, <2>6 DEF Next
<1> QED BY <1>1, <1>2, LimitInvariant, PTL DEF Spec

\* Whenever the model is asked to continue, every call it made is answered, in
\* order, and after the notice that the limit is exceeded comes one turn.
THEOREM ConversationsAreWellFormed == Spec => []ConversationIsWellFormed
<1>1. TurnInv => ConversationIsWellFormed
  <2> SUFFICES ASSUME TurnInv PROVE ConversationIsWellFormed
    OBVIOUS
  <2>1. DOMAIN contents = 1 .. Len(contents) /\ Len(contents) \in Nat
    BY DEF TurnInv, TurnTypes, Placed, BetweenTurns, WithinTurn, AfterTurns
  <2>2. ASSUME NEW k \in DOMAIN contents, TellsLimit(contents, k)
        PROVE  Len(contents) <= k + 1 /\ pc \in {"generate", "returned"}
    <3>1. ~InTurn
      BY <2>1, <2>2 DEF TurnInv, WithinTurn
    <3>2. CASE pc = "generate"
      <4>1. k = Len(contents)
        BY <2>1, <2>2, <3>2 DEF TurnInv, BetweenTurns
      <4> QED BY <2>1, <3>2, <4>1
    <3>3. CASE pc = "returned"
      BY <2>1, <2>2, <3>3 DEF TurnInv, AfterTurns
    <3> QED BY <3>1, <3>2, <3>3 DEF TurnInv, TurnTypes
  <2>3. pc = "generate" => Len(contents) % 2 = 0 /\ \A k \in DOMAIN contents : InPlace(contents, k)
    BY <2>1 DEF TurnInv, TurnTypes, Placed, BetweenTurns, WithinTurn, AfterTurns
  <2> QED BY <2>2, <2>3 DEF ConversationIsWellFormed, InPlace, TellsLimit
<1> QED BY <1>1, TurnInvariant, PTL


-----------------------------------------------------------------------------
(* A codemode call. *)

Calling == {id \in Calls : op[id] = "calling"}

\* RunCode has not been called: its local state is fresh.
Fresh ==
  host = "idle" =>
    /\ helper = "killed" /\ nextID = 1 /\ pending = {}
    /\ toHost = << >> /\ toHelper = << >>
    /\ op = [id \in Calls |-> "none"]
    /\ lastID = 0 /\ result = "none" /\ fatal = "none" /\ runCtx = "cancelled"

\* What both sides of the pipes agree on while the host reads frames.  The
\* frames on their way are the calls after lastID, in order; they and the calls
\* in progress are unsettled in the script, a call whose response was written
\* is neither.  So the host has a free slot whenever a call frame arrives.
Agreed ==
  host = "loop" =>
    /\ helper \in {"running", "blocked"} =>
         /\ nextID = lastID + Len(toHost) + 1
         /\ \A k \in 1 .. Len(toHost) : toHost[k].kind = "call"
    /\ \A k \in 1 .. Len(toHost) :
         toHost[k].kind = "call" => toHost[k].id = lastID + k /\ toHost[k].id \in pending
    /\ \A id \in Calls : op[id] # "none" => id <= lastID
    /\ Calling \subseteq pending
    /\ \A k \in 1 .. Len(toHelper) : op[toHelper[k]] = "ended"
    /\ Cardinality(pending) <= MaxConcurrent

\* fatalErr remembers the worst that happened to a nested call; a cancellation
\* is the review's, and a broken protocol the end of a crashed helper.
FatalKept ==
  /\ (\E id \in Calls : op[id] = "fatal") => fatal \in {"fatal", "invalid", "cancelled"}
  /\ (\E id \in Calls : op[id] = "limit") => fatal # "none"
  /\ "cancelled" \in {fatal, result} => parent
  /\ "invalid" \in {fatal, result} => helper = "crashed"

\* The inductive invariant of RunCodeIsHonest.
CodeInv ==
  /\ TypeOKCode
  /\ slots = Cardinality(Calling)
  /\ Fresh /\ Agreed /\ FatalKept
  /\ host \in {"draining", "returned"} => helper \in {"killed", "crashed"}
  /\ RunCodeIsHonest

\* Sets of calls are finite.
LEMMA CallSetsAreFinite ==
  ASSUME NEW S \in SUBSET Calls
  PROVE  IsFiniteSet(S) /\ Cardinality(S) \in Nat
<1>1. IsFiniteSet(Calls)
  <2>1. 1 \in Int /\ MaxCalls \in Int
    OBVIOUS
  <2> QED BY <2>1, FS_Interval DEF Calls
<1>2. IsFiniteSet(S)
  BY <1>1, FS_Subset
<1> QED BY <1>2, FS_CardinalityType

\* A step that changes only the budget, or nothing.
LEMMA CodeFrame ==
  ASSUME CodeInv, UNCHANGED <<callVars, parent>>,
         used' \in 0 .. MaxEvidence, exhausted' \in BOOLEAN
  PROVE  CodeInv'
<1> USE DEF callVars, helperVars, hostVars
<1>1. TypeOKCode'
  BY DEF CodeInv, TypeOKCode
<1>2. Calling' = Calling
  BY DEF Calling
<1>3. Fresh' /\ FatalKept' /\ RunCodeIsHonest'
  BY DEF CodeInv, Fresh, FatalKept, RunCodeIsHonest
<1>4. Agreed'
  BY <1>2 DEF CodeInv, Agreed
<1> QED BY <1>1, <1>2, <1>3, <1>4 DEF CodeInv

LEMMA CodeInit == ASSUME InitCode PROVE CodeInv
<1>1. << >> \in Seq({Call(id) : id \in Calls} \cup {Done}) /\ << >> \in Seq(Calls)
  OBVIOUS
<1>2. Calling = {} /\ Cardinality(Calling) = 0
  BY FS_EmptySet DEF InitCode, Calling
<1>3. TypeOKCode
  <2>1. op \in [Calls -> OpStates]
    BY DEF InitCode, OpStates
  <2>2. nextID \in 1 .. MaxCalls + 1 /\ slots \in 0 .. MaxConcurrent /\ lastID \in 0 .. MaxCalls
    BY DEF InitCode
  <2>3. used \in 0 .. MaxEvidence
    BY DEF InitCode
  <2>4. exhausted \in BOOLEAN /\ parent \in BOOLEAN
    BY Zenon DEF InitCode
  <2>5. fatal \in Errors \cup {"none"} /\ result \in Results
    BY DEF InitCode, Results
  <2> QED BY <1>1, <2>1, <2>2, <2>3, <2>4, <2>5 DEF InitCode, TypeOKCode
<1>4. Fresh /\ Agreed /\ FatalKept /\ RunCodeIsHonest
  BY DEF InitCode, Fresh, Agreed, FatalKept, RunCodeIsHonest
<1> QED BY <1>2, <1>3, <1>4 DEF CodeInv, InitCode

LEMMA ForgetCodeInv ==
  ASSUME CodeInv, ForgetCode, used' \in 0 .. MaxEvidence, exhausted' \in BOOLEAN, UNCHANGED parent
  PROVE  CodeInv'
<1>1. << >> \in Seq({Call(id) : id \in Calls} \cup {Done}) /\ << >> \in Seq(Calls)
  OBVIOUS
<1>2. Calling' = {} /\ Cardinality(Calling') = 0
  BY FS_EmptySet DEF ForgetCode, Calling
<1>3. TypeOKCode'
  BY <1>1 DEF ForgetCode, CodeInv, TypeOKCode, OpStates, Errors, Results
<1>4. Fresh' /\ Agreed' /\ FatalKept' /\ RunCodeIsHonest'
  BY DEF ForgetCode, Fresh, Agreed, FatalKept, RunCodeIsHonest
<1> QED BY <1>2, <1>3, <1>4 DEF CodeInv, ForgetCode

LEMMA StartCodeInv == ASSUME CodeInv, StartCode PROVE CodeInv'
<1> USE DEF opVars
<1>1. /\ host = "idle" /\ host' = "loop" /\ helper' = "running"
      /\ runCtx' \in {"cancelled", "live"}
      /\ UNCHANGED <<nextID, pending, toHost, toHelper, op, slots, used, exhausted, lastID,
                     result, fatal, parent>>
  BY DEF StartCode
<1>2. Calling' = Calling
  BY <1>1 DEF Calling
<1>3. TypeOKCode'
  BY <1>1 DEF CodeInv, TypeOKCode
<1>4. /\ nextID = 1 /\ pending = {} /\ Len(toHost) = 0 /\ Len(toHelper) = 0 /\ lastID = 0
      /\ op = [id \in Calls |-> "none"] /\ result = "none" /\ fatal = "none"
  BY <1>1 DEF CodeInv, Fresh
<1>5. Calling = {} /\ Cardinality({}) = 0
  BY <1>4, FS_EmptySet DEF Calling
<1>6. Agreed'
  <2>1. nextID' = lastID' + Len(toHost') + 1
    BY <1>1, <1>4
  <2>2. \A k \in 1 .. Len(toHost') : FALSE
    BY <1>1, <1>4
  <2>3. \A k \in 1 .. Len(toHelper') : FALSE
    BY <1>1, <1>4
  <2>4. Cardinality(pending') <= MaxConcurrent
    BY <1>1, <1>4, <1>5
  <2>5. Calling' \subseteq pending' /\ \A id \in Calls : op'[id] = "none"
    BY <1>1, <1>2, <1>4, <1>5
  <2> QED BY <2>1, <2>2, <2>3, <2>4, <2>5 DEF Agreed
<1>7. Fresh' /\ FatalKept' /\ RunCodeIsHonest'
  BY <1>1, <1>4 DEF Fresh, FatalKept, RunCodeIsHonest
<1> QED BY <1>1, <1>2, <1>3, <1>6, <1>7 DEF CodeInv

-----------------------------------------------------------------------------

\* A step of the helper: it is of no concern to the host unless both still talk.
LEMMA HelperFrame ==
  ASSUME CodeInv, helper \in {"running", "blocked"}, TypeOKCode', Agreed',
         UNCHANGED <<opVars, hostVars, fatal, runCtx, parent>>
  PROVE  CodeInv'
<1> USE DEF opVars, hostVars
<1>1. Calling' = Calling
  BY DEF Calling
<1>2. host \notin {"idle", "draining", "returned"}
  BY DEF CodeInv, Fresh
<1>3. FatalKept'
  BY DEF CodeInv, FatalKept
<1> QED BY <1>1, <1>2, <1>3 DEF CodeInv, Fresh, RunCodeIsHonest

LEMMA HelperCode ==
  ASSUME CodeInv, HelperStep \/ HelperCrashes
  PROVE  CodeInv'
<1> USE DEF opVars, hostVars
<1>1. /\ TypeOKCode /\ Agreed
      /\ toHost \in Seq({Call(id) : id \in Calls} \cup {Done}) /\ toHelper \in Seq(Calls)
      /\ IsFiniteSet(pending) /\ Cardinality(pending) \in Nat
      /\ nextID \in 1 .. MaxCalls + 1 /\ lastID \in 0 .. MaxCalls
  <2>1. pending \subseteq Calls
    BY DEF CodeInv, TypeOKCode
  <2>2. IsFiniteSet(pending) /\ Cardinality(pending) \in Nat
    BY <2>1, CallSetsAreFinite
  <2> QED BY <2>2 DEF CodeInv, TypeOKCode
<1>2. CASE ScriptCalls
  <2>1. /\ helper = "running" /\ nextID \in Calls
        /\ Cardinality(pending) < MaxConcurrent
        /\ toHost' = Append(toHost, Call(nextID))
        /\ pending' = pending \cup {nextID} /\ nextID' = nextID + 1
        /\ UNCHANGED <<helper, toHelper, op, slots, used, exhausted, lastID, host, result, fatal,
                       runCtx, parent>>
    BY <1>2 DEF ScriptCalls
  <2>2. /\ toHost' \in Seq({Call(id) : id \in Calls} \cup {Done})
        /\ Len(toHost') = Len(toHost) + 1 /\ Len(toHost) \in Nat
        /\ toHost'[Len(toHost) + 1] = Call(nextID)
        /\ \A k \in 1 .. Len(toHost) : toHost'[k] = toHost[k]
    BY <1>1, <2>1
  <2>3. TypeOKCode'
    BY <1>1, <2>1, <2>2 DEF TypeOKCode, Calls
  <2>4. Cardinality(pending') <= MaxConcurrent
    <3>1. Cardinality(pending') \in {Cardinality(pending), Cardinality(pending) + 1}
      BY <1>1, <2>1, FS_AddElement
    <3>2. MaxConcurrent \in Nat
      OBVIOUS
    <3> QED BY <1>1, <2>1, <3>1, <3>2
  <2>5. host = "loop" =>
          /\ nextID' = lastID + Len(toHost') + 1
          /\ \A k \in 1 .. Len(toHost') :
               /\ toHost'[k].kind = "call"
               /\ toHost'[k].id = lastID + k /\ toHost'[k].id \in pending'
    <3> SUFFICES ASSUME host = "loop"
                 PROVE  /\ nextID' = lastID + Len(toHost') + 1
                        /\ \A k \in 1 .. Len(toHost') :
                             /\ toHost'[k].kind = "call"
                             /\ toHost'[k].id = lastID + k /\ toHost'[k].id \in pending'
      OBVIOUS
    <3>1. nextID = lastID + Len(toHost) + 1
      BY <1>1, <2>1 DEF Agreed
    <3>2. \A k \in 1 .. Len(toHost) :
            /\ toHost'[k].kind = "call"
            /\ toHost'[k].id = lastID + k /\ toHost'[k].id \in pending'
      BY <1>1, <2>1, <2>2 DEF Agreed
    <3>3. Call(nextID).kind = "call" /\ Call(nextID).id = nextID
      BY DEF Call
    <3>4. nextID' = lastID + Len(toHost') + 1
      BY <1>1, <2>1, <2>2, <3>1
    <3>5. ASSUME NEW k \in 1 .. Len(toHost'), k \notin 1 .. Len(toHost)
          PROVE  /\ toHost'[k].kind = "call"
                 /\ toHost'[k].id = lastID + k /\ toHost'[k].id \in pending'
      <4>1. k = Len(toHost) + 1
        BY <2>2, <3>5
      <4>2. toHost'[k] = Call(nextID) /\ nextID = lastID + k /\ nextID \in pending'
        BY <1>1, <2>1, <2>2, <3>1, <4>1
      <4> QED BY <3>3, <4>2
    <3> QED BY <3>2, <3>4, <3>5
  <2>6. Calling' = Calling
    BY <2>1 DEF Calling
  <2>7. Agreed'
    BY <1>1, <2>1, <2>4, <2>5, <2>6 DEF Agreed
  <2> QED BY <2>1, <2>3, <2>7, HelperFrame
<1>3. CASE ScriptAwaits \/ HelperCrashes
  <2>1. /\ helper \in {"running", "blocked"} /\ helper' \in {"blocked", "crashed"}
        /\ UNCHANGED <<nextID, pending, toHost, toHelper, opVars, hostVars, fatal, runCtx, parent>>
    BY <1>3 DEF ScriptAwaits, HelperCrashes
  <2>2. TypeOKCode'
    BY <1>1, <2>1 DEF TypeOKCode
  <2>3. Calling' = Calling
    BY <2>1 DEF Calling
  <2>4. Agreed'
    BY <1>1, <2>1, <2>3 DEF Agreed
  <2> QED BY <2>1, <2>2, <2>4, HelperFrame
<1>4. CASE ScriptSettles
  <2>1. /\ helper = "blocked" /\ helper' = "running" /\ toHelper # << >>
        /\ pending' = pending \ {Head(toHelper)} /\ toHelper' = Tail(toHelper)
        /\ UNCHANGED <<nextID, toHost, op, slots, used, exhausted, lastID, host, result, fatal,
                       runCtx, parent>>
    BY <1>4 DEF ScriptSettles
  <2>2. /\ Head(toHelper) = toHelper[1] /\ toHelper[1] \in Calls /\ toHelper' \in Seq(Calls)
        /\ Len(toHelper') = Len(toHelper) - 1 /\ 1 \in 1 .. Len(toHelper)
        /\ \A k \in 1 .. Len(toHelper') : toHelper'[k] = toHelper[k + 1] /\ k + 1 \in 1 .. Len(toHelper)
    BY <1>1, <2>1
  <2>3. TypeOKCode'
    BY <1>1, <2>1, <2>2 DEF TypeOKCode
  <2>4. Calling' = Calling
    BY <2>1 DEF Calling
  <2>5. host = "loop" => op[toHelper[1]] = "ended" /\ toHelper[1] <= lastID
    BY <1>1, <2>2 DEF Agreed
  <2>6. host = "loop" => Calling' \subseteq pending'
    BY <1>1, <2>1, <2>2, <2>4, <2>5 DEF Agreed, Calling
  <2>7. Cardinality(pending') <= Cardinality(pending)
    BY <1>1, <2>1, FS_Subset
  <2>8. Cardinality(pending') \in Nat
    BY <1>1, <2>1, FS_Subset, FS_CardinalityType
  <2>9. host = "loop" =>
          \A k \in 1 .. Len(toHost) :
            toHost[k].kind = "call" => toHost[k].id = lastID + k /\ toHost[k].id \in pending'
    <3> SUFFICES ASSUME host = "loop", NEW k \in 1 .. Len(toHost), toHost[k].kind = "call"
                 PROVE  toHost[k].id = lastID + k /\ toHost[k].id \in pending'
      OBVIOUS
    <3>1. toHost[k].id = lastID + k /\ toHost[k].id \in pending
      BY <1>1 DEF Agreed
    <3>2. toHost[k].id # toHelper[1]
      BY <1>1, <2>2, <2>5, <3>1 DEF Calls
    <3> QED BY <2>1, <2>2, <3>1, <3>2
  <2>10. host = "loop" => \A k \in 1 .. Len(toHelper') : op'[toHelper'[k]] = "ended"
    BY <1>1, <2>1, <2>2 DEF Agreed
  <2>11. host = "loop" => Cardinality(pending') <= MaxConcurrent
    BY <1>1, <2>7, <2>8 DEF Agreed
  <2>12. Agreed'
    BY <1>1, <2>1, <2>6, <2>9, <2>10, <2>11 DEF Agreed
  <2> QED BY <2>1, <2>3, <2>12, HelperFrame
<1>5. CASE ScriptEnds
  <2>1. /\ helper = "running" /\ helper' = "done"
        /\ toHost' = Append(toHost, Done)
        /\ UNCHANGED <<nextID, pending, toHelper, op, slots, used, exhausted, lastID, host, result,
                       fatal, runCtx, parent>>
    BY <1>5 DEF ScriptEnds
  <2>2. /\ toHost' \in Seq({Call(id) : id \in Calls} \cup {Done})
        /\ Len(toHost') = Len(toHost) + 1 /\ Len(toHost) \in Nat
        /\ toHost'[Len(toHost) + 1] = Done
        /\ \A k \in 1 .. Len(toHost) : toHost'[k] = toHost[k]
    BY <1>1, <2>1
  <2>3. TypeOKCode'
    BY <1>1, <2>1, <2>2 DEF TypeOKCode
  <2>4. Calling' = Calling /\ Done.kind # "call"
    BY <2>1 DEF Calling, Done
  <2>5. \A k \in 1 .. Len(toHost') : toHost'[k].kind = "call" => k \in 1 .. Len(toHost)
    BY <2>2, <2>4
  <2>6. host = "loop" =>
          \A k \in 1 .. Len(toHost') :
            toHost'[k].kind = "call" => toHost'[k].id = lastID + k /\ toHost'[k].id \in pending
    BY <1>1, <2>2, <2>5 DEF Agreed
  <2>7. Agreed'
    BY <1>1, <2>1, <2>4, <2>6 DEF Agreed
  <2> QED BY <2>1, <2>3, <2>7, HelperFrame
<1> QED BY <1>2, <1>3, <1>4, <1>5 DEF HelperStep


-----------------------------------------------------------------------------

\* A nested call leaves the host's loop: its slot is given back.
LEMMA EndCallCode ==
  ASSUME CodeInv, NEW id \in Calls, NEW state \in OpStates \ {"none", "calling"}, EndCall(id, state),
         used' \in 0 .. MaxEvidence, exhausted' \in BOOLEAN,
         runCtx' \in {"live", "cancelled", "expired"}, runCtx = "cancelled" => runCtx' = runCtx,
         fatal' \in Errors \cup {"none"},
         fatal' = fatal \/ (fatal \in {"none", "limit"} /\ fatal' \in {"limit", "fatal"}),
         state = "fatal" => fatal' \notin {"none", "limit"},
         state = "limit" => fatal' # "none"
  PROVE  CodeInv'
<1> USE DEF helperVars, hostVars
<1>1. /\ op[id] = "calling" /\ op' = [op EXCEPT ![id] = state] /\ slots' = slots - 1
      /\ UNCHANGED <<helper, nextID, pending, toHost, toHelper, lastID, host, result, parent>>
      /\ TypeOKCode /\ slots = Cardinality(Calling) /\ Fresh /\ Agreed /\ FatalKept
      /\ op \in [Calls -> OpStates]
  BY DEF EndCall, CodeInv, TypeOKCode
<1>2. /\ op' \in [Calls -> OpStates] /\ op'[id] = state
      /\ \A i \in Calls \ {id} : op'[i] = op[i]
  BY <1>1
<1>3. id \in Calling /\ Calling' = Calling \ {id} /\ Calling \subseteq Calls
  BY <1>1, <1>2 DEF Calling
<1>4. IsFiniteSet(Calling)
  BY <1>3, CallSetsAreFinite
<1>5. Cardinality(Calling') = Cardinality(Calling) - 1
  BY <1>3, <1>4, FS_RemoveElement
<1>6. slots' = Cardinality(Calling') /\ slots' \in 0 .. MaxConcurrent
  <2>1. IsFiniteSet(Calling') /\ Cardinality(Calling') \in Nat
    BY <1>3, <1>4, FS_RemoveElement, FS_CardinalityType
  <2> QED BY <1>1, <1>5, <2>1 DEF TypeOKCode
<1>7. TypeOKCode'
  BY <1>1, <1>2, <1>6 DEF TypeOKCode
<1>8. host \notin {"idle", "returned"}
  BY <1>1 DEF CodeInv, Fresh, RunCodeIsHonest
<1>9. host = "loop" => /\ \A i \in Calls : op'[i] # "none" => i <= lastID
                       /\ \A k \in 1 .. Len(toHelper) : op'[toHelper[k]] = "ended"
  <2>1. \A k \in 1 .. Len(toHelper) : toHelper[k] \in Calls
    BY <1>1 DEF TypeOKCode
  <2> QED BY <1>1, <1>2, <2>1 DEF Agreed
<1>10. Agreed'
  BY <1>1, <1>3, <1>9 DEF Agreed
<1>11. FatalKept'
  BY <1>1, <1>2 DEF FatalKept, Errors
<1> QED BY <1>1, <1>6, <1>7, <1>8, <1>10, <1>11 DEF CodeInv, Fresh, RunCodeIsHonest

\* What Append does, stated without the sequences around it.
LEMMA AppendedTo ==
  ASSUME NEW S, NEW s \in Seq(S), NEW e \in S
  PROVE  /\ Append(s, e) \in Seq(S) /\ Len(Append(s, e)) = Len(s) + 1
         /\ \A k \in 1 .. Len(Append(s, e)) :
              Append(s, e)[k] = e \/ (k \in 1 .. Len(s) /\ Append(s, e)[k] = s[k])
OBVIOUS

LEMMA CallCode ==
  ASSUME CodeInv, NEW id \in Calls, CallStep(id)
  PROVE  CodeInv'
<1> USE DEF helperVars, hostVars
<1>1. /\ used \in 0 .. MaxEvidence /\ exhausted \in BOOLEAN
      /\ runCtx \in {"live", "cancelled", "expired"} /\ fatal \in Errors \cup {"none"}
  BY DEF CodeInv, TypeOKCode
<1>2. ASSUME NEW err \in {"limit", "fatal"}, Fail(err)
      PROVE  /\ runCtx' \in {"live", "cancelled", "expired"}
             /\ runCtx = "cancelled" => runCtx' = runCtx
             /\ fatal' \in Errors \cup {"none"} /\ fatal' # "none"
             /\ fatal' = fatal \/ (fatal \in {"none", "limit"} /\ fatal' \in {"limit", "fatal"})
             /\ err = "fatal" => fatal' # "limit"
  BY <1>1, <1>2 DEF Fail, Errors
<1>3. CASE CallSucceeds(id)
  <2>1. PICK size \in 1 .. MaxResponse :
          \/ /\ Admissible(size) /\ used' = used + size /\ EndCall(id, "responding")
             /\ UNCHANGED <<exhausted, fatal, runCtx>>
          \/ /\ exhausted' = TRUE /\ EndCall(id, "limit") /\ Fail("limit") /\ UNCHANGED used
    BY <1>3 DEF CallSucceeds
  <2>2. CASE /\ Admissible(size) /\ used' = used + size /\ EndCall(id, "responding")
             /\ UNCHANGED <<exhausted, fatal, runCtx>>
    <3>1. used' \in 0 .. MaxEvidence
      BY <1>1, <2>2 DEF Admissible
    <3> QED BY <1>1, <2>2, <3>1, EndCallCode DEF OpStates
  <2>3. CASE exhausted' = TRUE /\ EndCall(id, "limit") /\ Fail("limit") /\ UNCHANGED used
    BY <1>1, <1>2, <2>3, EndCallCode DEF OpStates
  <2> QED BY <2>1, <2>2, <2>3
<1>4. CASE CallRefusesArguments(id)
  BY <1>1, <1>4, EndCallCode DEF CallRefusesArguments, OpStates
<1>5. CASE CallFails(id)
  BY <1>1, <1>2, <1>5, EndCallCode DEF CallFails, OpStates
<1>6. CASE CallCancelled(id)
  BY <1>1, <1>6, EndCallCode DEF CallCancelled, OpStates
<1>7. CASE Respond(id)
  <2>1. /\ op[id] = "responding" /\ op' = [op EXCEPT ![id] = "ended"]
        /\ toHelper' = toHelper \/ toHelper' = Append(toHelper, id)
        /\ UNCHANGED <<helper, nextID, pending, toHost, slots, used, exhausted, lastID, host, result,
                       fatal, runCtx, parent>>
        /\ TypeOKCode /\ Fresh /\ Agreed /\ FatalKept
        /\ op \in [Calls -> OpStates] /\ toHelper \in Seq(Calls)
    BY <1>7 DEF Respond, CodeInv, TypeOKCode
  <2>2. /\ op' \in [Calls -> OpStates] /\ op'[id] = "ended"
        /\ \A i \in Calls \ {id} : op'[i] = op[i]
    BY <2>1 DEF OpStates
  <2>3. Calling' = Calling
    BY <2>1, <2>2 DEF Calling
  <2>4. /\ toHelper' \in Seq(Calls)
        /\ \A k \in 1 .. Len(toHelper') : toHelper'[k] = id \/ (k \in 1 .. Len(toHelper) /\ toHelper'[k] = toHelper[k])
    <3>1. CASE toHelper' = toHelper
      BY <2>1, <3>1
    <3>2. CASE toHelper' = Append(toHelper, id)
      BY <2>1, <3>2, AppendedTo
    <3> QED BY <2>1, <3>1, <3>2
  <2>5. TypeOKCode'
    BY <2>1, <2>2, <2>4 DEF TypeOKCode
  <2>6. host \notin {"idle", "returned"}
    BY <2>1 DEF CodeInv, Fresh, RunCodeIsHonest
  <2>7. host = "loop" => \A k \in 1 .. Len(toHelper') : op'[toHelper'[k]] = "ended"
    <3>1. \A k \in 1 .. Len(toHelper) : toHelper[k] \in Calls
      BY <2>1
    <3> QED BY <2>1, <2>2, <2>4, <3>1 DEF Agreed
  <2>8. Agreed'
    BY <2>1, <2>2, <2>3, <2>7 DEF Agreed
  <2>9. FatalKept'
    BY <2>1, <2>2 DEF FatalKept
  <2> QED BY <2>1, <2>3, <2>5, <2>6, <2>8, <2>9 DEF CodeInv, Fresh, RunCodeIsHonest
<1> QED BY <1>3, <1>4, <1>5, <1>6, <1>7 DEF CallStep

\* The host leaves its loop.
LEMMA LeaveCode ==
  ASSUME CodeInv, host = "loop", NEW res \in Results, Leave(res),
         res = "cancelled" => parent, res = "invalid" => helper = "crashed",
         toHost' = toHost \/ (toHost # << >> /\ toHost' = Tail(toHost)),
         runCtx' \in {"live", "cancelled", "expired"},
         UNCHANGED <<helperVars, toHelper, opVars, lastID, fatal, parent>>
  PROVE  CodeInv'
<1> USE DEF helperVars, opVars
<1>1. host' = "cleanup" /\ result' = res
  BY DEF Leave
<1>2. Calling' = Calling
  BY DEF Calling
<1>3. toHost' \in Seq({Call(id) : id \in Calls} \cup {Done})
  <2>1. toHost \in Seq({Call(id) : id \in Calls} \cup {Done})
    BY DEF CodeInv, TypeOKCode
  <2> QED BY <2>1
<1>4. TypeOKCode'
  BY <1>1, <1>3 DEF CodeInv, TypeOKCode
<1>5. FatalKept'
  BY <1>1 DEF CodeInv, FatalKept
<1> QED BY <1>1, <1>2, <1>4, <1>5 DEF CodeInv, Fresh, Agreed, RunCodeIsHonest

\* A call frame always finds a free slot: the host never takes a helper that
\* keeps the protocol for a broken one.
LEMMA ReceiveCallCode ==
  ASSUME CodeInv, ReceiveCall
  PROVE  CodeInv'
<1> USE DEF helperVars, hostVars
<1> DEFINE id == Head(toHost).id
<1>1. /\ host = "loop" /\ toHost # << >> /\ Head(toHost).kind = "call" /\ toHost' = Tail(toHost)
      /\ UNCHANGED <<helper, nextID, pending, toHelper, used, exhausted, fatal, runCtx, parent>>
      /\ TypeOKCode /\ slots = Cardinality(Calling) /\ Agreed /\ FatalKept
      /\ op \in [Calls -> OpStates] /\ lastID \in 0 .. MaxCalls /\ pending \subseteq Calls
      /\ toHost \in Seq({Call(i) : i \in Calls} \cup {Done})
  BY DEF ReceiveCall, CodeInv, TypeOKCode
<1>2. /\ Head(toHost) = toHost[1] /\ 1 \in 1 .. Len(toHost) /\ Len(toHost) \in Nat
      /\ toHost' \in Seq({Call(i) : i \in Calls} \cup {Done}) /\ Len(toHost') = Len(toHost) - 1
      /\ \A k \in 1 .. Len(toHost') : toHost'[k] = toHost[k + 1] /\ k + 1 \in 1 .. Len(toHost)
  BY <1>1
<1>3. id = lastID + 1 /\ id \in pending /\ id \in Calls
  BY <1>1, <1>2 DEF Agreed
<1>4. id \notin Calling /\ Calling \subseteq pending /\ Calling \subseteq Calls
  BY <1>1, <1>3 DEF Agreed, Calling
<1>5. /\ IsFiniteSet(pending) /\ IsFiniteSet(Calling)
      /\ Cardinality(Calling) \in Nat /\ Cardinality(pending) \in Nat
  BY <1>1, <1>4, CallSetsAreFinite
<1>6. slots < MaxConcurrent
  <2>1. Calling \cup {id} \subseteq pending
    BY <1>3, <1>4
  <2>2. Cardinality(Calling \cup {id}) <= Cardinality(pending)
    BY <1>5, <2>1, FS_Subset
  <2>3. Cardinality(Calling \cup {id}) = Cardinality(Calling) + 1
    BY <1>4, <1>5, FS_AddElement
  <2>4. Cardinality(pending) <= MaxConcurrent /\ MaxConcurrent \in Nat
    BY <1>1 DEF Agreed
  <2> QED BY <1>1, <1>5, <2>2, <2>3, <2>4
<1>7. /\ lastID' = id /\ slots' = slots + 1 /\ op' = [op EXCEPT ![id] = "calling"]
      /\ UNCHANGED <<host, result>>
  BY <1>1, <1>3, <1>6 DEF ReceiveCall
<1>8. /\ op' \in [Calls -> OpStates] /\ op'[id] = "calling"
      /\ \A i \in Calls \ {id} : op'[i] = op[i]
  BY <1>1, <1>3, <1>7 DEF OpStates
<1>9. Calling' = Calling \cup {id}
  BY <1>3, <1>8 DEF Calling
<1>10. slots' = Cardinality(Calling') /\ slots' \in 0 .. MaxConcurrent
  <2>1. Cardinality(Calling') = Cardinality(Calling) + 1
    BY <1>4, <1>5, <1>9, FS_AddElement
  <2>2. MaxConcurrent \in Nat
    OBVIOUS
  <2> QED BY <1>1, <1>5, <1>6, <1>7, <2>1, <2>2
<1>11. TypeOKCode'
  BY <1>1, <1>2, <1>3, <1>7, <1>8, <1>10, SMTT(30) DEF TypeOKCode, Calls
<1>12. Agreed'
  <2>1. helper \in {"running", "blocked"} =>
          /\ nextID = lastID' + Len(toHost') + 1
          /\ \A k \in 1 .. Len(toHost') : toHost'[k].kind = "call"
    BY <1>1, <1>2, <1>3, <1>7 DEF Agreed
  <2>2. \A k \in 1 .. Len(toHost') :
          toHost'[k].kind = "call" => toHost'[k].id = lastID' + k /\ toHost'[k].id \in pending
    <3> SUFFICES ASSUME NEW k \in 1 .. Len(toHost'), toHost'[k].kind = "call"
                 PROVE  toHost'[k].id = lastID' + k /\ toHost'[k].id \in pending
      OBVIOUS
    <3>1. toHost[k + 1].id = lastID + (k + 1) /\ toHost[k + 1].id \in pending
      BY <1>1, <1>2 DEF Agreed
    <3> QED BY <1>1, <1>2, <1>3, <1>7, <3>1
  <2>3. \A i \in Calls : op'[i] # "none" => i <= lastID'
    BY <1>1, <1>3, <1>7, <1>8 DEF Agreed, Calls
  <2>4. \A k \in 1 .. Len(toHelper) : op'[toHelper[k]] = "ended"
    <3> SUFFICES ASSUME NEW k \in 1 .. Len(toHelper) PROVE op'[toHelper[k]] = "ended"
      OBVIOUS
    <3>1. toHelper[k] \in Calls /\ op[toHelper[k]] = "ended"
      BY <1>1 DEF Agreed, TypeOKCode
    <3>2. toHelper[k] # id
      BY <1>1, <1>3, <3>1 DEF Agreed, Calls
    <3> QED BY <1>8, <3>1, <3>2
  <2>5. Calling' \subseteq pending /\ Cardinality(pending) <= MaxConcurrent
    BY <1>1, <1>3, <1>4, <1>9 DEF Agreed
  <2> QED BY <1>1, <2>1, <2>2, <2>3, <2>4, <2>5 DEF Agreed
<1>13. FatalKept'
  BY <1>1, <1>7, <1>8 DEF FatalKept
<1> QED BY <1>1, <1>7, <1>10, <1>11, <1>12, <1>13 DEF CodeInv, Fresh, RunCodeIsHonest


LEMMA HostCode ==
  ASSUME CodeInv, HostStep
  PROVE  CodeInv'
<1> USE DEF helperVars, hostVars, opVars
<1>1. /\ TypeOKCode /\ FatalKept /\ op \in [Calls -> OpStates]
      /\ fatal \in Errors \cup {"none"} /\ result \in Results
      /\ runCtx \in {"live", "cancelled", "expired"}
  BY DEF CodeInv, TypeOKCode
<1>2. CASE ReceiveCall
  BY <1>2, ReceiveCallCode
<1>3. ASSUME Present PROVE \E res \in Results : Leave(res) /\ res \notin {"cancelled", "invalid"}
  BY <1>3 DEF Present, Results, Errors
<1>4. CASE ReceiveDone
  <2>1. /\ host = "loop" /\ toHost # << >> /\ toHost' = Tail(toHost) /\ Present
        /\ runCtx' \in {"live", "cancelled", "expired"}
        /\ UNCHANGED <<helperVars, toHelper, opVars, lastID, fatal, parent>>
    BY <1>1, <1>4 DEF ReceiveDone
  <2> QED BY <1>3, <2>1, LeaveCode
<1>5. CASE ReceiveEOF
  BY <1>1, <1>5, LeaveCode DEF ReceiveEOF, Results, Errors
<1>6. CASE NoticeDone
  <2>1. /\ host = "loop"
        /\ UNCHANGED <<helperVars, toHost, toHelper, opVars, lastID, fatal, runCtx, parent>>
    BY <1>6 DEF NoticeDone
  <2>2. \E res \in Results : /\ Leave(res)
                             /\ res = "cancelled" => parent
                             /\ res = "invalid" => helper = "crashed"
    <3>1. CASE parent /\ Leave("cancelled")
      BY <3>1 DEF Results, Errors
    <3>2. CASE fatal # "none" /\ Leave(fatal)
      BY <1>1, <3>2 DEF Results, FatalKept
    <3>3. CASE Present
      BY <1>3, <3>3
    <3> QED BY <1>6, <3>1, <3>2, <3>3 DEF NoticeDone
  <2> QED BY <1>1, <2>1, <2>2, LeaveCode
<1>7. CASE Cleanup
  <2>1. /\ host = "cleanup" /\ host' = "draining"
        /\ helper' = (IF helper = "crashed" THEN helper ELSE "killed")
        /\ UNCHANGED <<nextID, pending, toHost, toHelper, op, slots, used, exhausted, lastID, result,
                       parent>>
    BY <1>7 DEF Cleanup
  <2>2. /\ runCtx' \in {"live", "cancelled", "expired"}
        /\ fatal' = fatal \/ (fatal \in {"none", "limit"} /\ fatal' = result /\ result \in Errors)
    BY <1>1, <1>7 DEF Cleanup, Fail
  <2>3. fatal' \in Errors \cup {"none"}
    BY <1>1, <2>2
  <2>4. TypeOKCode'
    BY <1>1, <2>1, <2>2, <2>3 DEF TypeOKCode
  <2>5. FatalKept'
    BY <1>1, <2>1, <2>2 DEF FatalKept, Errors
  <2>6. Calling' = Calling
    BY <2>1 DEF Calling
  <2> QED BY <2>1, <2>4, <2>5, <2>6 DEF CodeInv, Fresh, Agreed, RunCodeIsHonest
<1>8. CASE ReturnResult
  <2>1. /\ host = "draining" /\ host' = "returned"
        /\ \A id \in Calls : op[id] \notin {"calling", "responding"}
        /\ result' = (IF parent THEN "cancelled" ELSE IF fatal # "none" THEN fatal ELSE result)
        /\ UNCHANGED <<helper, nextID, pending, toHost, toHelper, op, slots, used, exhausted, lastID,
                       fatal, runCtx, parent>>
    BY <1>8 DEF ReturnResult
  <2>2. result' \in Results
    BY <1>1, <2>1 DEF Results, Errors
  <2>3. TypeOKCode'
    BY <1>1, <2>1, <2>2 DEF TypeOKCode
  <2>4. Calling = {} /\ Calling' = Calling
    BY <2>1 DEF Calling
  <2>5. slots = 0 /\ slots = Cardinality(Calling)
    BY <2>4, FS_EmptySet DEF CodeInv
  <2>6. FatalKept'
    BY <1>1, <2>1 DEF FatalKept
  <2>7. (\E id \in Calls : op[id] = "fatal") => result' \in {"fatal", "invalid", "cancelled"}
    BY <1>1, <2>1 DEF FatalKept
  <2>8. (\E id \in Calls : op[id] = "limit") => result' \in Errors
    BY <1>1, <2>1 DEF FatalKept, Errors
  <2>9. helper \in {"killed", "crashed"}
    BY <2>1 DEF CodeInv
  <2>10. RunCodeIsHonest'
    BY <2>1, <2>5, <2>6, <2>7, <2>8, <2>9 DEF RunCodeIsHonest, FatalKept
  <2> QED BY <2>1, <2>3, <2>4, <2>5, <2>6, <2>9, <2>10 DEF CodeInv, Fresh, Agreed
<1> QED BY <1>2, <1>4, <1>5, <1>6, <1>7, <1>8 DEF HostStep

\* The contexts end: the script's own, or the review's.
LEMMA ContextCode ==
  ASSUME CodeInv, ScriptTimeout \/ ParentDone
  PROVE  CodeInv'
<1> USE DEF helperVars, hostVars, opVars
<1>1. /\ UNCHANGED <<helper, nextID, pending, toHost, toHelper, op, slots, used, exhausted, lastID,
                     host, result, fatal>>
      /\ parent' = TRUE \/ parent' = parent
      /\ runCtx' \in {"live", "cancelled", "expired"}
      /\ runCtx = "cancelled" => runCtx' = runCtx
      /\ TypeOKCode
  BY DEF ScriptTimeout, ParentDone, CodeInv, TypeOKCode
<1>2. TypeOKCode'
  BY <1>1 DEF TypeOKCode
<1>3. Calling' = Calling
  BY <1>1 DEF Calling
<1>4. Fresh' /\ FatalKept'
  BY <1>1 DEF CodeInv, Fresh, FatalKept
<1>5. Agreed'
  BY <1>1, <1>3 DEF CodeInv, Agreed
<1>6. RunCodeIsHonest'
  BY <1>1 DEF CodeInv, RunCodeIsHonest
<1> QED BY <1>1, <1>2, <1>3, <1>4, <1>5, <1>6 DEF CodeInv

\* The result of a call of the loop is charged to the budget.
LEMMA UseCharges ==
  ASSUME used \in 0 .. MaxEvidence, exhausted \in BOOLEAN, UseResult
  PROVE  used' \in 0 .. MaxEvidence /\ exhausted' \in BOOLEAN
<1>1. ASSUME NEW size \in 1 .. MaxResponse, Admit(size)
      PROVE  used' \in 0 .. MaxEvidence /\ exhausted' \in BOOLEAN
  <2>1. CASE Admissible(size) /\ used' = used + size /\ UNCHANGED exhausted
    BY <2>1 DEF Admissible
  <2>2. CASE exhausted' = TRUE /\ UNCHANGED used
    BY <2>2
  <2> QED BY <1>1, <2>1, <2>2 DEF Admit
<1> QED BY <1>1 DEF UseResult

\* CodeInv is an invariant of the review, whose scripts run one at a time.
LEMMA CodeInvariant == Spec => []CodeInv
<1>1. Init => CodeInv
  BY CodeInit DEF Init
<1>2. CodeInv /\ [Next]_vars => CodeInv'
  <2> SUFFICES ASSUME CodeInv, [Next]_vars PROVE CodeInv'
    OBVIOUS
  <2>1. used \in 0 .. MaxEvidence /\ exhausted \in BOOLEAN
    BY DEF CodeInv, TypeOKCode
  <2>2. CASE UNCHANGED codeVars
    BY <2>1, <2>2, CodeFrame DEF codeVars
  <2>3. CASE Generate
    BY <2>2, <2>3 DEF Generate, GenerateFails, GenerateEnds, GenerateCalls
  <2>4. CASE Dispatch
    BY <2>2, <2>4, StartCodeInv DEF Dispatch, AnswerWithLimit, CallTool, CallScript, EndTurn
  <2>5. CASE ToolReturns
    <3>1. used' \in 0 .. MaxEvidence /\ exhausted' \in BOOLEAN
      BY <2>1, <2>5, UseCharges DEF ToolReturns, ReturnCallError
    <3> QED BY <2>5, <3>1, CodeFrame DEF ToolReturns
  <2>6. CASE ScriptReturns
    <3>1. used' \in 0 .. MaxEvidence /\ exhausted' \in BOOLEAN
      BY <2>1, <2>6, UseCharges DEF ScriptReturns, ReturnCallError
    <3> QED BY <2>6, <3>1, ForgetCodeInv DEF ScriptReturns
  <2>7. CASE ScriptStep
    BY <2>7, HelperCode, CallCode, HostCode, ContextCode DEF ScriptStep, NextCode
  <2>8. CASE ReviewDeadline \/ StopService
    BY <2>8, ContextCode DEF ReviewDeadline, StopService
  <2>9. CASE UNCHANGED vars
    BY <2>2, <2>9 DEF vars
  <2> QED BY <2>3, <2>4, <2>5, <2>6, <2>7, <2>8, <2>9 DEF Next
<1> QED BY <1>1, <1>2, PTL DEF Spec

\* RunCode keeps its promise for any number of nested calls and any pipe: no
\* failed or refused call is hidden, a cancellation is the review's own, only a
\* crashed helper is taken for a broken one, and no goroutine, slot or helper is
\* left when it returns.
THEOREM RunCodeKeepsPromise == Spec => []RunCodeIsHonest
<1>1. CodeInv => RunCodeIsHonest
  BY DEF CodeInv
<1> QED BY <1>1, CodeInvariant, PTL

\* The state of the script's host, helper and pipes is well typed; above all,
\* the calls in progress never exceed the slots, nor the evidence its budget.
THEOREM CodeTypeCorrect == Spec => []TypeOKCode
<1>1. CodeInv => TypeOKCode
  BY DEF CodeInv
<1> QED BY <1>1, CodeInvariant, PTL


-----------------------------------------------------------------------------
(* The evidence. *)

\* Every set of numbers has a least one: the form of induction used here.
LEMMA LeastNumber ==
  ASSUME NEW T \in SUBSET Nat, T # {} PROVE \E x \in T : \A y \in T : x <= y
<1>1. PICK x \in T : \A y \in T : ~ (<<y, x>> \in OpToRel(<, Nat))
  BY NatLessThanWellFounded, WFMin, Zenon
<1>2. \A y \in T : ~(y < x)
  BY <1>1 DEF OpToRel
<1> QED BY <1>2

\* The partial sums of a sequence, as Sums defines them.
AreSums(f, s) == f = [n \in 0 .. Len(s) |-> IF n = 0 THEN 0 ELSE f[n - 1] + s[n]]

\* They exist: those of all but the last number can be extended.
LEMMA SumsExist ==
  ASSUME NEW s \in Seq(Nat)
  PROVE  \E f \in [0 .. Len(s) -> Nat] : AreSums(f, s)
<1> DEFINE Has(t) == \E f \in [0 .. Len(t) -> Nat] : AreSums(f, t)
           T == {n \in Nat : \E t \in Seq(Nat) : Len(t) = n /\ ~Has(t)}
<1>1. SUFFICES ASSUME ~Has(s) PROVE FALSE
  OBVIOUS
<1>2. Len(s) \in T
  BY <1>1
<1> HIDE DEF Has
<1>3. PICK m \in T : \A y \in T : m <= y
  BY <1>2, LeastNumber
<1>4. PICK t \in Seq(Nat) : Len(t) = m /\ ~Has(t)
  OBVIOUS
<1>5. m # 0
  <2> SUFFICES ASSUME m = 0 PROVE Has(t)
    BY <1>4
  <2> DEFINE f == [n \in 0 .. Len(t) |-> 0]
  <2>1. f \in [0 .. Len(t) -> Nat]
    OBVIOUS
  <2>2. AreSums(f, t)
    BY <1>4 DEF AreSums
  <2> QED BY <2>1, <2>2 DEF Has
<1> DEFINE p == [n \in 1 .. m - 1 |-> t[n]]
<1>6. /\ p \in Seq(Nat) /\ Len(p) = m - 1 /\ m \in Nat /\ m - 1 \in Nat
      /\ \A n \in 1 .. m - 1 : p[n] = t[n]
  BY <1>4, <1>5
<1> HIDE DEF p
<1>7. Has(p)
  BY <1>3, <1>6
<1>8. PICK f \in [0 .. m - 1 -> Nat] : AreSums(f, p)
  BY <1>6, <1>7 DEF Has
<1>9. \A n \in 0 .. m - 1 : f[n] = IF n = 0 THEN 0 ELSE f[n - 1] + p[n]
  BY <1>6, <1>8 DEF AreSums
<1> DEFINE g == [n \in 0 .. m |-> IF n = m THEN f[m - 1] + t[m] ELSE f[n]]
<1>10. g \in [0 .. m -> Nat]
  BY <1>4, <1>5, <1>6, SMTT(30)
<1>11. \A n \in 0 .. m : g[n] = IF n = 0 THEN 0 ELSE g[n - 1] + t[n]
  <2> SUFFICES ASSUME NEW n \in 0 .. m PROVE g[n] = IF n = 0 THEN 0 ELSE g[n - 1] + t[n]
    OBVIOUS
  <2>1. CASE n = m
    BY <1>5, <1>6, <2>1
  <2>2. CASE n # m
    <3>1. n \in 0 .. m - 1 /\ g[n] = f[n]
      BY <1>6, <2>2
    <3>2. n # 0 => g[n - 1] = f[n - 1] /\ p[n] = t[n]
      BY <1>6, <2>2, SMTT(30)
    <3> QED BY <1>9, <3>1, <3>2
  <2> QED BY <2>1, <2>2
<1>12. AreSums(g, t)
  BY <1>4, <1>10, <1>11 DEF AreSums
<1> QED BY <1>4, <1>10, <1>12 DEF Has

LEMMA SumsAreSums ==
  ASSUME NEW s \in Seq(Nat)
  PROVE  /\ Sums(s) \in [0 .. Len(s) -> Nat]
         /\ Sums(s)[0] = 0
         /\ \A n \in 1 .. Len(s) : Sums(s)[n] = Sums(s)[n - 1] + s[n]
<1>1. Sums(s) = CHOOSE f : AreSums(f, s)
  BY DEF Sums, AreSums
<1>2. AreSums(Sums(s), s)
  BY <1>1, SumsExist
<1> DEFINE h == Sums(s)
<1>3. h = [n \in 0 .. Len(s) |-> IF n = 0 THEN 0 ELSE h[n - 1] + s[n]]
  BY <1>2 DEF AreSums
<1> HIDE DEF h
<1>4. Len(s) \in Nat
  OBVIOUS
<1>5. h[0] = 0 /\ \A n \in 1 .. Len(s) : h[n] = h[n - 1] + s[n]
  BY <1>3, <1>4, SMTT(30)
<1>6. \A n \in 0 .. Len(s) : h[n] \in Nat
  <2> DEFINE T == {n \in 0 .. Len(s) : h[n] \notin Nat}
  <2> SUFFICES ASSUME T # {} PROVE FALSE
    OBVIOUS
  <2>1. T \in SUBSET Nat
    BY <1>4
  <2>2. PICK m \in T : \A y \in T : m <= y
    BY <2>1, LeastNumber, Zenon
  <2>3. m \in 0 .. Len(s) /\ h[m] \notin Nat
    OBVIOUS
  <2>4. m # 0
    BY <1>5, <2>3
  <2>5. m \in 1 .. Len(s) /\ m - 1 \in 0 .. Len(s) /\ ~(m <= m - 1)
    BY <1>4, <2>3, <2>4
  <2>6. h[m - 1] \in Nat
    BY <2>2, <2>5
  <2>7. h[m] = h[m - 1] + s[m] /\ s[m] \in Nat
    BY <1>5, <2>5
  <2> QED BY <2>3, <2>6, <2>7
<1>7. h \in [0 .. Len(s) -> Nat]
  BY <1>3, <1>6
<1> QED BY <1>5, <1>7 DEF h

\* What the sum of a sequence is when a number is appended.
LEMMA TotalOfNone == Total(<< >>) = 0
<1>1. << >> \in Seq(Nat) /\ Len(<< >>) = 0
  OBVIOUS
<1>2. Sums(<< >>)[0] = 0
  BY <1>1, SumsAreSums
<1> QED BY <1>1, <1>2 DEF Total

LEMMA TotalAppends ==
  ASSUME NEW s \in Seq(Nat), NEW x \in Nat, NEW t, t = Append(s, x)
  PROVE  Total(t) = Total(s) + x /\ Total(s) \in Nat
<1>1. /\ t \in Seq(Nat) /\ Len(t) = Len(s) + 1 /\ Len(s) \in Nat /\ t[Len(s) + 1] = x
      /\ \A n \in 1 .. Len(s) : t[n] = s[n]
  OBVIOUS
<1> DEFINE f == Sums(s)
           g == Sums(t)
<1>2. /\ f \in [0 .. Len(s) -> Nat] /\ f[0] = 0
      /\ \A n \in 1 .. Len(s) : f[n] = f[n - 1] + s[n]
  BY SumsAreSums
<1>3. /\ g \in [0 .. Len(t) -> Nat] /\ g[0] = 0
      /\ \A n \in 1 .. Len(t) : g[n] = g[n - 1] + t[n]
  BY <1>1, SumsAreSums
<1> HIDE DEF f, g
<1>4. \A n \in 0 .. Len(s) : f[n] = g[n]
  <2> DEFINE T == {n \in 0 .. Len(s) : f[n] # g[n]}
  <2> SUFFICES ASSUME T # {} PROVE FALSE
    OBVIOUS
  <2>1. T \in SUBSET Nat
    BY <1>1
  <2>2. PICK m \in T : \A y \in T : m <= y
    BY <2>1, LeastNumber, Zenon
  <2>3. m \in 0 .. Len(s) /\ f[m] # g[m]
    OBVIOUS
  <2>4. m # 0
    BY <1>2, <1>3, <2>3
  <2>5. m \in 1 .. Len(s) /\ m \in 1 .. Len(t) /\ m - 1 \in 0 .. Len(s) /\ ~(m <= m - 1)
    BY <1>1, <2>3, <2>4
  <2>6. f[m - 1] = g[m - 1]
    BY <2>2, <2>5
  <2> QED BY <1>1, <1>2, <1>3, <2>3, <2>5, <2>6
<1>5. g[Len(s) + 1] = g[Len(s)] + x
  <2>1. Len(s) + 1 \in 1 .. Len(t) /\ (Len(s) + 1) - 1 = Len(s)
    BY <1>1
  <2> QED BY <1>1, <1>3, <2>1
<1>6. f[Len(s)] \in Nat /\ f[Len(s)] = g[Len(s)]
  BY <1>1, <1>2, <1>4
<1> QED BY <1>1, <1>5, <1>6 DEF Total, f, g


\* The size of a turn's responses, and of one more.
LEMMA SizeAppends ==
  ASSUME NEW r \in ResponseSeq, NEW e \in [call : Tools \cup {"undeclared"}, size : Nat],
         NEW t, t = Append(r, e)
  PROVE  Size(t) = Size(r) + e.size /\ Size(r) \in Nat
<1> DEFINE sizes(q) == [k \in 1 .. Len(q) |-> q[k].size]
<1>1. r \in Seq([call : Tools \cup {"undeclared"}, size : Nat]) /\ Len(r) \in Nat /\ e.size \in Nat
  BY DEF ResponseSeq
<1> DEFINE R == [call : Tools \cup {"undeclared"}, size : Nat]
<1>2. /\ Len(t) = Len(r) + 1 /\ t[Len(r) + 1] = e
      /\ \A k \in 1 .. Len(r) : t[k] = r[k] /\ r[k].size \in Nat
  <2>1. r \in Seq(R) /\ e \in R /\ \A x \in R : x.size \in Nat
    BY <1>1
  <2> HIDE DEF R
  <2>2. \A k \in 1 .. Len(r) : r[k] \in R
    BY <2>1
  <2> QED BY <2>1, <2>2
<1>3. sizes(r) \in Seq(Nat) /\ Len(sizes(r)) = Len(r)
  BY <1>1, <1>2
<1>4. sizes(t) \in Seq(Nat) /\ Len(sizes(t)) = Len(r) + 1
  BY <1>1, <1>2
<1>5. sizes(t) = Append(sizes(r), e.size)
  BY <1>1, <1>2, <1>3, <1>4
<1> HIDE DEF sizes
<1>6. Total(sizes(t)) = Total(sizes(r)) + e.size /\ Total(sizes(r)) \in Nat
  BY <1>1, <1>3, <1>5, TotalAppends
<1> QED BY <1>6 DEF Size, sizes

LEMMA SizeIsNumber ==
  ASSUME NEW r \in ResponseSeq PROVE Size(r) \in Nat
<1> DEFINE e == [call |-> "plain", size |-> 0]
<1>1. e \in [call : Tools \cup {"undeclared"}, size : Nat]
  BY DEF Tools
<1> QED BY <1>1, SizeAppends

LEMMA SizeOfNone == Size(<< >>) = 0
<1>1. [k \in 1 .. Len(<< >>) |-> << >>[k].size] = << >>
  OBVIOUS
<1> QED BY <1>1, TotalOfNone DEF Size

\* What an entry shows of the evidence.
EntrySize(e) == IF e.role = "user" THEN Size(e.parts) ELSE 0

LEMMA EntrySizeIsNumber ==
  ASSUME NEW e \in Entries PROVE EntrySize(e) \in Nat
<1>1. CASE \E c \in CallSeq : e = ModelTurn(c)
  BY <1>1 DEF EntrySize, ModelTurn
<1>2. ASSUME NEW r \in ResponseSeq, e = UserTurn(r) PROVE EntrySize(e) \in Nat
  BY <1>2, SizeIsNumber DEF EntrySize, UserTurn
<1> QED BY <1>1, <1>2 DEF Entries

LEMMA ShownAppends ==
  ASSUME NEW c \in Seq(Entries), NEW e \in Entries, NEW d, d = Append(c, e)
  PROVE  Total(Sizes(d)) = Total(Sizes(c)) + EntrySize(e) /\ Total(Sizes(c)) \in Nat
<1>1. /\ Len(c) \in Nat /\ Len(d) = Len(c) + 1 /\ d[Len(c) + 1] = e
      /\ \A k \in 1 .. Len(c) : d[k] = c[k] /\ c[k] \in Entries
  OBVIOUS
<1>2. /\ Sizes(c) = [k \in 1 .. Len(c) |-> EntrySize(c[k])]
      /\ Sizes(d) = [k \in 1 .. Len(d) |-> EntrySize(d[k])]
  BY DEF Sizes, EntrySize
<1>3. EntrySize(e) \in Nat /\ \A k \in 1 .. Len(c) : EntrySize(c[k]) \in Nat
  BY <1>1, EntrySizeIsNumber
<1>4. Sizes(c) \in Seq(Nat) /\ Len(Sizes(c)) = Len(c)
  BY <1>1, <1>2, <1>3
<1>5. Sizes(d) \in Seq(Nat) /\ Len(Sizes(d)) = Len(c) + 1
  BY <1>1, <1>2, <1>3
<1>6. Sizes(d) = Append(Sizes(c), EntrySize(e))
  BY <1>1, <1>2, <1>3, <1>4, <1>5
<1> QED BY <1>3, <1>4, <1>6, TotalAppends

\* One more response is shown.
LEMMA ResponseIsShown ==
  ASSUME TurnTypes, NEW size \in Nat, NextCall \in DOMAIN calls, UNCHANGED contents,
         responses' = Append(responses, Response(calls[NextCall], size))
  PROVE  Shown' = Shown + size /\ Shown \in Nat
<1> DEFINE e == Response(calls[NextCall], size)
<1>1. /\ e \in [call : Tools \cup {"undeclared"}, size : Nat] /\ e.size = size
      /\ responses \in ResponseSeq /\ contents \in Seq(Entries)
  BY DEF TurnTypes, CallSeq, Response
<1>2. Size(responses') = Size(responses) + size /\ Size(responses) \in Nat
  BY <1>1, SizeAppends
<1>3. Total(Sizes(contents)) \in Nat /\ Total(Sizes(contents')) = Total(Sizes(contents))
  <2>1. ModelTurn(<< >>) \in Entries
    BY NoCalls DEF Entries
  <2> QED BY <1>1, <2>1, ShownAppends
<1> QED BY <1>2, <1>3 DEF Shown

\* The evidence that a call of the loop gathered is shown and charged, or
\* neither.
LEMMA UseIsCharged ==
  ASSUME TurnTypes, NextCall \in DOMAIN calls, used \in Nat, Shown <= used, UseResult
  PROVE  (Shown <= used)'
<1>1. ASSUME UNCHANGED <<contents, responses, used>> PROVE (Shown <= used)'
  BY <1>1 DEF Shown
<1>2. CASE \E err \in FunctionResponseErrors : Return(err) /\ UNCHANGED <<turnVars, used, exhausted>>
  BY <1>1, <1>2 DEF turnVars
<1>3. ASSUME NEW size \in 1 .. MaxResponse, Admit(size) PROVE (Shown <= used)'
  <2>1. CASE /\ used' = used + size /\ UNCHANGED contents
             /\ responses' = Append(responses, Response(calls[NextCall], size))
    <3>1. Shown' = Shown + size /\ Shown \in Nat
      BY <2>1, ResponseIsShown
    <3> QED BY <2>1, <3>1
  <2>2. CASE Limit /\ UNCHANGED used
    <3>1. Shown' = Shown + 0 /\ Shown \in Nat
      BY <2>2, ResponseIsShown DEF Limit, LimitResponse
    <3> QED BY <2>2, <3>1
  <2> QED BY <1>3, <2>1, <2>2 DEF Admit
<1> QED BY <1>2, <1>3 DEF UseResult

\* A turn is added to the conversation: the model's shows nothing new, the
\* user's what the responses showed already.
LEMMA TurnsShowNothingNew ==
  ASSUME TurnTypes
  PROVE  /\ \A turn \in Turns : GenerateCalls(turn) => Shown' = Shown
         /\ EndTurn => Shown' = Shown
<1>1. contents \in Seq(Entries) /\ responses \in ResponseSeq /\ Size(responses) \in Nat
  BY SizeIsNumber DEF TurnTypes
<1>2. ASSUME NEW turn \in Turns, GenerateCalls(turn) PROVE Shown' = Shown
  <2>1. ModelTurn(turn) \in Entries /\ EntrySize(ModelTurn(turn)) = 0
    <3>1. turn \in CallSeq
      BY DEF Turns, CallSeq
    <3> QED BY <3>1 DEF Entries, ModelTurn, EntrySize
  <2>2. contents' = Append(contents, ModelTurn(turn)) /\ UNCHANGED responses
    BY <1>2 DEF GenerateCalls
  <2>3. Total(Sizes(contents')) = Total(Sizes(contents)) + 0 /\ Total(Sizes(contents)) \in Nat
    BY <1>1, <2>1, <2>2, ShownAppends
  <2> QED BY <1>1, <2>2, <2>3 DEF Shown
<1>3. ASSUME EndTurn PROVE Shown' = Shown
  <2>1. UserTurn(responses) \in Entries /\ EntrySize(UserTurn(responses)) = Size(responses)
    BY <1>1 DEF Entries, UserTurn, EntrySize
  <2>2. contents' = Append(contents, UserTurn(responses)) /\ responses' = << >>
    BY <1>3 DEF EndTurn
  <2>3. /\ Total(Sizes(contents')) = Total(Sizes(contents)) + Size(responses)
        /\ Total(Sizes(contents)) \in Nat
    BY <1>1, <2>1, <2>2, ShownAppends
  <2>4. Size(responses') = 0
    BY <2>2, SizeOfNone
  <2> QED BY <1>1, <2>3, <2>4 DEF Shown
<1> QED BY <1>2, <1>3

\* A script only adds to what is charged.
LEMMA ScriptOnlyCharges ==
  ASSUME used \in Nat, NextCode
  PROVE  used' \in Nat /\ used <= used'
<1> USE DEF opVars
<1>1. CASE HelperStep \/ HelperCrashes \/ ScriptTimeout
  BY <1>1 DEF HelperStep, ScriptCalls, ScriptAwaits, ScriptSettles, ScriptEnds, HelperCrashes,
              ScriptTimeout
<1>2. ASSUME NEW id \in Calls, CallStep(id) PROVE used' \in Nat /\ used <= used'
  <2>1. CASE CallSucceeds(id)
    <3>1. PICK size \in 1 .. MaxResponse : used' = used + size \/ used' = used
      BY <2>1 DEF CallSucceeds
    <3> QED BY <3>1
  <2>2. CASE CallRefusesArguments(id) \/ CallFails(id) \/ CallCancelled(id) \/ Respond(id)
    BY <2>2 DEF CallRefusesArguments, CallFails, CallCancelled, Respond
  <2> QED BY <1>2, <2>1, <2>2 DEF CallStep
<1>3. CASE HostStep
  BY <1>3 DEF HostStep, ReceiveCall, ReceiveDone, ReceiveEOF, NoticeDone, Cleanup, ReturnResult
<1> QED BY <1>1, <1>2, <1>3 DEF NextCode

\* Whatever the model was shown was charged, for any budget and any sizes, in
\* conversations of any length, with nested calls charging the same budget.
THEOREM EvidenceStaysCharged == Spec => []EvidenceIsCharged
<1> DEFINE Charged == Shown <= used
<1>1. Init => Charged
  <2> SUFFICES ASSUME Init PROVE Charged
    OBVIOUS
  <2>1. contents = << >> /\ responses = << >> /\ used = 0
    BY DEF Init, InitCode
  <2>2. Sizes(<< >>) = << >>
    BY DEF Sizes
  <2> QED BY <2>1, <2>2, TotalOfNone, SizeOfNone DEF Shown
<1>2. TurnInv /\ CodeInv /\ Charged /\ [Next]_vars => Charged'
  <2> SUFFICES ASSUME TurnInv, CodeInv, Charged, [Next]_vars PROVE Charged'
    OBVIOUS
  <2>1. TurnTypes /\ used \in Nat
    BY DEF TurnInv, CodeInv, TypeOKCode
  <2>2. ASSUME UNCHANGED <<contents, responses>>, used' \in Nat, used <= used' PROVE Charged'
    <3>1. Shown' = Shown /\ Shown \in Nat
      <4>1. Total(Sizes(contents)) \in Nat /\ Size(responses) \in Nat
        <5>1. ModelTurn(<< >>) \in Entries
          BY NoCalls DEF Entries
        <5> QED BY <2>1, <5>1, ShownAppends, SizeIsNumber DEF TurnTypes
      <4> QED BY <2>2, <4>1 DEF Shown
    <3> QED BY <2>1, <2>2, <3>1
  <2>3. ASSUME pc \in {"tool", "script"} PROVE NextCall \in DOMAIN calls
    BY <2>1, <2>3 DEF TurnInv, TurnTypes, WithinTurn, NextCall, CallSeq, ResponseSeq
  <2>4. CASE Generate
    <3>1. CASE GenerateFails \/ GenerateEnds
      BY <2>1, <2>2, <3>1 DEF GenerateFails, GenerateEnds, turnVars, codeVars
    <3>2. ASSUME NEW turn \in Turns, GenerateCalls(turn) PROVE Charged'
      BY <2>1, <3>2, TurnsShowNothingNew DEF GenerateCalls, codeVars
    <3> QED BY <2>4, <3>1, <3>2 DEF Generate
  <2>5. CASE Dispatch
    <3>1. CASE AnswerWithLimit
      <4>1. Shown' = Shown + 0 /\ Shown \in Nat /\ used' = used
        BY <2>1, <3>1, ResponseIsShown DEF AnswerWithLimit, LimitResponse, codeVars
      <4> QED BY <2>1, <4>1
    <3>2. CASE CallTool \/ CallScript
      BY <2>1, <2>2, <3>2 DEF CallTool, CallScript, StartCode, opVars, turnVars, codeVars
    <3>3. CASE EndTurn
      BY <2>1, <3>3, TurnsShowNothingNew DEF EndTurn, codeVars
    <3> QED BY <2>5, <3>1, <3>2, <3>3 DEF Dispatch
  <2>6. CASE ToolReturns
    <3>1. CASE UseResult
      BY <2>1, <2>3, <2>6, <3>1, UseIsCharged DEF ToolReturns
    <3>2. CASE ReturnCallError
      BY <2>1, <2>2, <3>2 DEF ReturnCallError, turnVars
    <3> QED BY <2>6, <3>1, <3>2 DEF ToolReturns
  <2>7. CASE ScriptReturns
    <3>1. CASE UseResult
      BY <2>1, <2>3, <2>7, <3>1, UseIsCharged DEF ScriptReturns
    <3>2. CASE Limit /\ UNCHANGED used
      <4>1. Shown' = Shown + 0 /\ Shown \in Nat
        BY <2>1, <2>3, <2>7, <3>2, ResponseIsShown DEF ScriptReturns, Limit, LimitResponse
      <4> QED BY <2>1, <3>2, <4>1
    <3>3. CASE ReturnCallError
      BY <2>1, <2>2, <3>3 DEF ReturnCallError, turnVars
    <3> QED BY <2>7, <3>1, <3>2, <3>3 DEF ScriptReturns
  <2>8. CASE ScriptStep
    BY <2>1, <2>2, <2>8, ScriptOnlyCharges DEF ScriptStep, loopVars, turnVars
  <2>9. CASE ReviewDeadline \/ StopService
    BY <2>1, <2>2, <2>9 DEF ReviewDeadline, StopService, ParentDone, opVars, loopVars, turnVars
  <2>10. CASE UNCHANGED vars
    BY <2>1, <2>2, <2>10 DEF vars, loopVars, turnVars, codeVars
  <2> QED BY <2>4, <2>5, <2>6, <2>7, <2>8, <2>9, <2>10 DEF Next
<1>3. CodeInv => used <= MaxEvidence
  BY DEF CodeInv, TypeOKCode
<1> QED BY <1>1, <1>2, <1>3, TurnInvariant, CodeInvariant, PTL DEF Spec, EvidenceIsCharged

-----------------------------------------------------------------------------
(* The length of the conversation. *)

\* The loop counts no turns.  What bounds the conversation is the allowance:
\* each pair of turns shows at least one unit of evidence, but for the pair
\* that tells of the limit, after which the model speaks once more.
ConversationIsBounded == Len(contents) <= 2 * MaxEvidence + 3

Answered == Total(Sizes(contents))

\* The bound in terms of what was shown so far.  Within a turn whose limit is
\* not reached each response shows something, and a turn has a call.
LengthInv ==
  /\ pc = "generate" => Len(contents) <= 2 * Answered + (IF finalOnly THEN 2 ELSE 0)
  /\ InTurn => /\ Len(contents) <= 2 * Answered + 1
               /\ Len(calls) > 0
               /\ ~turnLimit => Len(responses) <= Size(responses)
  /\ pc = "returned" => Len(contents) <= 2 * Answered + 3

\* The numbers the bound is about.
LEMMA LengthsAreNumbers ==
  ASSUME TurnTypes
  PROVE  /\ Len(contents) \in Nat /\ Len(calls) \in Nat /\ Len(responses) \in Nat
         /\ Answered \in Nat /\ Size(responses) \in Nat
<1>1. ModelTurn(<< >>) \in Entries
  BY NoCalls DEF Entries
<1>2. Answered \in Nat
  BY <1>1, ShownAppends DEF TurnTypes, Answered
<1>3. contents \in Seq(Entries) /\ calls \in CallSeq /\ responses \in ResponseSeq
  BY DEF TurnTypes
<1>4. Len(contents) \in Nat
  BY <1>3
<1>5. Len(calls) \in Nat
  BY <1>3 DEF CallSeq
<1>6. Len(responses) \in Nat
  BY <1>3 DEF ResponseSeq
<1>7. Size(responses) \in Nat
  BY <1>3, SizeIsNumber
<1> QED BY <1>2, <1>4, <1>5, <1>6, <1>7

\* A step that returns without adding to the conversation, and one that leaves
\* the turn alone.
LEMMA ReturnKeepsLength ==
  ASSUME TurnTypes, LengthInv, pc' = "returned", UNCHANGED contents
  PROVE  LengthInv'
<1>1. Answered' = Answered /\ Len(contents') = Len(contents)
  BY DEF Answered
<1>2. Len(contents) <= 2 * Answered + 3
  BY LengthsAreNumbers DEF LengthInv, TurnTypes
<1> QED BY <1>1, <1>2 DEF LengthInv

LEMMA CallKeepsLength ==
  ASSUME LengthInv, UNCHANGED turnVars, pc' = pc \/ (InTurn /\ InTurn')
  PROVE  LengthInv'
<1>1. /\ UNCHANGED <<contents, calls, responses, turnLimit, finalOnly>>
      /\ Answered' = Answered /\ Size(responses') = Size(responses)
  BY DEF turnVars, Answered
<1> QED BY <1>1 DEF LengthInv

\* A response is added to those of the turn: it shows something, or the limit
\* is reached.
LEMMA RespondKeepsLength ==
  ASSUME TurnTypes, LengthInv, InTurn, pc' = "dispatch", NextCall \in DOMAIN calls,
         NEW size \in Nat, size = 0 => turnLimit', turnLimit => turnLimit',
         responses' = Append(responses, Response(calls[NextCall], size)),
         UNCHANGED <<contents, calls>>
  PROVE  LengthInv'
<1> DEFINE e == Response(calls[NextCall], size)
<1>1. /\ e \in [call : Tools \cup {"undeclared"}, size : Nat] /\ e.size = size
      /\ responses \in ResponseSeq
  BY DEF TurnTypes, CallSeq, Response
<1>2. Size(responses') = Size(responses) + size
  BY <1>1, SizeAppends
<1>3. Len(responses') = Len(responses) + 1
  BY <1>1 DEF ResponseSeq
<1>4. Answered' = Answered /\ Len(contents') = Len(contents) /\ Len(calls') = Len(calls)
  BY DEF Answered
<1>5. ~turnLimit' => Len(responses') <= Size(responses')
  BY <1>2, <1>3, LengthsAreNumbers DEF LengthInv
<1> QED BY <1>4, <1>5 DEF LengthInv

LEMMA UseKeepsLength ==
  ASSUME TurnTypes, LengthInv, pc \in {"tool", "script"}, NextCall \in DOMAIN calls, UseResult
  PROVE  LengthInv'
<1>1. CASE \E err \in FunctionResponseErrors : Return(err) /\ UNCHANGED <<turnVars, used, exhausted>>
  BY <1>1, ReturnKeepsLength DEF Return, turnVars
<1>2. ASSUME NEW size \in 1 .. MaxResponse, Admit(size) PROVE LengthInv'
  <2>1. CASE Limit
    BY <2>1, RespondKeepsLength DEF Limit, LimitResponse
  <2>2. CASE /\ pc' = "dispatch"
             /\ responses' = Append(responses, Response(calls[NextCall], size))
             /\ UNCHANGED <<contents, calls, turnLimit>>
    <3>1. size \in Nat /\ size # 0
      OBVIOUS
    <3> QED BY <2>2, <3>1, RespondKeepsLength
  <2> QED BY <1>2, <2>1, <2>2 DEF Admit
<1> QED BY <1>1, <1>2 DEF UseResult

\* The model's turn adds one entry, and what it asks for is not nothing.
LEMMA CallsKeepLength ==
  ASSUME TurnInv, LengthInv, NEW turn \in Turns, GenerateCalls(turn)
  PROVE  LengthInv'
<1>1. turn \in CallSeq /\ Len(turn) \in Nat /\ Len(turn) > 0
  BY DEF Turns, CallSeq
<1>2. TurnTypes /\ pc = "generate" /\ responses = << >> /\ responses' = << >>
  BY DEF TurnInv, BetweenTurns, GenerateCalls
<1>3. /\ ModelTurn(turn) \in Entries /\ EntrySize(ModelTurn(turn)) = 0
      /\ contents \in Seq(Entries) /\ contents' = Append(contents, ModelTurn(turn))
  BY <1>1, <1>2 DEF Entries, ModelTurn, EntrySize, TurnTypes, GenerateCalls
<1>4. Answered' = Answered + 0 /\ Answered \in Nat
  BY <1>3, ShownAppends DEF Answered
<1>5. Len(contents') = Len(contents) + 1 /\ Len(contents) \in Nat
  BY <1>3
<1>6. Len(responses') <= Size(responses')
  BY <1>2, SizeOfNone
<1>7. CASE pc' = "returned"
  <2>1. Len(contents) <= 2 * Answered + 2
    BY <1>2, <1>4, <1>5 DEF LengthInv
  <2> QED BY <1>4, <1>5, <1>7, <2>1 DEF LengthInv
<1>8. CASE ~finalOnly /\ pc' = "dispatch" /\ calls' = turn
  <2>1. Len(contents) <= 2 * Answered
    BY <1>2, <1>4, <1>5, <1>8 DEF LengthInv
  <2> QED BY <1>1, <1>4, <1>5, <1>6, <1>8, <2>1 DEF LengthInv
<1> QED BY <1>7, <1>8 DEF GenerateCalls, Return

\* The answer to a turn adds one entry, and shows something unless it tells of
\* the limit.
LEMMA EndKeepsLength ==
  ASSUME TurnInv, LengthInv, EndTurn
  PROVE  LengthInv'
<1>1. TurnTypes /\ pc = "dispatch" /\ responses \in ResponseSeq /\ Size(responses) \in Nat
  BY SizeIsNumber DEF TurnInv, TurnTypes, EndTurn
<1>2. /\ UserTurn(responses) \in Entries /\ EntrySize(UserTurn(responses)) = Size(responses)
      /\ contents \in Seq(Entries) /\ contents' = Append(contents, UserTurn(responses))
  BY <1>1 DEF Entries, UserTurn, EntrySize, TurnTypes, EndTurn
<1>3. Answered' = Answered + Size(responses) /\ Answered \in Nat
  BY <1>2, ShownAppends DEF Answered
<1>4. Len(contents') = Len(contents) + 1 /\ Len(contents) \in Nat
  BY <1>2
<1>5. Len(responses) = Len(calls) /\ Len(responses) \in Nat
  BY <1>1 DEF TurnInv, TurnTypes, WithinTurn, EndTurn, NextCall, CallSeq, ResponseSeq
<1>6. /\ Len(contents) <= 2 * Answered + 1 /\ Len(responses) > 0
      /\ ~turnLimit => Len(responses) <= Size(responses)
  BY <1>1, <1>5 DEF LengthInv
<1>7. pc' = "generate" /\ finalOnly' = (finalOnly \/ turnLimit)
  BY DEF EndTurn
<1>8. CASE turnLimit
  <2>1. Len(contents') <= 2 * Answered' + 2
    BY <1>1, <1>3, <1>4, <1>6
  <2>2. finalOnly' = TRUE
    BY <1>7, <1>8
  <2> QED BY <1>7, <2>1, <2>2 DEF LengthInv
<1>9. CASE ~turnLimit
  <2>1. Len(contents') <= 2 * Answered'
    BY <1>1, <1>3, <1>4, <1>5, <1>6, <1>9
  <2>2. Answered' \in Nat /\ Len(contents') \in Nat
    BY <1>1, <1>3, <1>4
  <2> QED BY <1>7, <2>1, <2>2 DEF LengthInv
<1> QED BY <1>8, <1>9

\* A review ends after finitely many turns, whatever the model asks for, by
\* the allowance alone: nothing else in the loop counts turns, and a response
\* admitted without a charge would let it go on until the deadline.
THEOREM ConversationsAreBounded == Spec => []ConversationIsBounded
<1>1. Init => LengthInv
  <2> SUFFICES ASSUME Init PROVE LengthInv
    OBVIOUS
  <2>1. contents = << >> /\ Len(contents) = 0 /\ pc \in {"generate", "returned"}
    BY DEF Init
  <2>2. Sizes(<< >>) = << >>
    BY DEF Sizes
  <2>3. Answered = 0
    BY <2>1, <2>2, TotalOfNone DEF Answered
  <2> QED BY <2>1, <2>3 DEF LengthInv
<1>2. TurnInv /\ LengthInv /\ [Next]_vars => LengthInv'
  <2> SUFFICES ASSUME TurnInv, LengthInv, [Next]_vars PROVE LengthInv'
    OBVIOUS
  <2>1. TurnTypes
    BY DEF TurnInv
  <2>2. ASSUME pc \in {"tool", "script"} PROVE NextCall \in DOMAIN calls
    BY <2>1, <2>2 DEF TurnInv, TurnTypes, WithinTurn, NextCall, CallSeq, ResponseSeq
  <2>3. CASE Generate
    <3>1. CASE GenerateFails \/ GenerateEnds
      BY <2>1, <3>1, ReturnKeepsLength DEF GenerateFails, GenerateEnds, Return, turnVars
    <3> QED BY <2>3, <3>1, CallsKeepLength DEF Generate
  <2>4. CASE Dispatch
    <3>1. CASE AnswerWithLimit
      BY <2>1, <3>1, RespondKeepsLength DEF AnswerWithLimit, LimitResponse
    <3>2. CASE CallTool \/ CallScript
      BY <3>2, CallKeepsLength DEF CallTool, CallScript
    <3> QED BY <2>4, <3>1, <3>2, EndKeepsLength DEF Dispatch
  <2>5. CASE ToolReturns
    BY <2>1, <2>2, <2>5, UseKeepsLength, ReturnKeepsLength
       DEF ToolReturns, ReturnCallError, Return, turnVars
  <2>6. CASE ScriptReturns
    <3>1. CASE UseResult
      BY <2>1, <2>2, <2>6, <3>1, UseKeepsLength DEF ScriptReturns
    <3>2. CASE Limit
      BY <2>1, <2>2, <2>6, <3>2, RespondKeepsLength DEF ScriptReturns, Limit, LimitResponse
    <3>3. CASE ReturnCallError
      BY <2>1, <3>3, ReturnKeepsLength DEF ReturnCallError, Return, turnVars
    <3> QED BY <2>6, <3>1, <3>2, <3>3 DEF ScriptReturns
  <2>7. CASE ScriptStep \/ ReviewDeadline \/ StopService
    BY <2>7, CallKeepsLength DEF ScriptStep, ReviewDeadline, StopService, loopVars
  <2>8. CASE UNCHANGED vars
    BY <2>8, CallKeepsLength DEF vars, loopVars
  <2> QED BY <2>3, <2>4, <2>5, <2>6, <2>7, <2>8 DEF Next
<1>3. TurnInv /\ LengthInv /\ EvidenceIsCharged /\ CodeInv => ConversationIsBounded
  <2> SUFFICES ASSUME TurnInv, LengthInv, EvidenceIsCharged, CodeInv
               PROVE  ConversationIsBounded
    OBVIOUS
  <2>1. /\ TurnTypes /\ Len(contents) \in Nat /\ Answered \in Nat /\ Size(responses) \in Nat
        /\ used \in Nat /\ MaxEvidence \in Nat
    BY LengthsAreNumbers DEF TurnInv, CodeInv, TypeOKCode
  <2>2. Answered <= MaxEvidence
    BY <2>1 DEF EvidenceIsCharged, Shown, Answered
  <2>3. Len(contents) <= 2 * Answered + 3
    BY <2>1 DEF LengthInv, TurnTypes
  <2> QED BY <2>1, <2>2, <2>3 DEF ConversationIsBounded
<1> QED BY <1>1, <1>2, <1>3, TurnInvariant, CodeInvariant, EvidenceStaysCharged, PTL DEF Spec

-----------------------------------------------------------------------------
(* The types of the loop. *)

\* All the calls of a turn are of declared tools, being validated before the
\* first is dispatched; so the responses are too.
LoopTypes ==
  /\ calls \in Turns \cup {<< >>}
  /\ \A k \in DOMAIN calls : calls[k] \in Tools
  /\ responses \in Seq([call : Tools, size : 0 .. MaxResponse])
  /\ stopped \in BOOLEAN /\ outcome \in Outcomes

\* A response is added to those of the turn.
LEMMA RespondKeepsTypes ==
  ASSUME LoopTypes, NextCall \in DOMAIN calls, NEW size \in 0 .. MaxResponse,
         responses' = Append(responses, Response(calls[NextCall], size)),
         UNCHANGED <<calls, stopped, outcome>>
  PROVE  LoopTypes'
<1>1. Response(calls[NextCall], size) \in [call : Tools, size : 0 .. MaxResponse]
  BY DEF LoopTypes, Response
<1> DEFINE R == [call : Tools, size : 0 .. MaxResponse]
<1> HIDE DEF R
<1>2. responses \in Seq(R) /\ Response(calls[NextCall], size) \in R
  BY <1>1 DEF LoopTypes, R
<1>3. responses' \in Seq(R)
  BY <1>2
<1> QED BY <1>3 DEF LoopTypes, R

\* A step that leaves the calls and the responses alone.
LEMMA OthersKeepTypes ==
  ASSUME LoopTypes, UNCHANGED <<calls, responses>>, stopped' \in BOOLEAN, outcome' \in Outcomes
  PROVE  LoopTypes'
BY DEF LoopTypes

LEMMA UseKeepsTypes ==
  ASSUME LoopTypes, NextCall \in DOMAIN calls, UseResult, UNCHANGED stopped
  PROVE  LoopTypes'
<1>1. CASE \E err \in FunctionResponseErrors : Return(err) /\ UNCHANGED <<turnVars, used, exhausted>>
  <2>1. outcome' \in Outcomes
    BY <1>1 DEF Return, FunctionResponseErrors, Outcomes
  <2> QED BY <1>1, <2>1, OthersKeepTypes DEF turnVars, LoopTypes
<1>2. ASSUME NEW size \in 1 .. MaxResponse, Admit(size) PROVE LoopTypes'
  <2>1. size \in 0 .. MaxResponse /\ 0 \in 0 .. MaxResponse
    BY DEF LoopTypes
  <2> QED BY <1>2, <2>1, RespondKeepsTypes DEF Admit, Limit, LimitResponse
<1> QED BY <1>1, <1>2 DEF UseResult

\* Every variable of the loop and of its script keeps its type; above all, only
\* declared tools are dispatched and answered.
THEOREM LoopTypeCorrect == Spec => []TypeOK
<1>1. Init => LoopTypes
  <2> SUFFICES ASSUME Init PROVE LoopTypes
    OBVIOUS
  <2> DEFINE R == [call : Tools, size : 0 .. MaxResponse]
  <2> HIDE DEF R
  <2>1. << >> \in Seq(R) /\ DOMAIN << >> = {}
    OBVIOUS
  <2> QED BY <2>1 DEF Init, LoopTypes, Outcomes, R
<1>2. ASSUME NEW err \in {"retry", "failed"} PROVE ContextError(err) \in Outcomes
  BY DEF ContextError, Outcomes
<1>3. TurnInv /\ LoopTypes /\ [Next]_vars => LoopTypes'
  <2> SUFFICES ASSUME TurnInv, LoopTypes, [Next]_vars PROVE LoopTypes'
    OBVIOUS
  <2>1. stopped \in BOOLEAN /\ outcome \in Outcomes
    BY DEF LoopTypes
  <2>2. ASSUME pc \in {"tool", "script"} PROVE NextCall \in DOMAIN calls
    BY <2>2 DEF TurnInv, TurnTypes, WithinTurn, NextCall, CallSeq, ResponseSeq
  <2>3. CASE Generate
    <3>1. CASE GenerateFails
      BY <2>1, <3>1, <1>2, OthersKeepTypes DEF GenerateFails, Return, turnVars, ClassifyGeminiError
    <3>2. CASE GenerateEnds
      <4>1. outcome' \in Outcomes
        BY <3>2 DEF GenerateEnds, Return, DecodeAndValidate, Outcomes
      <4> QED BY <2>1, <3>2, <4>1, OthersKeepTypes DEF GenerateEnds, turnVars
    <3>3. ASSUME NEW turn \in Turns, GenerateCalls(turn) PROVE LoopTypes'
      <4>1. CASE pc' = "returned" /\ outcome' = "retry" /\ UNCHANGED calls
        <5>1. outcome' \in Outcomes
          BY <4>1 DEF Outcomes
        <5> QED BY <2>1, <3>3, <4>1, <5>1, OthersKeepTypes DEF GenerateCalls
      <4>2. CASE ~ (\E k \in DOMAIN turn : turn[k] \notin Tools) /\ calls' = turn /\ UNCHANGED outcome
        BY <3>3, <4>2 DEF GenerateCalls, LoopTypes
      <4> QED BY <3>3, <4>1, <4>2 DEF GenerateCalls, Return
    <3> QED BY <2>3, <3>1, <3>2, <3>3 DEF Generate
  <2>4. CASE Dispatch
    <3>1. CASE AnswerWithLimit
      <4>1. 0 \in 0 .. MaxResponse
        OBVIOUS
      <4> QED BY <3>1, <4>1, RespondKeepsTypes DEF AnswerWithLimit, LimitResponse
    <3>2. CASE CallTool \/ CallScript
      BY <2>1, <3>2, OthersKeepTypes DEF CallTool, CallScript, turnVars
    <3>3. CASE EndTurn
      <4> DEFINE R == [call : Tools, size : 0 .. MaxResponse]
      <4> HIDE DEF R
      <4>1. << >> \in Seq(R) /\ DOMAIN << >> = {}
        OBVIOUS
      <4> QED BY <2>1, <3>3, <4>1 DEF EndTurn, LoopTypes, R
    <3> QED BY <2>4, <3>1, <3>2, <3>3 DEF Dispatch
  <2>5. CASE ToolReturns
    <3>1. CASE UseResult
      BY <2>2, <2>5, <3>1, UseKeepsTypes DEF ToolReturns
    <3>2. CASE ReturnCallError
      BY <2>1, <2>5, <3>2, <1>2, OthersKeepTypes DEF ToolReturns, ReturnCallError, Return, turnVars
    <3> QED BY <2>5, <3>1, <3>2 DEF ToolReturns
  <2>6. CASE ScriptReturns
    <3>1. CASE UseResult
      BY <2>2, <2>6, <3>1, UseKeepsTypes DEF ScriptReturns
    <3>2. CASE Limit
      <4>1. 0 \in 0 .. MaxResponse
        OBVIOUS
      <4> QED BY <2>2, <2>6, <3>2, <4>1, RespondKeepsTypes DEF ScriptReturns, Limit, LimitResponse
    <3>3. CASE ReturnCallError
      BY <2>1, <2>6, <3>3, <1>2, OthersKeepTypes DEF ScriptReturns, ReturnCallError, Return, turnVars
    <3> QED BY <2>6, <3>1, <3>2, <3>3 DEF ScriptReturns
  <2>7. CASE ScriptStep \/ ReviewDeadline \/ StopService
    BY <2>1, <2>7, OthersKeepTypes DEF ScriptStep, ReviewDeadline, StopService, loopVars, turnVars
  <2>8. CASE UNCHANGED vars
    BY <2>1, <2>8, OthersKeepTypes DEF vars, loopVars, turnVars
  <2> QED BY <2>3, <2>4, <2>5, <2>6, <2>7, <2>8 DEF Next
<1>4. TurnInv /\ CodeInv /\ LoopTypes => TypeOK
  BY DEF TurnInv, TurnTypes, CodeInv, LoopTypes, TypeOK
<1> QED BY <1>1, <1>3, <1>4, TurnInvariant, CodeInvariant, PTL DEF Spec
=============================================================================
