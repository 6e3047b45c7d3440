------------------------------ MODULE GitLabGate ------------------------------
(***************************************************************************)
(* The request gate of the GitLab client (internal/gitlab/client.go): the  *)
(* review worker, the feedback worker and reconciliation send requests     *)
(* through one client; a response that asks for a pause closes the gate    *)
(* for all of them.                                                        *)
(*                                                                         *)
(* Every point in time is kept as the time that remains until it, so that  *)
(* the model needs no clock: Tick brings all of them one unit closer.      *)
(***************************************************************************)
EXTENDS Naturals

CONSTANTS
  Callers,                 \* goroutines that use the client
  MaxSupportedRetryAfter,  \* maxSupportedRetryAfter (24 hours in the code)
  MissingRateLimitDelay    \* missingRateLimitDelay, when 429 names no delay

ASSUME GateAssumption ==
  MaxSupportedRetryAfter \in Nat /\ MissingRateLimitDelay \in 0 .. MaxSupportedRetryAfter

VARIABLES
  notBefore,  \* the gate: time until requests may be sent again
  pc,         \* caller -> idle, look, compare, sleep, send or extend
  until,      \* caller -> what it read of the gate, its timer, or the pause it was given
  asked,      \* ghost: what remains of the pause each caller recorded last
  known       \* ghost: what remains of the pauses recorded when it last looked or woke

vars == <<notBefore, pc, until, asked, known>>

Time == 0 .. MaxSupportedRetryAfter

Init ==
  /\ notBefore = 0
  /\ pc = [c \in Callers |-> "idle"]
  /\ until = [c \in Callers |-> 0]
  /\ asked = [c \in Callers |-> 0]
  /\ known = [c \in Callers |-> 0]

At(c, here) == pc[c] = here
Goto(c, there) == pc' = [pc EXCEPT ![c] = there]
Longer(s, t) == IF s > t THEN s ELSE t

-----------------------------------------------------------------------------
(* requestPath and waitForGate. *)

Request(c) == At(c, "idle") /\ Goto(c, "look") /\ UNCHANGED <<notBefore, until, asked, known>>

\* Read notBefore under the lock.
Look(c) ==
  /\ At(c, "look")
  /\ until' = [until EXCEPT ![c] = notBefore]
  /\ known' = [known EXCEPT ![c] = notBefore]
  /\ Goto(c, "compare")
  /\ UNCHANGED <<notBefore, asked>>

\* Compare it with the clock, after the unlock.
Compare(c) ==
  /\ At(c, "compare")
  /\ Goto(c, IF until[c] = 0 THEN "send" ELSE "sleep")
  /\ UNCHANGED <<notBefore, until, asked, known>>

\* Mutant: the gate is not looked at again after the sleep.
WakeAndSend(c) ==
  /\ At(c, "sleep") /\ until[c] = 0
  /\ known' = [known EXCEPT ![c] = notBefore]
  /\ Goto(c, "send")
  /\ UNCHANGED <<notBefore, until, asked>>

\* The timer fires: the loop looks at the gate again.
Wake(c) ==
  /\ At(c, "sleep") /\ until[c] = 0
  /\ known' = [known EXCEPT ![c] = notBefore]
  /\ Goto(c, "look")
  /\ UNCHANGED <<notBefore, until, asked>>

\* The context is canceled during the sleep or the request.
Cancel(c) ==
  /\ pc[c] \in {"sleep", "send"}
  /\ Goto(c, "idle")
  /\ UNCHANGED <<notBefore, until, asked, known>>

-----------------------------------------------------------------------------
(* statusError and retryableStatus. *)

\* Success, a network failure or a status that is not retryable; or a pause
\* beyond the supported one, which fails the job and leaves the gate alone; or
\* a server failure without Retry-After.
Respond(c) ==
  /\ At(c, "send")
  /\ Goto(c, "idle")
  /\ UNCHANGED <<notBefore, until, asked, known>>

\* A retryable status with a supported Retry-After (seconds, or a date, which
\* may be in the past), or 429 with the default pause.  The end of the pause
\* is computed from the clock before the lock is taken.
RetryableStatus(c, delay) ==
  /\ At(c, "send")
  /\ delay <= MaxSupportedRetryAfter
  /\ until' = [until EXCEPT ![c] = delay]
  /\ Goto(c, "extend")
  /\ UNCHANGED <<notBefore, asked, known>>

RateLimited(c) == RetryableStatus(c, MissingRateLimitDelay)

\* Mutant: the last pause wins.
ExtendGateOverwrites(c) ==
  /\ At(c, "extend")
  /\ notBefore' = until[c]
  /\ asked' = [asked EXCEPT ![c] = Longer(@, until[c])]
  /\ Goto(c, "idle")
  /\ UNCHANGED <<until, known>>

\* The gate only moves forward.
ExtendGate(c) ==
  /\ At(c, "extend")
  /\ notBefore' = Longer(notBefore, until[c])
  /\ asked' = [asked EXCEPT ![c] = Longer(@, until[c])]
  /\ Goto(c, "idle")
  /\ UNCHANGED <<until, known>>

\* Time passes.
Sooner(t) == IF t = 0 THEN 0 ELSE t - 1
Tick ==
  /\ notBefore' = Sooner(notBefore)
  /\ until' = [c \in Callers |-> Sooner(until[c])]
  /\ asked' = [c \in Callers |-> Sooner(asked[c])]
  /\ known' = [c \in Callers |-> Sooner(known[c])]
  /\ UNCHANGED pc

Next ==
  \/ Tick
  \/ \E c \in Callers :
       \/ Request(c) \/ Look(c) \/ Compare(c) \/ Wake(c) \/ Cancel(c)
       \/ Respond(c) \/ RateLimited(c) \/ ExtendGate(c)
       \/ \E delay \in Time : RetryableStatus(c, delay)

Spec == Init /\ [][Next]_vars

-----------------------------------------------------------------------------
(* Properties. *)

\* Type invariant; in particular no response closes the gate for longer than
\* the supported Retry-After.
TypeOK ==
  /\ notBefore \in Time
  /\ pc \in [Callers -> {"idle", "look", "compare", "sleep", "send", "extend"}]
  /\ until \in [Callers -> Time]
  /\ asked \in [Callers -> Time] /\ known \in [Callers -> Time]

\* A pause that one caller recorded is never cut short by another caller's
\* shorter or older one, in whatever order their responses are processed.
PausesAreKept == \A c \in Callers : notBefore >= asked[c]

\* docs/agents/reliability.md: "the shared GitLab request gate delays
\* subsequent application requests".  A request is sent only when every pause
\* that was recorded when its caller last looked or woke has passed, also one
\* recorded while the caller slept.  (A pause recorded after the look does not
\* stop the request: check and send are not atomic.)
NoEarlyRequest == \A c \in Callers : At(c, "send") => known[c] = 0
=============================================================================
