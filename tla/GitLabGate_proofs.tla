-------------------------- MODULE GitLabGate_proofs --------------------------
(***************************************************************************)
(* Theorems about the request gate, for every set of callers and every     *)
(* limit on Retry-After.                                                   *)
(***************************************************************************)
EXTENDS GitLabGate, TLAPS

\* The inductive invariant: what a caller is about to compare with the clock
\* is what it knows of the recorded pauses.
Compared == \A c \in Callers : At(c, "compare") => known[c] = until[c]
IInv == TypeOK /\ PausesAreKept /\ NoEarlyRequest /\ Compared

USE GateAssumption DEF Time

\* The gate invariant holds initially and is preserved by every step of every
\* caller and by the passage of time.
LEMMA GateInvariant == Spec => []IInv
<1>1. Init => IInv
  BY DEF Init, IInv, TypeOK, PausesAreKept, NoEarlyRequest, Compared, At
<1>2. IInv /\ [Next]_vars => IInv'
  <2> SUFFICES ASSUME IInv, [Next]_vars PROVE IInv'
    OBVIOUS
  <2> USE DEF IInv, TypeOK, PausesAreKept, NoEarlyRequest, Compared, At, Goto
  <2>1. CASE Tick
    <3>1. TypeOK'
      BY <2>1 DEF Tick, Sooner
    <3>2. PausesAreKept' /\ NoEarlyRequest' /\ Compared'
      BY <2>1 DEF Tick, Sooner
    <3> QED BY <3>1, <3>2
  <2>2. ASSUME NEW c \in Callers, Request(c) PROVE IInv'
    BY <2>2 DEF Request
  <2>3. ASSUME NEW c \in Callers, Look(c) PROVE IInv'
    BY <2>3 DEF Look
  <2>4. ASSUME NEW c \in Callers, Compare(c) PROVE IInv'
    BY <2>4 DEF Compare
  <2>5. ASSUME NEW c \in Callers, Wake(c) PROVE IInv'
    BY <2>5 DEF Wake
  <2>6. ASSUME NEW c \in Callers, Cancel(c) \/ Respond(c) PROVE IInv'
    BY <2>6 DEF Cancel, Respond
  <2>7. ASSUME NEW c \in Callers, NEW delay \in Nat, RetryableStatus(c, delay) PROVE IInv'
    BY <2>7 DEF RetryableStatus
  <2>8. ASSUME NEW c \in Callers, ExtendGate(c) PROVE IInv'
    <3>1. TypeOK'
      BY <2>8 DEF ExtendGate, Longer
    <3>2. PausesAreKept'
      BY <2>8 DEF ExtendGate, Longer
    <3>3. NoEarlyRequest' /\ Compared'
      BY <2>8 DEF ExtendGate
    <3> QED BY <3>1, <3>2, <3>3
  <2>9. CASE UNCHANGED vars
    BY <2>9 DEF vars
  <2> QED
    BY <2>1, <2>2, <2>3, <2>4, <2>5, <2>6, <2>7, <2>8, <2>9 DEF Next, RateLimited
<1> QED BY <1>1, <1>2, PTL DEF Spec

\* The gate and every timer stay within the supported Retry-After.
THEOREM GateTypeCorrect == Spec => []TypeOK
BY GateInvariant, PTL DEF IInv

\* extendGate never shortens a pause another caller recorded.
THEOREM PausesAreNeverCut == Spec => []PausesAreKept
BY GateInvariant, PTL DEF IInv

\* waitForGate lets a request pass only after all pauses its caller could see.
THEOREM RequestsRespectTheGate == Spec => []NoEarlyRequest
BY GateInvariant, PTL DEF IInv
=============================================================================
