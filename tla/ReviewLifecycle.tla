---------------------------- MODULE ReviewLifecycle ----------------------------
(***************************************************************************)
(* What the store of review jobs promises, without tables: every requested *)
(* revision is pending until it is answered by a published review of its   *)
(* own or by the published review of another revision of the same merge    *)
(* request, is given up (and may be asked for again by an operator), or    *)
(* becomes obsolete.  An answer is final.                                  *)
(***************************************************************************)
EXTENDS Naturals

CONSTANTS Revisions,      \* review identities
          SameMR(_, _),   \* do two revisions belong to one merge request?
          Nobody          \* the answer of a revision that has none

VARIABLES status,  \* absent, pending, answered, failed or obsolete
          answer   \* the revision whose published review answers this one

lifecycleVars == <<status, answer>>

Init ==
  /\ status = [i \in Revisions |-> "absent"]
  /\ answer = [i \in Revisions |-> Nobody]

Request(i) ==
  /\ status[i] \in {"absent", "failed"}
  /\ status' = [status EXCEPT ![i] = "pending"]
  /\ UNCHANGED answer

Publish(i) ==
  /\ status[i] = "pending"
  /\ status' = [status EXCEPT ![i] = "answered"]
  /\ answer' = [answer EXCEPT ![i] = i]

\* Only a revision that was answered by its own review answers another one.
Reuse(i, c) ==
  /\ status[i] = "pending"
  /\ SameMR(i, c)
  /\ status[c] = "answered" /\ answer[c] = c
  /\ status' = [status EXCEPT ![i] = "answered"]
  /\ answer' = [answer EXCEPT ![i] = c]

GiveUp(i) ==
  /\ status[i] = "pending"
  /\ \E end \in {"failed", "obsolete"} : status' = [status EXCEPT ![i] = end]
  /\ UNCHANGED answer

\* A crash may exhaust the attempts of several revisions at once.
GiveUpAll(S) ==
  /\ \A i \in S : status[i] = "pending"
  /\ status' = [i \in Revisions |-> IF i \in S THEN "failed" ELSE status[i]]
  /\ UNCHANGED answer

Next ==
  \/ \E i \in Revisions : Request(i) \/ Publish(i) \/ GiveUp(i)
  \/ \E i, c \in Revisions : Reuse(i, c)
  \/ \E S \in SUBSET Revisions : GiveUpAll(S)

Spec == Init /\ [][Next]_lifecycleVars
=============================================================================
