-------------------------- MODULE DeliveryPromise --------------------------
(***************************************************************************)
(* What mail delivery promises of each job, without claims, clocks, polls  *)
(* or crashes: a job is open until it is canceled, given up or called; a   *)
(* refused call may reopen it; an accepted or unanswered one never does.   *)
(***************************************************************************)
CONSTANT Jobs

VARIABLES
  phase,     \* the life of each job
  notified   \* the jobs whose mail the provider has accepted

vars == <<phase, notified>>

Init ==
  /\ phase = [j \in Jobs |-> "open"]
  /\ notified = {}

Cancel(j) ==
  /\ phase[j] = "open"
  /\ phase' = [phase EXCEPT ![j] = "canceled"]
  /\ UNCHANGED notified

\* Closed gates, a closed location: several open jobs may be given up at once.
GiveUp(S) ==
  /\ \A j \in S : phase[j] = "open"
  /\ phase' = [j \in Jobs |-> IF j \in S THEN "failed" ELSE phase[j]]
  /\ UNCHANGED notified

Call(j) ==
  /\ phase[j] = "open" /\ j \notin notified
  /\ phase' = [phase EXCEPT ![j] = "calling"]
  /\ notified' \in {notified, notified \cup {j}}

Refused(j) ==
  /\ phase[j] = "calling" /\ j \notin notified
  /\ \E next \in {"open", "failed"} : phase' = [phase EXCEPT ![j] = next]
  /\ UNCHANGED notified

Accepted(j) ==
  /\ phase[j] = "calling" /\ j \in notified
  /\ phase' = [phase EXCEPT ![j] = "sent"]
  /\ UNCHANGED notified

\* The outcome, or even whether the call was made, is not known.
Lost(j) ==
  /\ phase[j] \in {"open", "calling"}
  /\ phase' = [phase EXCEPT ![j] = "delivery_unknown"]
  /\ UNCHANGED notified

Next ==
  \/ \E j \in Jobs : Cancel(j) \/ Call(j) \/ Refused(j) \/ Accepted(j) \/ Lost(j)
  \/ \E S \in SUBSET Jobs : GiveUp(S)

Spec == Init /\ [][Next]_vars
=============================================================================
