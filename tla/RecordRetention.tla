--------------------------- MODULE RecordRetention ---------------------------
(***************************************************************************)
(* The destruction of record families (scan event, mail job, attempts,     *)
(* idempotency records) one year after the scan, together with the mail    *)
(* delivery whose rows they are.                                           *)
(*                                                                         *)
(* A destroyed family keeps its last rows in the variables of MailDelivery *)
(* although the database has none: DestroyedStaysGone says that no handler *)
(* writes to them, and LosePoll is what a poll that names one runs into.   *)
(***************************************************************************)
EXTENDS MailDelivery

CONSTANT
  MaxFreezes   \* bound: deletions of the tenant

ASSUME FreezesAssumption == MaxFreezes \in Nat

VARIABLES
  aged,       \* the jobs of the families a year has passed for
  frozen,     \* the tenant is pending deletion, which suspends the destruction
  freezes,
  destroyed   \* the jobs of the families destroyed

retentionVars == <<aged, frozen, freezes, destroyed>>
allVars == <<vars, retentionVars>>

RetentionInit ==
  /\ Init
  /\ aged = {} /\ destroyed = {}
  /\ frozen = FALSE /\ freezes = 0

Age(j) ==
  /\ aged' = aged \cup {j}
  /\ UNCHANGED <<vars, frozen, freezes, destroyed>>

\* The tenant is deleted, then perhaps restored (module TenantLifecycle).
Freeze ==
  /\ frozen' = ~frozen
  /\ frozen \/ freezes < MaxFreezes
  /\ freezes' = IF frozen THEN freezes ELSE freezes + 1
  /\ UNCHANGED <<vars, aged, destroyed>>

HasEnded(j) ==
  /\ job[j].status \in Terminal
  /\ job[j].status = "failed" => job[j].scheduledAt = None

ClosedAlways(a) == attempt[a].completed /\ attempt[a].closed
CallIsOver(a) ==
  /\ attempt[a].completed
  /\ attempt[a].status = "delivery_unknown" => attempt[a].closed

\* What the purge transaction checks under the locks of its rows.
Destroyable(j) ==
  /\ j \in aged /\ ~frozen
  /\ HasEnded(j)
  /\ \A a \in AttemptsOf(j) : CallIsOver(a)
  /\ job[j].status = "delivery_unknown" =>
       \E a \in AttemptsOf(j) : attempt[a].status = "delivery_unknown" /\ attempt[a].closed

\* The candidates' query has the same conditions: a blocked family is passed over.
DestroyFamily(j) ==
  /\ j \notin destroyed
  /\ Destroyable(j)
  /\ destroyed' = destroyed \cup {j}
  /\ UNCHANGED <<vars, aged, frozen, freezes>>

\* The poll acts on a claim of its list.
OnClaim(p) ==
  poll[p].phase \in {"marking_unknown", "requeueing", "closing_unknown", "closing_abandoned"}

\* The rows a poll has listed are not found: the error ends the poll.
LosePoll(p) ==
  /\ \/ poll[p].phase = "recovering" /\ \E s \in poll[p].stale : s.job \in destroyed
     \/ poll[p].phase = "sending" /\ worker[p].pc = "idle" /\ poll[p].due \cap destroyed # {}
     \/ OnClaim(p) /\ poll[p].current.job \in destroyed
  /\ poll' = [poll EXCEPT ![p] = NoPoll]
  /\ UNCHANGED <<job, attempt, worker, calls, mailed, deferrals, rest, retentionVars>>

\* A poll cannot read or write a row of a destroyed family.
FindsRows(p) ==
  /\ \A s \in poll[p].stale : s.job \in destroyed => ~InspectClaim(p, s)
  /\ OnClaim(p) /\ poll[p].current.job \in destroyed =>
       ~(MarkUnknown(p) \/ Requeue(p) \/ CloseRecovered(p))
  /\ \A j \in destroyed : ~NotClaimed(p, j)

Deliver ==
  /\ Next
  /\ \A p \in Pollers : FindsRows(p)
  /\ UNCHANGED retentionVars

RetentionNext ==
  \/ Deliver
  \/ \E p \in Pollers : LosePoll(p)
  \/ \E j \in Jobs : Age(j) \/ DestroyFamily(j)
  \/ Freeze

RetentionSpec == RetentionInit /\ [][RetentionNext]_allVars

\* Polls run as in MailDelivery, a year passes, the retention timer runs every minute.
RetentionFairSpec ==
  /\ RetentionSpec
  /\ Fairness
  /\ \A p \in Pollers : WF_allVars(LosePoll(p))
  /\ \A j \in Jobs : WF_allVars(Age(j)) /\ WF_allVars(DestroyFamily(j))

-----------------------------------------------------------------------------
(***************************************************************************)
(* Properties.                                                             *)
(***************************************************************************)
\* Nothing is destroyed that a worker, a recovery, a request or a closing
\* location still has business with: the family is never written again, and
\* no provider call is made for it.
DestroyedStaysGone ==
  [][\A j \in destroyed :
       /\ job'[j].status = job[j].status
       /\ \A a \in Attempts : attempt'[a] # attempt[a] => attempt'[a].job # j
       /\ \A a \in AttemptsOf(j) : a \in calls' => a \in calls]_allVars

\* A recovery gave the job back and ended before it recorded so in the attempt
\* (mail-jobs.service.ts:511-523): no later recovery finds that attempt.
LeftHalf(j) == OtherAttempts(j) = "lost"

\* The family of a scan that was sent is destroyed in the end, or the tenant is
\* deleted; only a recovery that ended half way may have kept it for good.
SentIsDestroyed ==
  \A j \in Jobs : job[j].status = "sent" ~> j \in destroyed \/ frozen \/ LeftHalf(j)

\* The same without that exception, which the code does not rule out.
EverySentIsDestroyed ==
  \A j \in Jobs : job[j].status = "sent" ~> j \in destroyed \/ frozen

\* So is the family of a job that failed for good.
FailedIsDestroyed ==
  \A j \in Jobs : job[j].status = "failed" ~> j \in destroyed \/ frozen
=============================================================================
