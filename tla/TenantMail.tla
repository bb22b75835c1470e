----------------------------- MODULE TenantMail -----------------------------
(***************************************************************************)
(* The mail of a tenant as its deletion and its purge meet it: one job of  *)
(* MailDelivery with its attempts, seen through the columns the purge      *)
(* reads, and the worker that handles it. At most one does, since a live   *)
(* worker reaches its call before its claim is stale; the call itself may  *)
(* outlast the claim, and is then answered late.                           *)
(***************************************************************************)
CONSTANTS
  Tenants,
  None      \* null

VARIABLES
  mail,     \* the mail job of each tenant with its attempts, None once deleted
  sender    \* how far the worker of that job is

mailVars == <<mail, sender>>

MailStatus == {"waiting", "processing", "settled", "delivery_unknown"}

\* What the attempts show that no claim names any more: all complete; one still to
\* be completed by the recovery that ended its claim; one that was completed by a
\* late answer before that; one that is never completed, or never closed.
Others == {"none", "closing", "answered", "lost"}

MailRow == [status : MailStatus,
            invoked : BOOLEAN,    \* the claimed attempt is stamped as invoked
            closed : BOOLEAN,     \* an unknown delivery has its call closed
            deferred : BOOLEAN,   \* rate-limited before its first refusal
            others : Others]

NewMail == [status |-> "waiting", invoked |-> FALSE, closed |-> TRUE,
            deferred |-> FALSE, others |-> "none"]

MailInit ==
  /\ mail = [t \in Tenants |-> NewMail]
  /\ sender = [t \in Tenants |-> "none"]

Has(t, status) == mail[t] # None /\ mail[t].status = status
Goes(t, pc) == sender' = [sender EXCEPT ![t] = pc]

\* A write finds no row once the tenant's mail is deleted.
Written(t, row) == mail' = [mail EXCEPT ![t] = IF @ = None THEN None ELSE row]

(***************************************************************************)
(* The worker.                                                             *)
(***************************************************************************)
ClaimMail(t) ==
  /\ Has(t, "waiting") /\ sender[t] = "none"
  /\ mail' = [mail EXCEPT ![t].status = "processing"]
  /\ Goes(t, "claimed")

PassGate(t) ==
  /\ sender[t] = "claimed"
  /\ Goes(t, "cleared")
  /\ UNCHANGED mail

\* The attempt is completed with the job; nothing is unknown of it.
Ended(row, status) ==
  [status |-> status, invoked |-> FALSE, closed |-> TRUE, deferred |-> FALSE,
   others |-> row.others]

Block(t) ==
  /\ sender[t] = "claimed"
  /\ Written(t, Ended(mail[t], "settled"))
  /\ Goes(t, "none")

\* Due again at a time of its own, which a job that was never refused may not have
\* when a recovery gives it back.
DeferMail(t, unrefused) ==
  /\ sender[t] = "cleared"
  /\ Written(t, [Ended(mail[t], "waiting") EXCEPT !.deferred = unrefused])
  /\ Goes(t, "none")

\* The boundary is stamped on the attempt's row, then the provider is called.
Call(t) ==
  /\ sender[t] = "cleared"
  /\ \/ /\ mail[t] # None
        /\ mail' = [mail EXCEPT ![t].invoked = TRUE]
        /\ Goes(t, "calling")
     \/ /\ mail[t] = None
        /\ Goes(t, "none")
        /\ UNCHANGED mail

\* A late answer completes an attempt whose claim a recovery has ended.
Late == {<<"closing", "answered">>, <<"lost", "none">>}
OthersAfter(row) ==
  {row.others} \cup {o \in Others : row.status # "processing" /\ <<row.others, o>> \in Late}

\* Accepted or refused, given back for a retry, or an unknown outcome that is
\* closed because this worker knows the call is over.
Answer(t, status, others) ==
  /\ sender[t] = "calling"
  /\ mail[t] # None => others \in OthersAfter(mail[t])
  /\ Written(t, [Ended(mail[t], status) EXCEPT !.others = others])
  /\ Goes(t, "none")

WorkerDies(t) ==
  /\ sender[t] # "none"
  /\ Goes(t, "none")
  /\ UNCHANGED mail

(***************************************************************************)
(* Recovery, cancellation, the closing of a location.                      *)
(***************************************************************************)
\* Without a time of its own a row that waits again satisfies the constraints.
Returns(t) == sender[t] = "none" /\ ~mail[t].deferred

\* First statement: a stale claim is given back if its worker died before the call,
\* else its outcome is unknown and not closed, since the call may still be open.
Recover(t) ==
  /\ Has(t, "processing")
  /\ mail[t].invoked \/ Returns(t)
  /\ LET row == mail[t] IN
     mail' = [mail EXCEPT ![t] =
       [status |-> IF row.invoked THEN "delivery_unknown" ELSE "waiting",
        invoked |-> FALSE, closed |-> ~row.invoked, deferred |-> FALSE,
        others |-> IF row.others = "lost" THEN "lost" ELSE "closing"]]
  /\ UNCHANGED sender

EndedBy(recovery) == IF recovery = "answered" THEN {"none", "lost"} ELSE {"none"}

\* Second statement, of its own: the attempt is completed. One that was answered in
\* between is overwritten, and then unknown and perhaps never closed.
Complete(t) ==
  /\ mail[t] # None /\ mail[t].others \in {"closing", "answered"}
  /\ \E o \in EndedBy(mail[t].others) : mail' = [mail EXCEPT ![t].others = o]
  /\ UNCHANGED sender

Forgotten(row) == [row EXCEPT !.others = IF @ = "closing" THEN "lost" ELSE "none"]

\* The poll ends between the two, for every claim it has read.
RecoveriesEnd(S) ==
  /\ \A t \in S : mail[t] # None /\ mail[t].others \in {"closing", "answered"}
  /\ mail' = [t \in Tenants |-> IF t \in S THEN Forgotten(mail[t]) ELSE mail[t]]
  /\ UNCHANGED sender

\* Canceled by the operator, or failed with its location.
EndMails(S) ==
  /\ \A t \in S : Has(t, "waiting")
  /\ mail' = [t \in Tenants |-> IF t \in S THEN Ended(mail[t], "settled") ELSE mail[t]]
  /\ UNCHANGED sender

Working(t) ==
  \/ ClaimMail(t)
  \/ Block(t)
  \/ \E unrefused \in BOOLEAN : DeferMail(t, unrefused)
  \/ Call(t)
  \/ \E status \in MailStatus \ {"processing"}, others \in Others : Answer(t, status, others)
  \/ Recover(t)
  \/ Complete(t)

MailNext ==
  \/ \E t \in Tenants : Working(t) \/ PassGate(t) \/ WorkerDies(t)
  \/ \E S \in SUBSET Tenants : RecoveriesEnd(S) \/ EndMails(S)

MailSpec == MailInit /\ [][MailNext]_mailVars

(***************************************************************************)
(* What the purge reads.                                                   *)
(***************************************************************************)
UnsafeIfProcessing(t) == mail[t].status = "processing"
UnsafeIfUnknown(t) == mail[t].status \in {"processing", "delivery_unknown"}
                      \/ mail[t].others \in {"closing", "lost"}
Unsafe(t) ==
  \/ mail[t].status = "processing"
  \/ mail[t].others \in {"closing", "lost"}
  \/ mail[t].status = "delivery_unknown" /\ ~mail[t].closed
=============================================================================
