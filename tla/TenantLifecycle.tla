--------------------------- MODULE TenantLifecycle ---------------------------
(***************************************************************************)
(* Deletion, restoration and purge of tenants by platform administrators   *)
(* and the purge scheduler of each backend, together with the subscription *)
(* they suspend and the mail of a tenant that may still be under way.      *)
(*                                                                         *)
(* In production a deleted tenant can be restored until purge_after and is *)
(* purged later; in staging it is removed at once, in two transactions.    *)
(* The mail of a tenant is that of module TenantMail, which MailDelivery   *)
(* implements.                                                             *)
(***************************************************************************)
EXTENDS Naturals, TenantMail

CONSTANTS
  Admins, Backends,
  Grace,        \* ticks from deleted_at to purge_after
  MaxTime,      \* bound: the last tick
  MaxChanges,   \* bound: changes of subscriptions, deletions and restorations
  MaxDeaths,    \* bound: workers that die, polls that end inside a recovery
  MaxFailures   \* bound: purges that fail

ASSUME ConstantsAssumption ==
  /\ Grace \in Nat /\ MaxTime \in Nat /\ MaxChanges \in Nat
  /\ MaxDeaths \in Nat /\ MaxFailures \in Nat
  /\ None \notin Tenants /\ None \notin Nat

VARIABLES
  production,  \* TRUE: APP_ENV=production; FALSE: staging
  clock,
  tenant,   \* the tenants rows
  sub,      \* status and version of each subscription
  seen,     \* the subscription each administrator has on screen
  asked,    \* a staging deletion of each administrator, between its transactions
  sweep,    \* the due tenants each backend has still to purge, with their deadlines
  before,   \* history: tenant and subscription status when the tenant was deleted
  changes, deaths, failures

vars == <<production, clock, tenant, sub, seen, asked, mail, sender, sweep, before, changes, deaths, failures>>
rest == <<production, deaths, failures>>
adminVars == <<seen, asked, before, changes>>

Statuses == {"active", "pending_delete", "purged", "staging_deleting", "gone"}
SubStatus == {"trial", "active", "expired", "suspended"}
Sendable == {"trial", "active"}

TenantRow == [status : Statuses, purgeAfter : Nat \cup {None},
              from : Statuses \cup {None}, fromSub : SubStatus \cup {None}]
Subscription == [status : SubStatus, version : Nat]
Due == [tenant : Tenants, deadline : Nat]

ASSUME NoRowAssumption == None \notin MailRow

Init ==
  /\ production \in BOOLEAN
  /\ clock = 0
  /\ tenant = [t \in Tenants |->
       [status |-> "active", purgeAfter |-> None, from |-> None, fromSub |-> None]]
  /\ sub \in [Tenants -> {[status |-> s, version |-> 1] : s \in {"trial", "active"}}]
  /\ seen = [a \in Admins |-> None]
  /\ asked = [a \in Admins |-> None]
  /\ MailInit
  /\ sweep = [b \in Backends |-> {}]
  /\ before = [t \in Tenants |-> None]
  /\ changes = 0 /\ deaths = 0 /\ failures = 0

(***************************************************************************)
(* Administrators.                                                         *)
(***************************************************************************)
\* The console reads the tenant, and with it the version a change has to name.
Look(a, t) ==
  /\ tenant[t].status # "gone"
  /\ seen[a] # [tenant |-> t, sub |-> sub[t]]
  /\ seen' = [seen EXCEPT ![a] = [tenant |-> t, sub |-> sub[t]]]
  /\ UNCHANGED <<clock, tenant, sub, asked, before, changes, mailVars, sweep, rest>>

Locked == {"pending_delete", "purged", "staging_deleting", "gone"}
EvenDeleted(t) == tenant[t].status # "gone"
Changeable(t) == tenant[t].status \notin Locked
SameVersion(a, t) == seen[a].sub.version = sub[t].version
Bumped(v) == v + 1

\* Under the lock of the tenant's row, if the version is still the one seen.
UpdateSubscription(a, t, status) ==
  /\ changes < MaxChanges
  /\ seen[a] # None /\ seen[a].tenant = t
  /\ Changeable(t)
  /\ SameVersion(a, t)
  /\ sub' = [sub EXCEPT ![t] = [status |-> status, version |-> Bumped(@.version)]]
  /\ changes' = changes + 1
  /\ UNCHANGED <<clock, tenant, seen, asked, before, mailVars, sweep, rest>>

Overwrites(t) == tenant[t].status \notin {"purged", "staging_deleting", "gone"}
Deletable(t) == tenant[t].status \notin Locked

DeletedRow(t) ==
  [status |-> "pending_delete", purgeAfter |-> clock + Grace,
   from |-> tenant[t].status, fromSub |-> sub[t].status]

\* Production: a tenant already pending is answered again and left unchanged.
Delete(t) ==
  /\ production /\ changes < MaxChanges
  /\ Deletable(t) /\ sub[t].status # "active"
  /\ tenant' = [tenant EXCEPT ![t] = DeletedRow(t)]
  /\ sub' = [sub EXCEPT ![t] = [status |-> "suspended", version |-> Bumped(@.version)]]
  /\ before' = [before EXCEPT ![t] =
       IF tenant[t].status = "pending_delete" THEN @
       ELSE [status |-> tenant[t].status, sub |-> sub[t].status]]
  /\ changes' = changes + 1
  /\ UNCHANGED <<clock, seen, asked, mailVars, sweep, rest>>

\* Strictly before purge_after; rolled back unless the subscription is suspended.
Restore(t) ==
  /\ production /\ changes < MaxChanges
  /\ tenant[t].status = "pending_delete"
  /\ tenant[t].from # "pending_delete" /\ tenant[t].purgeAfter > clock
  /\ sub[t].status = "suspended"
  /\ tenant' = [tenant EXCEPT ![t] =
       [status |-> @.from, purgeAfter |-> None, from |-> None, fromSub |-> None]]
  /\ sub' = [sub EXCEPT ![t] =
       [status |-> tenant[t].fromSub, version |-> Bumped(@.version)]]
  /\ changes' = changes + 1
  /\ UNCHANGED <<clock, seen, asked, before, mailVars, sweep, rest>>

\* Staging, first transaction: the tenant is blocked, or was blocked or removed before.
StartStagingDelete(a, t) ==
  /\ ~production /\ changes < MaxChanges
  /\ asked[a] # None => asked[a].done
  /\ \/ /\ Deletable(t) /\ sub[t].status # "active"
        /\ tenant' = [tenant EXCEPT ![t].status = "staging_deleting"]
        /\ sub' = [sub EXCEPT ![t] = [status |-> "suspended", version |-> Bumped(@.version)]]
     \/ tenant[t].status \in {"staging_deleting", "gone"} /\ UNCHANGED <<tenant, sub>>
  /\ asked' = [asked EXCEPT ![a] = [tenant |-> t, done |-> tenant[t].status = "gone"]]
  /\ changes' = changes + 1
  /\ UNCHANGED <<clock, seen, before, mailVars, sweep, rest>>

\* Second transaction: every row of the tenant, its audit proof excepted.
FinishStagingDelete(a) ==
  /\ asked[a] # None /\ ~asked[a].done
  /\ LET t == asked[a].tenant IN
     /\ tenant' = [tenant EXCEPT ![t].status = "gone"]
     /\ mail' = [mail EXCEPT ![t] = None]
  /\ asked' = [asked EXCEPT ![a].done = TRUE]
  /\ UNCHANGED <<clock, sub, seen, before, changes, sender, sweep, rest>>

AnsweredError(a) == None

\* The second transaction fails or times out; the tenant stays blocked.
FailStagingDelete(a) ==
  /\ asked[a] # None /\ ~asked[a].done
  /\ failures < MaxFailures /\ failures' = failures + 1
  /\ asked' = [asked EXCEPT ![a] = AnsweredError(a)]
  /\ UNCHANGED <<clock, tenant, sub, seen, before, changes, mailVars, sweep, production, deaths>>

(***************************************************************************)
(* The mail of a tenant.                                                   *)
(***************************************************************************)
Mailing(t) ==
  /\ Working(t)
  /\ UNCHANGED <<clock, tenant, sub, adminVars, sweep, rest>>

\* The subscription is read; whether its interval has ended is the calendar's.
SubscriptionAllows(t) ==
  /\ sub[t].status \in Sendable
  /\ PassGate(t)
  /\ UNCHANGED <<clock, tenant, sub, adminVars, sweep, rest>>

\* Canceled by the operator, or failed with its location: nobody's duty.
MailEnds(S) ==
  /\ EndMails(S)
  /\ UNCHANGED <<clock, tenant, sub, adminVars, sweep, rest>>

\* A crash, or a statement that fails, ends the worker or the poll that recovers.
Dies ==
  /\ deaths < MaxDeaths /\ deaths' = deaths + 1
  /\ \/ \E t \in Tenants : WorkerDies(t)
     \/ \E S \in SUBSET Tenants : RecoveriesEnd(S)
  /\ UNCHANGED <<clock, tenant, sub, adminVars, sweep, production, failures>>

(***************************************************************************)
(* The purge scheduler (production).                                       *)
(***************************************************************************)
IsDue(t) == tenant[t].status = "pending_delete" /\ tenant[t].purgeAfter <= clock

Scan(b) ==
  /\ production /\ sweep[b] = {} /\ \E t \in Tenants : IsDue(t)
  /\ sweep' = [sweep EXCEPT ![b] =
       {[tenant |-> t, deadline |-> tenant[t].purgeAfter] : t \in {u \in Tenants : IsDue(u)}}]
  /\ UNCHANGED <<clock, tenant, sub, adminVars, mailVars, rest>>

First(b, d) == d \in sweep[b] /\ \A e \in sweep[b] : d.deadline <= e.deadline

\* Not due any more or already purged: the next one.
Skip(b, d) ==
  /\ First(b, d) /\ ~IsDue(d.tenant)
  /\ sweep' = [sweep EXCEPT ![b] = @ \ {d}]
  /\ UNCHANGED <<clock, tenant, sub, adminVars, mailVars, rest>>

\* Mail in flight, or a failed transaction, ends the whole run.
GiveUp(b, d) ==
  /\ First(b, d) /\ IsDue(d.tenant)
  /\ \/ Unsafe(d.tenant) /\ UNCHANGED failures
     \/ ~Unsafe(d.tenant) /\ failures < MaxFailures /\ failures' = failures + 1
  /\ sweep' = [sweep EXCEPT ![b] = {}]
  /\ UNCHANGED <<clock, tenant, sub, adminVars, mailVars, production, deaths>>

Purge(b, d) ==
  /\ First(b, d) /\ IsDue(d.tenant) /\ ~Unsafe(d.tenant)
  /\ sub[d.tenant].status = "suspended"
  /\ tenant' = [tenant EXCEPT ![d.tenant].status = "purged"]
  /\ sub' = [sub EXCEPT ![d.tenant].version = @ + 1]
  /\ mail' = [mail EXCEPT ![d.tenant] = None]
  /\ sweep' = [sweep EXCEPT ![b] = @ \ {d}]
  /\ UNCHANGED <<clock, adminVars, sender, rest>>

Tick ==
  /\ clock < MaxTime
  /\ clock' = clock + 1
  /\ UNCHANGED <<tenant, sub, adminVars, mailVars, sweep, rest>>

-----------------------------------------------------------------------------
Sweeping(b) ==
  \/ Scan(b)
  \/ \E d \in sweep[b] : Skip(b, d) \/ GiveUp(b, d) \/ Purge(b, d)

Administering(a) ==
  \/ \E t \in Tenants :
       \/ Look(a, t)
       \/ \E s \in SubStatus : UpdateSubscription(a, t, s)
       \/ StartStagingDelete(a, t)
  \/ FinishStagingDelete(a)
  \/ FailStagingDelete(a)

Next ==
  \/ \E a \in Admins : Administering(a)
  \/ \E t \in Tenants : Delete(t) \/ Restore(t) \/ Mailing(t) \/ SubscriptionAllows(t)
  \/ \E S \in SUBSET Tenants : MailEnds(S)
  \/ Dies
  \/ \E b \in Backends : Sweeping(b)
  \/ Tick

Spec == Init /\ [][Next]_vars

\* Pollers and schedulers keep running; a call that was made is answered.
Fairness ==
  /\ \A t \in Tenants : WF_vars(Mailing(t) \/ SubscriptionAllows(t))
  /\ \A b \in Backends : WF_vars(Sweeping(b))
  /\ WF_vars(Tick)
FairSpec == Spec /\ Fairness

-----------------------------------------------------------------------------
(***************************************************************************)
(* Properties.                                                             *)
(***************************************************************************)
\* The variables keep their types.
TypeOK ==
  /\ production \in BOOLEAN
  /\ clock \in Nat
  /\ tenant \in [Tenants -> TenantRow]
  /\ sub \in [Tenants -> Subscription]
  /\ seen \in [Admins -> [tenant : Tenants, sub : Subscription] \cup {None}]
  /\ asked \in [Admins -> [tenant : Tenants, done : BOOLEAN] \cup {None}]
  /\ mail \in [Tenants -> MailRow \cup {None}]
  /\ sender \in [Tenants -> {"none", "claimed", "cleared", "calling"}]
  /\ sweep \in [Backends -> SUBSET Due]
  /\ before \in [Tenants -> [status : Statuses, sub : SubStatus] \cup {None}]
  /\ changes \in Nat /\ deaths \in Nat /\ failures \in Nat

\* A deleted tenant stays suspended, so that the gate blocks its mail, until it
\* is restored: no ordinary change of the subscription reopens it.
DeletedStaysSuspended ==
  \A t \in Tenants :
    tenant[t].status \in {"pending_delete", "purged", "staging_deleting"}
      => sub[t].status = "suspended"

\* What a restoration would bring back is what the tenant was when it was
\* deleted, however often the deletion was repeated.
RestoreUndoesDelete ==
  \A t \in Tenants :
    tenant[t].status = "pending_delete"
      => before[t] = [status |-> tenant[t].from, sub |-> tenant[t].fromSub]

\* No provider call of a tenant is open or still to come once it is purged,
\* although the calls are made outside any transaction and a recovery may have
\* ended the attempt of a call that is still open.
NoCallAfterPurge ==
  \A t \in Tenants : tenant[t].status = "purged" => sender[t] = "none"

\* An administrator's change replaces the subscription they saw, never one that
\* another change, a deletion or a restoration has put there since.
NoLostUpdate ==
  [][\A a \in Admins, t \in Tenants, s \in SubStatus :
       UpdateSubscription(a, t, s) => seen[a].sub = sub[t]]_vars

\* A staging deletion is reported done only when the tenant and its mail are
\* gone, whichever of several requests removed them and whatever failed.
StagingAnswerIsTrue ==
  \A a \in Admins : asked[a] # None /\ asked[a].done
    => tenant[asked[a].tenant].status = "gone" /\ mail[asked[a].tenant] = None

\* A tenant whose restoration period is over is purged in the end, unless a
\* delivery, its own or another tenant's, was left behind by a worker or a recovery
\* that died: its call open, its attempt incomplete, or its job not to be given back.
LeftOpen(t) == mail[t] # None /\ mail[t].status = "delivery_unknown" /\ ~mail[t].closed
LeftIncomplete(t) == mail[t] # None /\ mail[t].others = "lost"
LeftProcessing(t) == Has(t, "processing") /\ sender[t] = "none" /\ ~mail[t].invoked /\ mail[t].deferred
LeftBehind(t) == LeftOpen(t) \/ LeftIncomplete(t) \/ LeftProcessing(t)
DueTenantIsPurged ==
  \A t \in Tenants : IsDue(t) ~> tenant[t].status = "purged" \/ \E u \in Tenants : LeftBehind(u)

\* One whose own mail is settled is purged, whatever became of another's.
SettledMail(t) == mail[t] # None /\ mail[t].status = "settled"
SettledTenantIsPurged ==
  \A t \in Tenants : IsDue(t) /\ SettledMail(t) ~> tenant[t].status = "purged"
=============================================================================
