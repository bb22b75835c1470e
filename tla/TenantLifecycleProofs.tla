------------------------ MODULE TenantLifecycleProofs -----------------------
(***************************************************************************)
(* Proofs about TenantLifecycle, for any tenants, administrators and       *)
(* backends and any period of grace: a deleted tenant is suspended, its    *)
(* restoration brings back what was deleted, no call survives its purge,   *)
(* no change of a subscription is lost, and a staging deletion is answered *)
(* when it is done.                                                        *)
(***************************************************************************)
EXTENDS TenantLifecycle, TLAPS

CanComeBack(row) == row.purgeAfter \in Nat /\ row.from = "active" /\ row.fromSub \in SubStatus

\* What is pending or purged is of production; what is pending has its deadline, and
\* was active.
DeletionsAreComplete ==
  /\ \A t \in Tenants :
       /\ tenant[t].status \in {"pending_delete", "purged"} => production
       /\ tenant[t].status = "pending_delete" => CanComeBack(tenant[t])
  /\ \A a \in Admins : asked[a] # None => ~production

Pcs == {"none", "claimed", "cleared", "calling"}

\* What a worker is about to do can be told from the columns of its mail.
Stage(state, row) ==
  /\ row.invoked => row.status = "processing"
  /\ state \in {"claimed", "cleared"} => row.status = "processing" /\ ~row.invoked
  /\ state = "calling" => \/ row.status = "processing" /\ row.invoked
                          \/ row.status = "delivery_unknown" /\ ~row.closed

SendersAreVisible ==
  \A t \in Tenants : IF mail[t] = None THEN production => sender[t] = "none"
                                       ELSE Stage(sender[t], mail[t])

PurgedHasNoMail == \A t \in Tenants : tenant[t].status = "purged" => mail[t] = None

IInv ==
  /\ TypeOK
  /\ DeletionsAreComplete
  /\ SendersAreVisible
  /\ PurgedHasNoMail
  /\ DeletedStaysSuspended
  /\ RestoreUndoesDelete

\* The parts that the steps of administrators and those of mail keep.
TenantPart == DeletionsAreComplete /\ DeletedStaysSuspended /\ RestoreUndoesDelete
MailPart == SendersAreVisible /\ PurgedHasNoMail

-----------------------------------------------------------------------------
LEMMA InitHolds == Init => IInv
<1> SUFFICES ASSUME Init PROVE IInv
  OBVIOUS
<1>1. TypeOK
  <2>1. tenant \in [Tenants -> TenantRow]
    BY DEF Init, TenantRow, Statuses
  <2>2. sub \in [Tenants -> Subscription]
    BY DEF Init, Subscription, SubStatus
  <2>3. mail \in [Tenants -> MailRow \cup {None}]
    BY DEF Init, MailInit, NewMail, MailRow, MailStatus, Others
  <2> QED BY <2>1, <2>2, <2>3 DEF Init, MailInit, TypeOK
<1>2. TenantPart
  BY DEF Init, TenantPart, DeletionsAreComplete, DeletedStaysSuspended, RestoreUndoesDelete
<1>3. MailPart
  BY DEF Init, MailInit, NewMail, MailPart, SendersAreVisible, PurgedHasNoMail, Stage
<1> QED BY <1>1, <1>2, <1>3 DEF IInv, TenantPart, MailPart

\* Steps that touch neither tenants nor mail.
LEMMA ViewStep ==
  ASSUME IInv, TypeOK', UNCHANGED <<production, tenant, sub, before, mail, sender>>,
         \A a \in Admins : asked'[a] # None => asked[a] # None
  PROVE  IInv'
BY DEF IInv, DeletionsAreComplete, SendersAreVisible, PurgedHasNoMail, DeletedStaysSuspended,
       RestoreUndoesDelete

\* Steps of administrators: what becomes of one tenant and its subscription.
LEMMA TenantStep ==
  ASSUME IInv, NEW t \in Tenants, NEW row \in TenantRow, NEW s \in Subscription,
         tenant' = [tenant EXCEPT ![t] = row], sub' = [sub EXCEPT ![t] = s],
         before' \in [Tenants -> [status : Statuses, sub : SubStatus] \cup {None}],
         \A u \in Tenants : u # t => before'[u] = before[u],
         row.status # "purged",
         row.status \in {"pending_delete", "staging_deleting"} => s.status = "suspended",
         row.status = "pending_delete" => /\ production /\ CanComeBack(row)
                                          /\ before'[t] = [status |-> row.from, sub |-> row.fromSub],
         asked' \in [Admins -> [tenant : Tenants, done : BOOLEAN] \cup {None}],
         \A a \in Admins : asked'[a] # None => asked[a] # None \/ ~production,
         seen' \in [Admins -> [tenant : Tenants, sub : Subscription] \cup {None}],
         changes' \in Nat,
         UNCHANGED <<production, clock, mail, sender, sweep, deaths, failures>>
  PROVE  IInv'
<1>1. TypeOK'
  BY DEF IInv, TypeOK
<1>2. \A u \in Tenants : /\ tenant'[u] = IF u = t THEN row ELSE tenant[u]
                         /\ sub'[u] = IF u = t THEN s ELSE sub[u]
  BY DEF IInv, TypeOK
<1>3. DeletionsAreComplete'
  BY <1>2 DEF IInv, DeletionsAreComplete
<1>4. DeletedStaysSuspended'
  BY <1>2 DEF IInv, DeletedStaysSuspended
<1>5. RestoreUndoesDelete'
  <2> SUFFICES ASSUME NEW u \in Tenants, tenant'[u].status = "pending_delete"
               PROVE  before'[u] = [status |-> tenant'[u].from, sub |-> tenant'[u].fromSub]
    BY DEF RestoreUndoesDelete
  <2>1. CASE u = t
    BY <2>1, <1>2
  <2>2. CASE u # t
    <3>1. tenant'[u] = tenant[u] /\ before'[u] = before[u]
      BY <2>2, <1>2
    <3> QED BY <3>1 DEF IInv, RestoreUndoesDelete
  <2> QED BY <2>1, <2>2
<1>6. SendersAreVisible'
  BY DEF IInv, SendersAreVisible
<1>7. PurgedHasNoMail'
  BY <1>2 DEF IInv, PurgedHasNoMail
<1> QED BY <1>1, <1>3, <1>4, <1>5, <1>6, <1>7 DEF IInv

LEMMA Rows ==
  ASSUME IInv, NEW t \in Tenants
  PROVE  /\ tenant[t] \in TenantRow /\ sub[t] \in Subscription
         /\ mail[t] \in MailRow \cup {None} /\ sender[t] \in {"none", "claimed", "cleared", "calling"}
         /\ tenant = [tenant EXCEPT ![t] = tenant[t]] /\ sub = [sub EXCEPT ![t] = sub[t]]
         /\ mail = [mail EXCEPT ![t] = mail[t]] /\ sender = [sender EXCEPT ![t] = sender[t]]
         /\ changes \in Nat /\ deaths \in Nat /\ failures \in Nat /\ clock \in Nat
BY DEF IInv, TypeOK

-----------------------------------------------------------------------------
(***************************************************************************)
(* Administrators.                                                         *)
(***************************************************************************)
LEMMA LookStep == ASSUME IInv, NEW a \in Admins, NEW t \in Tenants, Look(a, t) PROVE IInv'
<1>1. TypeOK'
  BY Rows DEF Look, IInv, TypeOK, mailVars, rest
<1> QED BY <1>1, ViewStep DEF Look, mailVars, rest

LEMMA UpdateStep ==
  ASSUME IInv, NEW a \in Admins, NEW t \in Tenants, NEW status \in SubStatus,
         UpdateSubscription(a, t, status)
  PROVE  IInv'
<1> DEFINE s == [status |-> status, version |-> sub[t].version + 1]
<1>1. s \in Subscription
  BY Rows DEF Subscription
<1>2. sub' = [sub EXCEPT ![t] = s]
  BY DEF UpdateSubscription, Bumped
<1> HIDE DEF s
<1>3. /\ tenant' = [tenant EXCEPT ![t] = tenant[t]] /\ changes' \in Nat
      /\ tenant[t].status \notin {"pending_delete", "purged", "staging_deleting"}
      /\ UNCHANGED <<production, clock, tenant, seen, asked, before, mail, sender, sweep, deaths, failures>>
  BY Rows DEF UpdateSubscription, Changeable, Locked, mailVars, rest
<1>4. /\ before' \in [Tenants -> [status : Statuses, sub : SubStatus] \cup {None}]
      /\ asked' \in [Admins -> [tenant : Tenants, done : BOOLEAN] \cup {None}]
      /\ seen' \in [Admins -> [tenant : Tenants, sub : Subscription] \cup {None}]
  BY <1>3 DEF IInv, TypeOK
<1> QED BY <1>1, <1>2, <1>3, <1>4, Rows, TenantStep

LEMMA DeleteStep == ASSUME IInv, NEW t \in Tenants, Delete(t) PROVE IInv'
<1> DEFINE row == DeletedRow(t)
           s == [status |-> "suspended", version |-> sub[t].version + 1]
           was == [status |-> tenant[t].status, sub |-> sub[t].status]
<1>1. tenant[t].status = "active"
  BY Rows DEF Delete, Deletable, Locked, TenantRow, Statuses
<1>2. sub[t].status \in SubStatus /\ sub[t].version \in Nat
  BY Rows DEF Subscription
<1>3. clock + Grace \in Nat
  BY Rows, ConstantsAssumption
<1>4. /\ row \in TenantRow /\ row.status = "pending_delete" /\ row.from = "active"
      /\ row.fromSub = sub[t].status /\ CanComeBack(row)
  BY <1>1, <1>2, <1>3 DEF DeletedRow, TenantRow, Statuses, CanComeBack
<1>5. s \in Subscription /\ s.status = "suspended"
  BY <1>2 DEF Subscription, SubStatus
<1>6. was \in [status : Statuses, sub : SubStatus] /\ was = [status |-> row.from, sub |-> row.fromSub]
  BY <1>1, <1>2, <1>4 DEF Statuses
<1>7. /\ tenant' = [tenant EXCEPT ![t] = row] /\ sub' = [sub EXCEPT ![t] = s]
      /\ before' = [before EXCEPT ![t] = was]
      /\ production /\ changes' = changes + 1
      /\ UNCHANGED <<production, clock, seen, asked, mail, sender, sweep, deaths, failures>>
  BY <1>1 DEF Delete, Bumped, mailVars, rest
<1> HIDE DEF row, s, was
<1>8. /\ before' \in [Tenants -> [status : Statuses, sub : SubStatus] \cup {None}]
      /\ before'[t] = was /\ \A u \in Tenants : u # t => before'[u] = before[u]
      /\ asked' \in [Admins -> [tenant : Tenants, done : BOOLEAN] \cup {None}]
      /\ seen' \in [Admins -> [tenant : Tenants, sub : Subscription] \cup {None}]
      /\ changes' \in Nat
  BY <1>6, <1>7 DEF IInv, TypeOK
<1> QED BY <1>4, <1>5, <1>6, <1>7, <1>8, TenantStep

LEMMA RestoreStep == ASSUME IInv, NEW t \in Tenants, Restore(t) PROVE IInv'
<1> DEFINE row == [status |-> tenant[t].from, purgeAfter |-> None, from |-> None, fromSub |-> None]
           s == [status |-> tenant[t].fromSub, version |-> sub[t].version + 1]
<1>1. tenant[t].from = "active"
  BY DEF Restore, IInv, DeletionsAreComplete, CanComeBack
<1>2. tenant[t].fromSub \in SubStatus
  BY DEF Restore, IInv, DeletionsAreComplete, CanComeBack
<1>3. row \in TenantRow /\ row.status = "active"
  BY <1>1 DEF TenantRow, Statuses
<1>4. s \in Subscription
  BY <1>2, Rows DEF Subscription
<1>5. /\ tenant' = [tenant EXCEPT ![t] = row] /\ sub' = [sub EXCEPT ![t] = s]
      /\ changes' = changes + 1
      /\ UNCHANGED <<production, clock, seen, asked, before, mail, sender, sweep, deaths, failures>>
  BY DEF Restore, Bumped, mailVars, rest
<1> HIDE DEF row, s
<1>6. /\ before' \in [Tenants -> [status : Statuses, sub : SubStatus] \cup {None}]
      /\ asked' \in [Admins -> [tenant : Tenants, done : BOOLEAN] \cup {None}]
      /\ seen' \in [Admins -> [tenant : Tenants, sub : Subscription] \cup {None}]
      /\ changes' \in Nat
  BY <1>5 DEF IInv, TypeOK
<1> QED BY <1>3, <1>4, <1>5, <1>6, TenantStep

LEMMA StartStagingStep ==
  ASSUME IInv, NEW a \in Admins, NEW t \in Tenants, StartStagingDelete(a, t) PROVE IInv'
<1> DEFINE note == [tenant |-> t, done |-> tenant[t].status = "gone"]
<1>1. note \in [tenant : Tenants, done : BOOLEAN] /\ asked' = [asked EXCEPT ![a] = note]
  BY DEF StartStagingDelete
<1> HIDE DEF note
<1>2. /\ ~production /\ changes' \in Nat
      /\ asked' \in [Admins -> [tenant : Tenants, done : BOOLEAN] \cup {None}]
      /\ UNCHANGED <<production, clock, seen, before, mail, sender, sweep, deaths, failures>>
      /\ before' \in [Tenants -> [status : Statuses, sub : SubStatus] \cup {None}]
      /\ seen' \in [Admins -> [tenant : Tenants, sub : Subscription] \cup {None}]
  BY <1>1, Rows DEF StartStagingDelete, IInv, TypeOK, mailVars, rest
<1>3. CASE /\ tenant' = [tenant EXCEPT ![t].status = "staging_deleting"]
           /\ sub' = [sub EXCEPT ![t] = [status |-> "suspended", version |-> sub[t].version + 1]]
  <2> DEFINE row == [tenant[t] EXCEPT !.status = "staging_deleting"]
             s == [status |-> "suspended", version |-> sub[t].version + 1]
  <2>1. row \in TenantRow /\ row.status = "staging_deleting"
    BY Rows DEF TenantRow, Statuses
  <2>2. s \in Subscription /\ s.status = "suspended"
    BY Rows DEF Subscription, SubStatus
  <2>3. tenant' = [tenant EXCEPT ![t] = row] /\ sub' = [sub EXCEPT ![t] = s]
    BY <1>3
  <2> HIDE DEF row, s
  <2> QED BY <2>1, <2>2, <2>3, <1>2, TenantStep
<1>4. CASE tenant[t].status \in {"staging_deleting", "gone"} /\ UNCHANGED <<tenant, sub>>
  BY <1>4, <1>2, Rows, TenantStep DEF IInv, DeletedStaysSuspended
<1> QED BY <1>3, <1>4 DEF StartStagingDelete, Bumped

LEMMA FinishStagingStep == ASSUME IInv, NEW a \in Admins, FinishStagingDelete(a) PROVE IInv'
<1> DEFINE t == asked[a].tenant
           row == [tenant[t] EXCEPT !.status = "gone"]
<1>1. t \in Tenants /\ ~production
  BY DEF FinishStagingDelete, IInv, TypeOK, DeletionsAreComplete
<1>2. row \in TenantRow /\ row.status = "gone"
  BY <1>1, Rows DEF TenantRow, Statuses
<1>3. /\ tenant' = [tenant EXCEPT ![t] = row] /\ mail' = [mail EXCEPT ![t] = None]
      /\ asked[a] # None /\ asked' = [asked EXCEPT ![a].done = TRUE]
      /\ UNCHANGED <<production, clock, sub, seen, before, changes, sender, sweep, deaths, failures>>
  BY DEF FinishStagingDelete, rest
<1> HIDE DEF t, row
<1>4. \A u \in Tenants : /\ tenant'[u] = IF u = t THEN row ELSE tenant[u]
                         /\ mail'[u] = IF u = t THEN None ELSE mail[u]
  BY <1>3 DEF IInv, TypeOK
<1>5. TypeOK'
  BY <1>2, <1>3 DEF IInv, TypeOK
<1>6. TenantPart'
  BY <1>1, <1>2, <1>3, <1>4
     DEF IInv, TenantPart, DeletionsAreComplete, DeletedStaysSuspended, RestoreUndoesDelete
<1>7. MailPart'
  BY <1>1, <1>2, <1>3, <1>4 DEF IInv, MailPart, SendersAreVisible, PurgedHasNoMail
<1> QED BY <1>5, <1>6, <1>7 DEF IInv, TenantPart, MailPart

LEMMA FailStagingStep == ASSUME IInv, NEW a \in Admins, FailStagingDelete(a) PROVE IInv'
<1>1. /\ UNCHANGED <<production, clock, tenant, sub, seen, before, changes, mail, sender, sweep, deaths>>
      /\ asked' = [asked EXCEPT ![a] = None] /\ failures' = failures + 1
  BY DEF FailStagingDelete, AnsweredError, mailVars
<1>2. TypeOK'
  BY <1>1 DEF IInv, TypeOK
<1>3. \A b \in Admins : asked'[b] # None => asked[b] # None
  BY <1>1 DEF IInv, TypeOK
<1> QED BY <1>1, <1>2, <1>3, ViewStep

-----------------------------------------------------------------------------
(***************************************************************************)
(* Mail.                                                                   *)
(***************************************************************************)
LEMMA Known ==
  ASSUME IInv, NEW t \in Tenants
  PROVE  /\ mail[t] = None => (production => sender[t] = "none")
         /\ mail[t] # None => mail[t] \in MailRow /\ Stage(sender[t], mail[t])
BY Rows DEF IInv, SendersAreVisible

MailTyped == mail \in [Tenants -> MailRow \cup {None}] /\ sender \in [Tenants -> Pcs]
MailStaged == \A t \in Tenants : mail[t] # None => Stage(sender[t], mail[t])

\* Nothing of module TenantMail brings deleted mail or a worker of it back.
StaysDeleted ==
  \A t \in Tenants : /\ mail[t] = None <=> mail'[t] = None
                     /\ mail[t] = None /\ sender[t] = "none" => sender'[t] = "none"

MailKept == MailTyped' /\ MailStaged' /\ StaysDeleted

\* What becomes of one tenant's mail and worker.
LEMMA OneMail ==
  ASSUME MailTyped, MailStaged, NEW t \in Tenants, NEW row \in MailRow \cup {None}, NEW pc \in Pcs,
         mail' = [mail EXCEPT ![t] = row], sender' = [sender EXCEPT ![t] = pc],
         mail[t] = None <=> row = None, mail[t] = None /\ sender[t] = "none" => pc = "none",
         row # None => Stage(pc, row)
  PROVE  MailKept
<1>1. MailTyped'
  BY DEF MailTyped
<1>2. \A u \in Tenants : /\ mail'[u] = IF u = t THEN row ELSE mail[u]
                         /\ sender'[u] = IF u = t THEN pc ELSE sender[u]
  BY DEF MailTyped
<1>3. MailStaged'
  BY <1>2 DEF MailStaged
<1>4. StaysDeleted
  BY <1>2 DEF StaysDeleted
<1> QED BY <1>1, <1>3, <1>4 DEF MailKept

\* A worker that is done, with its result written if there is a row to write.
LEMMA DoneMail ==
  ASSUME MailTyped, MailStaged, NEW t \in Tenants, NEW row,
         mail[t] # None => row \in MailRow /\ ~row.invoked, Written(t, row), Goes(t, "none")
  PROVE  MailKept
<1> DEFINE new == IF mail[t] = None THEN None ELSE row
<1>1. /\ mail' = [mail EXCEPT ![t] = new] /\ new \in MailRow \cup {None}
      /\ mail[t] = None <=> new = None
  BY NoRowAssumption DEF Written
<1>2. new # None => Stage("none", new)
  BY DEF Stage
<1>3. sender' = [sender EXCEPT ![t] = "none"] /\ "none" \in Pcs
  BY DEF Goes, Pcs
<1> HIDE DEF new
<1> QED BY <1>1, <1>2, <1>3, NoRowAssumption, OneMail

LEMMA WorkingMail ==
  ASSUME MailTyped, MailStaged, NEW t \in Tenants, Working(t) \/ PassGate(t) \/ WorkerDies(t)
  PROVE  MailKept
<1>0. /\ mail[t] \in MailRow \cup {None} /\ sender[t] \in Pcs
      /\ mail[t] # None => Stage(sender[t], mail[t])
      /\ mail = [mail EXCEPT ![t] = mail[t]] /\ sender = [sender EXCEPT ![t] = sender[t]]
      /\ {"claimed", "cleared", "calling"} \subseteq Pcs
  BY DEF MailTyped, MailStaged, Pcs
<1>1. CASE ClaimMail(t)
  <2> DEFINE row == [mail[t] EXCEPT !.status = "processing"]
  <2>1. mail[t] \in MailRow /\ mail[t].status = "waiting" /\ ~mail[t].invoked /\ mail[t] # None
    BY <1>0, <1>1 DEF ClaimMail, Has, Stage
  <2>2. row \in MailRow /\ row.status = "processing" /\ ~row.invoked
    BY <2>1 DEF MailRow, MailStatus
  <2>3. mail' = [mail EXCEPT ![t] = row] /\ sender' = [sender EXCEPT ![t] = "claimed"]
    BY <1>1 DEF ClaimMail, Goes
  <2> HIDE DEF row
  <2>4. Stage("claimed", row)
    BY <2>2 DEF Stage
  <2> QED BY <1>0, <2>1, <2>2, <2>3, <2>4, NoRowAssumption, OneMail
<1>2. CASE PassGate(t)
  <2>1. sender[t] = "claimed" /\ sender' = [sender EXCEPT ![t] = "cleared"] /\ mail' = mail
    BY <1>2 DEF PassGate, Goes
  <2>2. mail[t] # None => Stage("cleared", mail[t])
    BY <1>0, <2>1 DEF Stage
  <2> QED BY <1>0, <2>1, <2>2, NoRowAssumption, OneMail
<1>3. CASE Block(t)
  <2>1. mail[t] # None => Ended(mail[t], "settled") \in MailRow /\ ~Ended(mail[t], "settled").invoked
    BY <1>0 DEF MailRow, MailStatus, Ended
  <2> QED BY <1>3, <2>1, DoneMail DEF Block
<1>4. ASSUME NEW unrefused \in BOOLEAN, DeferMail(t, unrefused) PROVE MailKept
  <2> DEFINE row == [Ended(mail[t], "waiting") EXCEPT !.deferred = unrefused]
  <2>1. mail[t] # None => row \in MailRow /\ ~row.invoked
    BY <1>0 DEF MailRow, MailStatus, Ended
  <2> QED BY <1>4, <2>1, DoneMail DEF DeferMail
<1>5. CASE Call(t)
  <2>1. sender[t] = "cleared"
    BY <1>5 DEF Call
  <2>2. CASE mail[t] # None /\ mail' = [mail EXCEPT ![t].invoked = TRUE] /\ Goes(t, "calling")
    <3> DEFINE row == [mail[t] EXCEPT !.invoked = TRUE]
    <3>1. mail[t] \in MailRow /\ mail[t].status = "processing"
      BY <1>0, <2>1, <2>2 DEF Stage
    <3>2. row \in MailRow /\ row.status = "processing" /\ row.invoked
      BY <3>1 DEF MailRow
    <3>3. mail' = [mail EXCEPT ![t] = row] /\ sender' = [sender EXCEPT ![t] = "calling"]
      BY <2>2 DEF Goes
    <3> HIDE DEF row
    <3>4. Stage("calling", row)
      BY <3>2 DEF Stage
    <3> QED BY <1>0, <2>2, <3>2, <3>3, <3>4, NoRowAssumption, OneMail
  <2>3. CASE mail[t] = None /\ Goes(t, "none") /\ UNCHANGED mail
    BY <1>0, <2>3, OneMail DEF Goes, Pcs
  <2> QED BY <1>5, <2>2, <2>3 DEF Call
<1>6. ASSUME NEW status \in MailStatus \ {"processing"}, NEW others \in Others,
             Answer(t, status, others)
      PROVE  MailKept
  <2> DEFINE row == [Ended(mail[t], status) EXCEPT !.others = others]
  <2>1. mail[t] # None => row \in MailRow /\ ~row.invoked
    BY <1>0 DEF MailRow, Ended
  <2> QED BY <1>6, <2>1, DoneMail DEF Answer
<1>7. CASE Recover(t)
  <2> DEFINE row == [status |-> IF mail[t].invoked THEN "delivery_unknown" ELSE "waiting",
                     invoked |-> FALSE, closed |-> ~mail[t].invoked, deferred |-> FALSE,
                     others |-> IF mail[t].others = "lost" THEN "lost" ELSE "closing"]
  <2>1. /\ mail[t] \in MailRow /\ mail[t] # None /\ mail[t].status = "processing"
        /\ mail[t].invoked \/ sender[t] = "none"
        /\ mail' = [mail EXCEPT ![t] = row] /\ sender' = sender
    BY <1>0, <1>7 DEF Recover, Returns, Has
  <2>2. /\ row \in MailRow /\ ~row.invoked
        /\ mail[t].invoked => row.status = "delivery_unknown" /\ ~row.closed
    BY <2>1 DEF MailRow, MailStatus, Others
  <2> HIDE DEF row
  <2>3. Stage(sender[t], row)
    BY <1>0, <2>1, <2>2 DEF Stage
  <2> QED BY <1>0, <2>1, <2>2, <2>3, NoRowAssumption, OneMail
<1>8. CASE Complete(t)
  <2>1. PICK o \in Others : mail' = [mail EXCEPT ![t].others = o]
    BY <1>8 DEF Complete, EndedBy, Others
  <2> DEFINE row == [mail[t] EXCEPT !.others = o]
  <2>2. mail[t] \in MailRow /\ mail[t] # None /\ sender' = sender
    BY <1>0, <1>8 DEF Complete
  <2>3. /\ row \in MailRow /\ row.status = mail[t].status /\ row.invoked = mail[t].invoked
        /\ row.closed = mail[t].closed
    BY <2>2 DEF MailRow
  <2>4. mail' = [mail EXCEPT ![t] = row]
    BY <2>1
  <2> HIDE DEF row
  <2>5. Stage(sender[t], row)
    BY <1>0, <2>2, <2>3 DEF Stage
  <2> QED BY <1>0, <2>2, <2>3, <2>4, <2>5, NoRowAssumption, OneMail
<1>9. CASE WorkerDies(t)
  <2>1. mail[t] # None => Stage("none", mail[t])
    BY <1>0 DEF Stage
  <2> QED BY <1>0, <1>9, <2>1, OneMail DEF WorkerDies, Goes, Pcs
<1> QED BY <1>1, <1>2, <1>3, <1>4, <1>5, <1>6, <1>7, <1>8, <1>9 DEF Working

\* Steps that change the mail of several tenants: what becomes of a row.
LEMMA MailsOf ==
  ASSUME MailTyped, MailStaged, NEW S \in SUBSET Tenants, RecoveriesEnd(S) \/ EndMails(S)
  PROVE  MailKept
<1> DEFINE new == [t \in Tenants |-> IF RecoveriesEnd(S) THEN Forgotten(mail[t]) ELSE Ended(mail[t], "settled")]
<1>1. ASSUME NEW t \in S PROVE new[t] \in MailRow /\ Stage(sender[t], new[t]) /\ mail[t] # None
  <2>1. /\ mail[t] \in MailRow /\ mail[t] # None /\ sender[t] \in Pcs /\ Stage(sender[t], mail[t])
    BY <1>1 DEF RecoveriesEnd, EndMails, Has, MailTyped, MailStaged
  <2>2. CASE RecoveriesEnd(S)
    <3>1. /\ Forgotten(mail[t]) \in MailRow /\ Forgotten(mail[t]).status = mail[t].status
          /\ Forgotten(mail[t]).invoked = mail[t].invoked /\ Forgotten(mail[t]).closed = mail[t].closed
      BY <2>1 DEF Forgotten, MailRow, Others
    <3> QED BY <2>1, <2>2, <3>1 DEF Stage
  <2>3. CASE ~RecoveriesEnd(S)
    <3>1. mail[t].status = "waiting"
      BY <1>1, <2>3 DEF EndMails, Has
    <3>2. sender[t] = "none"
      BY <2>1, <3>1 DEF Stage, Pcs
    <3>3. Ended(mail[t], "settled") \in MailRow /\ ~Ended(mail[t], "settled").invoked
      BY <2>1 DEF Ended, MailRow, MailStatus
    <3> QED BY <2>1, <2>3, <3>2, <3>3 DEF Stage
  <2> QED BY <2>2, <2>3
<1>2. /\ mail' = [t \in Tenants |-> IF t \in S THEN new[t] ELSE mail[t]] /\ sender' = sender
  BY DEF RecoveriesEnd, EndMails
<1> HIDE DEF new
<1>3. MailTyped'
  BY <1>1, <1>2 DEF MailTyped
<1>4. MailStaged'
  BY <1>1, <1>2 DEF MailTyped, MailStaged
<1>5. StaysDeleted
  BY <1>1, <1>2, NoRowAssumption DEF StaysDeleted
<1> QED BY <1>3, <1>4, <1>5 DEF MailKept

LEMMA MailOnly ==
  ASSUME IInv, MailKept, deaths' \in Nat,
         UNCHANGED <<production, clock, tenant, sub, seen, asked, sweep, before, changes, failures>>
  PROVE  IInv'
<1>1. TypeOK'
  BY DEF MailKept, MailTyped, Pcs, IInv, TypeOK
<1>2. TenantPart'
  BY DEF IInv, TenantPart, DeletionsAreComplete, DeletedStaysSuspended, RestoreUndoesDelete
<1>3. SendersAreVisible'
  <2> SUFFICES ASSUME NEW t \in Tenants
               PROVE  IF mail'[t] = None THEN production => sender'[t] = "none"
                                         ELSE Stage(sender'[t], mail'[t])
    BY DEF SendersAreVisible
  <2>1. CASE mail'[t] = None
    <3>1. mail[t] = None
      BY <2>1 DEF MailKept, StaysDeleted
    <3> QED BY <3>1 DEF MailKept, StaysDeleted, IInv, SendersAreVisible
  <2>2. CASE mail'[t] # None
    BY <2>2 DEF MailKept, MailStaged
  <2> QED BY <2>1, <2>2
<1>4. PurgedHasNoMail'
  BY DEF IInv, PurgedHasNoMail, MailKept, StaysDeleted
<1> QED BY <1>1, <1>2, <1>3, <1>4 DEF IInv, TenantPart

LEMMA MailStep ==
  ASSUME IInv, (\E t \in Tenants : Mailing(t) \/ SubscriptionAllows(t))
               \/ (\E S \in SUBSET Tenants : MailEnds(S)) \/ Dies
  PROVE  IInv' /\ MailKept
<1>1. MailTyped /\ MailStaged
  BY DEF IInv, TypeOK, SendersAreVisible, MailTyped, MailStaged, Pcs
<1>2. MailKept
  BY <1>1, WorkingMail, MailsOf DEF Mailing, SubscriptionAllows, MailEnds, Dies
<1>3. /\ UNCHANGED <<production, clock, tenant, sub, seen, asked, sweep, before, changes, failures>>
      /\ deaths' \in Nat
  BY DEF Mailing, SubscriptionAllows, MailEnds, Dies, adminVars, rest, IInv, TypeOK
<1> QED BY <1>2, <1>3, MailOnly

-----------------------------------------------------------------------------
(***************************************************************************)
(* The purge.                                                              *)
(***************************************************************************)
LEMMA ScanStep == ASSUME IInv, NEW b \in Backends, Scan(b) PROVE IInv'
<1> DEFINE due == {[tenant |-> t, deadline |-> tenant[t].purgeAfter] : t \in {u \in Tenants : IsDue(u)}}
<1>1. due \in SUBSET Due
  <2> SUFFICES ASSUME NEW t \in Tenants, IsDue(t)
               PROVE  tenant[t].purgeAfter \in Nat
    BY DEF Due
  <2> QED BY DEF IsDue, IInv, DeletionsAreComplete, CanComeBack
<1>2. /\ sweep' = [sweep EXCEPT ![b] = due]
      /\ UNCHANGED <<production, clock, tenant, sub, seen, asked, before, changes, mail, sender, deaths, failures>>
  BY DEF Scan, adminVars, mailVars, rest
<1> HIDE DEF due
<1>3. TypeOK'
  BY <1>1, <1>2 DEF IInv, TypeOK
<1> QED BY <1>2, <1>3, ViewStep

LEMMA SkipStep == ASSUME IInv, NEW b \in Backends, NEW d \in sweep[b], Skip(b, d) PROVE IInv'
<1>1. /\ sweep' = [sweep EXCEPT ![b] = sweep[b] \ {d}]
      /\ UNCHANGED <<production, clock, tenant, sub, seen, asked, before, changes, mail, sender, deaths, failures>>
  BY DEF Skip, adminVars, mailVars, rest
<1>2. TypeOK'
  BY <1>1 DEF IInv, TypeOK
<1> QED BY <1>1, <1>2, ViewStep

LEMMA GiveUpStep == ASSUME IInv, NEW b \in Backends, NEW d \in sweep[b], GiveUp(b, d) PROVE IInv'
<1>1. /\ sweep' = [sweep EXCEPT ![b] = {}] /\ failures' \in Nat
      /\ UNCHANGED <<production, clock, tenant, sub, seen, asked, before, changes, mail, sender, deaths>>
  BY DEF GiveUp, adminVars, mailVars, IInv, TypeOK
<1>2. TypeOK'
  BY <1>1 DEF IInv, TypeOK
<1> QED BY <1>1, <1>2, ViewStep

LEMMA PurgeStep == ASSUME IInv, NEW b \in Backends, NEW d \in sweep[b], Purge(b, d) PROVE IInv'
<1> DEFINE t == d.tenant
           row == [tenant[t] EXCEPT !.status = "purged"]
           s == [sub[t] EXCEPT !.version = sub[t].version + 1]
<1>1. t \in Tenants
  BY DEF IInv, TypeOK, Due
<1>2. row \in TenantRow /\ row.status = "purged"
  BY <1>1, Rows DEF TenantRow, Statuses
<1>3. s \in Subscription /\ s.status = "suspended"
  BY <1>1, Rows DEF Purge, Subscription
<1>4. /\ tenant' = [tenant EXCEPT ![t] = row] /\ sub' = [sub EXCEPT ![t] = s]
      /\ mail' = [mail EXCEPT ![t] = None] /\ sweep' = [sweep EXCEPT ![b] = sweep[b] \ {d}]
      /\ tenant[t].status = "pending_delete" /\ ~Unsafe(t)
      /\ UNCHANGED <<production, clock, seen, asked, before, changes, sender, deaths, failures>>
  BY DEF Purge, IsDue, adminVars, rest
<1>5. sender[t] = "none"
  <2>1. CASE mail[t] = None
    BY <2>1, <1>1, <1>4, Known DEF IInv, DeletionsAreComplete
  <2>2. CASE mail[t] # None
    BY <2>2, <1>1, <1>4, Known, Rows DEF Unsafe, Stage
  <2> QED BY <2>1, <2>2
<1> HIDE DEF t, row, s
<1>6. \A u \in Tenants : /\ tenant'[u] = IF u = t THEN row ELSE tenant[u]
                         /\ sub'[u] = IF u = t THEN s ELSE sub[u]
                         /\ mail'[u] = IF u = t THEN None ELSE mail[u]
  BY <1>4 DEF IInv, TypeOK
<1>7. TypeOK'
  BY <1>2, <1>3, <1>4 DEF IInv, TypeOK
<1>8. TenantPart'
  BY <1>1, <1>2, <1>3, <1>4, <1>6
     DEF IInv, TenantPart, DeletionsAreComplete, DeletedStaysSuspended, RestoreUndoesDelete
<1>9. MailPart'
  BY <1>4, <1>5, <1>6 DEF IInv, MailPart, SendersAreVisible, PurgedHasNoMail
<1> QED BY <1>7, <1>8, <1>9 DEF IInv, TenantPart, MailPart

LEMMA TickStep == ASSUME IInv, Tick PROVE IInv'
<1>1. /\ clock' = clock + 1
      /\ UNCHANGED <<production, tenant, sub, seen, asked, before, changes, mail, sender, sweep, deaths, failures>>
  BY DEF Tick, adminVars, mailVars, rest
<1>2. TypeOK'
  BY <1>1 DEF IInv, TypeOK
<1> QED BY <1>1, <1>2, ViewStep

LEMMA StepKeeps == IInv /\ [Next]_vars => IInv'
<1> SUFFICES ASSUME IInv, [Next]_vars PROVE IInv'
  OBVIOUS
<1>1. CASE UNCHANGED vars
  <2>1. TypeOK'
    BY <1>1 DEF vars, IInv, TypeOK
  <2> QED BY <1>1, <2>1, ViewStep DEF vars
<1>2. ASSUME NEW a \in Admins, Administering(a) PROVE IInv'
  BY <1>2, LookStep, UpdateStep, StartStagingStep, FinishStagingStep, FailStagingStep DEF Administering
<1>3. ASSUME NEW t \in Tenants, Delete(t) \/ Restore(t) PROVE IInv'
  BY <1>3, DeleteStep, RestoreStep
<1>4. ASSUME NEW b \in Backends, Sweeping(b) PROVE IInv'
  BY <1>4, ScanStep, SkipStep, GiveUpStep, PurgeStep DEF Sweeping
<1> QED BY <1>1, <1>2, <1>3, <1>4, MailStep, TickStep DEF Next

LEMMA Inductive == Spec => []IInv
BY InitHolds, StepKeeps, PTL DEF Spec

\* The rows, what the administrators see, the mail and the sweeps keep their types.
THEOREM TypesHold == Spec => []TypeOK
<1>1. IInv => TypeOK
  BY DEF IInv
<1> QED BY <1>1, Inductive, PTL

\* deleteTenant suspends, and neither updateSubscription nor the purge ends that.
THEOREM Suspended == Spec => []DeletedStaysSuspended
<1>1. IInv => DeletedStaysSuspended
  BY DEF IInv
<1> QED BY <1>1, Inductive, PTL

\* What deleteTenant remembers for restoreTenant is what was there before it,
\* however often and by however many it is asked.
THEOREM RestoresWhatWas == Spec => []RestoreUndoesDelete
<1>1. IInv => RestoreUndoesDelete
  BY DEF IInv
<1> QED BY <1>1, Inductive, PTL

\* The columns purgeTenant reads show every call that is open or to come, whatever
\* the recovery wrote about it: a purged tenant has no worker.
THEOREM NoCallSurvives == Spec => []NoCallAfterPurge
<1>1. IInv => NoCallAfterPurge
  BY DEF IInv, PurgedHasNoMail, SendersAreVisible, DeletionsAreComplete, NoCallAfterPurge
<1> QED BY <1>1, Inductive, PTL

-----------------------------------------------------------------------------
(***************************************************************************)
(* What is shown and answered. A subscription that changes gets a new      *)
(* version, so what an administrator saw is the subscription itself as     *)
(* long as the versions agree; and what is gone stays gone.                *)
(***************************************************************************)
SawIt(v) ==
  v # None => /\ v.sub.version <= sub[v.tenant].version
              /\ v.sub.version = sub[v.tenant].version => v.sub = sub[v.tenant]
ScreensAreTrue == \A a \in Admins : SawIt(seen[a])

GoneHasNoMail == \A t \in Tenants : tenant[t].status = "gone" => mail[t] = None

ShownInv == IInv /\ ScreensAreTrue /\ GoneHasNoMail /\ StagingAnswerIsTrue

LEMMA Fields ==
  ASSUME IInv
  PROVE  /\ sub \in [Tenants -> Subscription] /\ tenant \in [Tenants -> TenantRow]
         /\ mail \in [Tenants -> MailRow \cup {None}]
         /\ seen \in [Admins -> [tenant : Tenants, sub : Subscription] \cup {None}]
         /\ asked \in [Admins -> [tenant : Tenants, done : BOOLEAN] \cup {None}]
BY DEF IInv, TypeOK

\* A step leaves a subscription as it is or gives it the next version, ...
Versioned == \A t \in Tenants : sub'[t] = sub[t] \/ sub'[t].version = sub[t].version + 1
\* shows only what is, ...
Shown ==
  \A a \in Admins : \/ seen'[a] = seen[a]
                    \/ sub' = sub /\ \E t \in Tenants : seen'[a] = [tenant |-> t, sub |-> sub[t]]
\* removes a tenant with its mail, and brings back neither, ...
Removed ==
  \A t \in Tenants :
    /\ tenant[t].status = "gone" => tenant'[t].status = "gone"
    /\ mail[t] = None => mail'[t] = None
    /\ tenant'[t].status = "gone" => tenant[t].status = "gone" \/ mail'[t] = None
\* and answers only that.
Answered ==
  \A a \in Admins :
    asked'[a] # None /\ asked'[a].done =>
      asked'[a] = asked[a] \/ tenant'[asked'[a].tenant].status = "gone"

StepIsTrue == Versioned /\ Shown /\ Removed /\ Answered

LEMMA PlainSteps ==
  ASSUME IInv, UNCHANGED <<sub, tenant>>, UNCHANGED <<seen, asked>>,
         \A t \in Tenants : mail[t] = None => mail'[t] = None
  PROVE  StepIsTrue
BY DEF StepIsTrue, Versioned, Shown, Removed, Answered

LEMMA MailingIsTrue ==
  ASSUME IInv, (\E t \in Tenants : Mailing(t) \/ SubscriptionAllows(t))
               \/ (\E S \in SUBSET Tenants : MailEnds(S)) \/ Dies
  PROVE  StepIsTrue
<1>1. UNCHANGED <<sub, tenant>> /\ UNCHANGED <<seen, asked>>
  BY DEF Mailing, SubscriptionAllows, MailEnds, Dies, adminVars
<1> QED BY <1>1, MailStep, PlainSteps DEF MailKept, StaysDeleted

LEMMA AskedRow == \A t, d : [tenant |-> t, done |-> d].done = d
OBVIOUS

LEMMA AdministeringIsTrue ==
  ASSUME ShownInv, NEW a \in Admins, Administering(a) PROVE StepIsTrue
<1> USE Fields DEF ShownInv
<1>1. CASE \E t \in Tenants : Look(a, t)
  BY <1>1 DEF Look, mailVars, StepIsTrue, Versioned, Shown, Removed, Answered
<1>2. CASE \E t \in Tenants, s \in SubStatus : UpdateSubscription(a, t, s)
  <2>1. PICK t \in Tenants, s \in SubStatus : UpdateSubscription(a, t, s)
    BY <1>2
  <2>2. Versioned
    BY <2>1 DEF UpdateSubscription, Versioned, Bumped, Subscription
  <2> QED BY <2>1, <2>2 DEF UpdateSubscription, mailVars, StepIsTrue, Shown, Removed, Answered
<1>3. CASE \E t \in Tenants : StartStagingDelete(a, t)
  <2>1. PICK t \in Tenants : StartStagingDelete(a, t)
    BY <1>3
  <2>2. Versioned
    BY <2>1 DEF StartStagingDelete, Versioned, Bumped, Subscription
  <2>3. \A u \in Tenants : tenant[u].status = "gone" <=> tenant'[u].status = "gone"
    BY <2>1 DEF StartStagingDelete, Deletable, Locked, TenantRow
  <2>4. \A b \in Admins : asked'[b] = IF b = a THEN [tenant |-> t, done |-> tenant[t].status = "gone"]
                                     ELSE asked[b]
    BY <2>1 DEF StartStagingDelete
  <2>5. UNCHANGED <<seen, mail>>
    BY <2>1 DEF StartStagingDelete, mailVars
  <2>6. Answered
    <3> SUFFICES ASSUME NEW b \in Admins, asked'[b] # None, asked'[b].done
                 PROVE  asked'[b] = asked[b] \/ tenant'[asked'[b].tenant].status = "gone"
      BY DEF Answered
    <3>1. CASE b = a
      <4>1. asked'[b] = [tenant |-> t, done |-> tenant[t].status = "gone"]
        BY <2>4, <3>1
      <4>2. asked'[b].tenant = t
        BY <4>1
      <4>3. asked'[b].done = (tenant[t].status = "gone")
        BY <4>1, AskedRow, ZenonT(30)
      <4>4. tenant[t].status = "gone"
        BY <4>3, Zenon
      <4> QED BY <2>1, <2>3, <4>2, <4>4
    <3>2. CASE b # a
      BY <2>4, <3>2
    <3> QED BY <3>1, <3>2
  <2> QED BY <2>2, <2>3, <2>5, <2>6 DEF StepIsTrue, Shown, Removed
<1>4. CASE FinishStagingDelete(a)
  <2>1. asked[a] \in [tenant : Tenants, done : BOOLEAN] /\ UNCHANGED <<sub, seen>>
    BY <1>4 DEF FinishStagingDelete
  <2>2. \A u \in Tenants :
          /\ tenant'[u] = IF u = asked[a].tenant THEN [tenant[u] EXCEPT !.status = "gone"] ELSE tenant[u]
          /\ mail'[u] = IF u = asked[a].tenant THEN None ELSE mail[u]
    BY <1>4, <2>1 DEF FinishStagingDelete
  <2>3. \A u \in Tenants : tenant'[u].status = IF u = asked[a].tenant THEN "gone" ELSE tenant[u].status
    BY <2>2 DEF TenantRow
  <2>4. \A b \in Admins : IF b = a THEN asked'[b].tenant = asked[a].tenant ELSE asked'[b] = asked[b]
    BY <1>4, <2>1 DEF FinishStagingDelete
  <2>5. Answered
    BY <2>1, <2>3, <2>4 DEF Answered
  <2> QED BY <2>1, <2>2, <2>3, <2>5 DEF StepIsTrue, Versioned, Shown, Removed
<1>5. CASE FailStagingDelete(a)
  BY <1>5 DEF FailStagingDelete, AnsweredError, mailVars, StepIsTrue, Versioned, Shown, Removed, Answered
<1> QED BY <1>1, <1>2, <1>3, <1>4, <1>5 DEF Administering

LEMMA LifeIsTrue ==
  ASSUME IInv, NEW t \in Tenants, Delete(t) \/ Restore(t) PROVE StepIsTrue
<1>1. UNCHANGED <<seen, asked, mail>>
  BY DEF Delete, Restore, mailVars
<1>2. Versioned
  BY Fields DEF Delete, Restore, Versioned, Bumped, Subscription
<1>3. /\ \A u \in Tenants : u # t => tenant'[u] = tenant[u]
      /\ tenant[t].status # "gone" /\ tenant'[t].status # "gone"
  <2>1. CASE Delete(t)
    BY <2>1, Fields DEF Delete, DeletedRow, Deletable, Locked
  <2>2. CASE Restore(t)
    BY <2>2, Fields DEF Restore, IInv, DeletionsAreComplete, CanComeBack
  <2> QED BY <2>1, <2>2
<1> QED BY <1>1, <1>2, <1>3 DEF StepIsTrue, Shown, Removed, Answered

LEMMA SweepingIsTrue == ASSUME IInv, NEW b \in Backends, Sweeping(b) PROVE StepIsTrue
<1>1. CASE Scan(b) \/ \E d \in sweep[b] : Skip(b, d) \/ GiveUp(b, d)
  BY <1>1, PlainSteps DEF Scan, Skip, GiveUp, adminVars, mailVars
<1>2. CASE \E d \in sweep[b] : Purge(b, d)
  <2>1. PICK d \in sweep[b] : Purge(b, d)
    BY <1>2
  <2>2. d.tenant \in Tenants
    BY DEF IInv, TypeOK, Due
  <2>3. Versioned
    BY <2>1, <2>2, Fields DEF Purge, Versioned, Subscription
  <2>4. /\ tenant[d.tenant].status = "pending_delete"
        /\ \A u \in Tenants : tenant'[u].status = IF u = d.tenant THEN "purged" ELSE tenant[u].status
    BY <2>1, <2>2, Fields DEF Purge, IsDue, TenantRow
  <2>5. \A u \in Tenants : mail'[u] = IF u = d.tenant THEN None ELSE mail[u]
    BY <2>1, <2>2, Fields DEF Purge
  <2>6. UNCHANGED <<seen, asked>>
    BY <2>1 DEF Purge, adminVars
  <2> QED BY <2>3, <2>4, <2>5, <2>6 DEF StepIsTrue, Shown, Removed, Answered
<1> QED BY <1>1, <1>2 DEF Sweeping

LEMMA StepsAreTrue == ASSUME ShownInv, [Next]_vars PROVE StepIsTrue
<1>1. CASE Tick \/ UNCHANGED vars
  BY <1>1, PlainSteps DEF Tick, vars, adminVars, mailVars, ShownInv
<1> QED BY <1>1, AdministeringIsTrue, LifeIsTrue, MailingIsTrue, SweepingIsTrue DEF Next, ShownInv

LEMMA ShownStep == ShownInv /\ [Next]_vars => ShownInv'
<1> SUFFICES ASSUME ShownInv, [Next]_vars PROVE ShownInv'
  OBVIOUS
<1>1. IInv' /\ StepIsTrue
  BY StepKeeps, StepsAreTrue DEF ShownInv
<1>2. ScreensAreTrue'
  <2> SUFFICES ASSUME NEW a \in Admins, seen'[a] # None
               PROVE  LET v == seen'[a] IN
                      /\ v.sub.version <= sub'[v.tenant].version
                      /\ v.sub.version = sub'[v.tenant].version => v.sub = sub'[v.tenant]
    BY DEF ScreensAreTrue, SawIt
  <2> DEFINE t == seen'[a].tenant
  <2>1. seen'[a] \in [tenant : Tenants, sub : Subscription]
    BY <1>1, Fields DEF IInv, TypeOK
  <2>2. t \in Tenants /\ seen'[a].sub \in Subscription /\ sub[t] \in Subscription /\ sub'[t] \in Subscription
    BY <1>1, <2>1, Fields DEF ShownInv, IInv, TypeOK
  <2>3. CASE seen'[a] = seen[a]
    <3>1. /\ seen'[a].sub.version <= sub[t].version
          /\ seen'[a].sub.version = sub[t].version => seen'[a].sub = sub[t]
      BY <2>3 DEF ShownInv, ScreensAreTrue, SawIt
    <3>2. sub'[t] = sub[t] \/ sub'[t].version = sub[t].version + 1
      BY <1>1, <2>2 DEF StepIsTrue, Versioned
    <3> HIDE DEF t
    <3>3. seen'[a].sub.version \in Nat /\ sub[t].version \in Nat /\ sub'[t].version \in Nat
      BY <2>2 DEF Subscription
    <3>4. CASE sub'[t] = sub[t]
      BY <3>1, <3>4 DEF t
    <3>5. CASE sub'[t].version = sub[t].version + 1
      <4>1. seen'[a].sub.version < sub'[t].version
        BY <3>1, <3>3, <3>5
      <4> QED BY <3>3, <4>1 DEF t
    <3> QED BY <3>2, <3>4, <3>5
  <2>4. CASE seen'[a] # seen[a]
    <3>1. PICK u \in Tenants : seen'[a] = [tenant |-> u, sub |-> sub[u]]
      BY <1>1, <2>4 DEF StepIsTrue, Shown
    <3>2. sub' = sub
      BY <1>1, <2>4 DEF StepIsTrue, Shown
    <3>3. t = u /\ seen'[a].sub = sub[u]
      BY <3>1
    <3>4. sub[u].version \in Nat
      BY Fields DEF ShownInv, Subscription
    <3> QED BY <3>2, <3>3, <3>4
  <2> QED BY <2>3, <2>4
<1>3. GoneHasNoMail'
  BY <1>1 DEF ShownInv, GoneHasNoMail, StepIsTrue, Removed
<1>4. StagingAnswerIsTrue'
  <2> SUFFICES ASSUME NEW a \in Admins, asked'[a] # None, asked'[a].done
               PROVE  tenant'[asked'[a].tenant].status = "gone" /\ mail'[asked'[a].tenant] = None
    BY DEF StagingAnswerIsTrue
  <2>1. asked'[a].tenant \in Tenants
    BY <1>1 DEF IInv, TypeOK
  <2>2. tenant'[asked'[a].tenant].status = "gone"
    BY <1>1, <2>1 DEF ShownInv, StagingAnswerIsTrue, StepIsTrue, Answered, Removed
  <2> QED BY <1>3, <2>1, <2>2 DEF GoneHasNoMail
<1> QED BY <1>1, <1>2, <1>3, <1>4 DEF ShownInv

LEMMA ShownHolds == Spec => []ShownInv
<1>1. Init => ShownInv
  BY InitHolds DEF Init, ShownInv, ScreensAreTrue, SawIt, GoneHasNoMail, StagingAnswerIsTrue
<1> QED BY <1>1, ShownStep, PTL DEF Spec

\* A change of a subscription replaces the one the administrator saw: the version it
\* names is of no other.
THEOREM NoUpdateIsLost == Spec => NoLostUpdate
<1>1. ShownInv /\ [Next]_vars =>
        [\A a \in Admins, t \in Tenants, s \in SubStatus :
           UpdateSubscription(a, t, s) => seen[a].sub = sub[t]]_vars
  BY DEF UpdateSubscription, SameVersion, ShownInv, ScreensAreTrue, SawIt
<1> QED BY <1>1, ShownHolds, PTL DEF Spec, NoLostUpdate

\* A deletion in staging is answered as done only when nothing of the tenant is left.
THEOREM AnsweredIsGone == Spec => []StagingAnswerIsTrue
<1>1. ShownInv => StagingAnswerIsTrue
  BY DEF ShownInv
<1> QED BY <1>1, ShownHolds, PTL
=============================================================================
