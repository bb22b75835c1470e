------------------------------ MODULE Locations ------------------------------
(***************************************************************************)
(* The locations of a tenant and the persons mapped to them: creation      *)
(* under the tenant's limit, editing, deactivation, deletion with a period *)
(* of grace, restoration, the operator's assignments, and the purge of     *)
(* what was not restored.                                                  *)
(*                                                                         *)
(* A request reads, decides, and writes later; only restoration, purge and *)
(* the limit look at the row again when they write. A request is over      *)
(* within a tick, which is short of the period of grace.                   *)
(***************************************************************************)
EXTENDS Naturals, FiniteSets

CONSTANTS
  Places,       \* locations, created ones and ones to be created
  People,       \* persons, likewise
  Home,         \* the location of each person
  Settled,      \* the locations and persons that may be active at the start
  Requests,     \* requests that may be under way at the same time
  Retention,    \* ticks of grace (14 days)
  Batch,        \* rows a purge run takes of each kind (20)
  MaxLimit,     \* bound: the largest location limit
  MaxServed,    \* bound: requests made
  MaxFailures,  \* bound: purge runs that end in an error
  MaxTime,      \* bound: the last tick
  None          \* null

ASSUME ConstantsAssumption ==
  /\ Home \in [People -> Places]
  /\ IsFiniteSet(Places) /\ Places \cap People = {}
  /\ Retention \in Nat /\ Retention >= 3   \* longer than the ticks two requests take
  /\ Batch \in Nat \ {0} /\ MaxLimit \in Nat \ {0} /\ MaxServed \in Nat
  /\ MaxFailures \in Nat /\ MaxTime \in Nat
  /\ None \notin Nat /\ None \notin Places \cup People \cup Requests \cup STRING

VARIABLES
  clock,
  row,       \* the rows of locations and person_mappings
  tenant,    \* location_limit, platform_version, and who holds the tenant's lock
  assigned,  \* the locations the operator is assigned to
  queued,    \* the locations with queued mail jobs
  request,   \* the requests under way
  served,    \* requests made so far
  purge,     \* the purge run of the backend
  failures   \* purge runs that ended in an error

vars == <<clock, row, tenant, assigned, queued, request, served, purge, failures>>

Things == Places \cup People
Statuses == {"none", "active", "inactive", "pending_delete", "purged"}  \* none: no row
Row == [status : Statuses, due : Nat \cup {None}, from : {"active", "inactive", None},
        named : BOOLEAN]

Gone == {"none", "pending_delete", "purged"}
Visible(t) == row[t].status \notin Gone

PersonOps == {"add", "edit", "activate", "deactivate", "delete", "restore"}
PlaceOps == {"rename", "activate", "deactivate", "delete", "restore", "revoke"}

\* A request: its operation and what it is on, how far it is, the status it has
\* read, the time it has read, and whether a tick has passed since.
Idle == [op |-> "none", on |-> None, pc |-> "idle", seen |-> None, now |-> 0, late |-> FALSE]

NewRow == [status |-> "none", due |-> None, from |-> None, named |-> FALSE]
LiveRow == [status |-> "active", due |-> None, from |-> None, named |-> TRUE]
PastRow ==   \* the rows that earlier requests may have left
  {NewRow, LiveRow, [status |-> "pending_delete", due |-> 1, from |-> "active", named |-> TRUE]}

Claimed(f) == {l \in Places : f[l].status \notin {"none", "purged"}}

Init ==
  /\ clock = 0
  /\ row \in [Things -> PastRow]
  /\ \A p \in People : row[p] # NewRow => row[Home[p]] # NewRow
  /\ \A t \in Things : row[t] = LiveRow => t \in Settled
  /\ \E n \in 1..MaxLimit :
       /\ n >= Cardinality(Claimed(row))
       /\ tenant = [limit |-> n, version |-> 1, lock |-> None]
  /\ assigned = Claimed(row)
  /\ queued = {l \in Places : row[l] = LiveRow}
  /\ request = [r \in Requests |-> Idle]
  /\ served = 0
  /\ purge = [pc |-> "idle", now |-> 0, todo |-> {}]
  /\ failures = 0

-----------------------------------------------------------------------------
(***************************************************************************)
(* A request begins with its first look at the database; one that is       *)
(* refused there changes nothing.                                          *)
(***************************************************************************)
Begin(r, op, on, pc, seen, now) ==
  /\ request[r] = Idle /\ served < MaxServed
  /\ request' = [request EXCEPT ![r] =
       [op |-> op, on |-> on, pc |-> pc, seen |-> seen, now |-> now, late |-> FALSE]]
  /\ served' = served + 1
  /\ UNCHANGED <<clock, row, assigned, queued, purge, failures>>

Proceed(r, rec) ==
  /\ request' = [request EXCEPT ![r] = rec]
  /\ UNCHANGED <<clock, row, assigned, queued, served, purge, failures>>

Answer(r) ==
  /\ request' = [request EXCEPT ![r] = Idle]
  /\ UNCHANGED <<clock, served, purge, failures>>

\* Any request may be refused or fail before it writes: a name that is taken,
\* a database error. Its transaction, and the lock with it, is rolled back.
Fail(r) ==
  /\ request[r] # Idle
  /\ tenant' = IF tenant.lock = r THEN [tenant EXCEPT !.lock = None] ELSE tenant
  /\ Answer(r)
  /\ UNCHANGED <<row, assigned, queued>>

\* Which rows an operation finds, and does not refuse.
Found(op, t) ==
  CASE op = "activate"   -> Visible(t) /\ row[t].status # "active"
    [] op = "deactivate" -> Visible(t) /\ row[t].status # "inactive"
    [] op = "restore"    -> /\ row[t].status = "pending_delete"
                            /\ row[t].due # None /\ row[t].due > clock
    [] OTHER             -> Visible(t)

\* What it remembers of the row: the status to put into deleted_from_status,
\* or the status to restore.
Remembered(op, t) ==
  CASE op = "delete"  -> row[t].status
    [] op = "restore" -> IF row[t].from = "inactive" THEN "inactive" ELSE "active"
    [] OTHER          -> None

\* The database's time, for the two operations that ask for it.
Noted(op) == IF op \in {"delete", "restore"} THEN clock ELSE 0

ReadPlace(r) ==
  \E l \in Places, op \in PlaceOps :
    /\ Found(op, l)
    /\ Begin(r, op, l, "write", Remembered(op, l), Noted(op))
    /\ UNCHANGED tenant

\* assertLocation: a person may be deactivated, and only that, while its
\* location is inactive.
LookForPerson(r) ==
  \E p \in People, op \in PersonOps :
    /\ Visible(Home[p])
    /\ op # "deactivate" => row[Home[p]].status = "active"
    /\ op = "add" <=> row[p].status = "none"
    /\ Begin(r, op, p, IF op = "add" THEN "write" ELSE "read", None, 0)
    /\ UNCHANGED tenant

ReadPerson(r) ==
  LET q == request[r] IN
  /\ q.pc = "read"
  /\ Found(q.op, q.on)
  /\ Proceed(r, [q EXCEPT !.pc = "write", !.seen = Remembered(q.op, q.on), !.now = Noted(q.op)])
  /\ UNCHANGED tenant

\* The locations that are to be the operator's are active, and the first
\* statement deletes the other assignments that are there.
ReadAssignments(r) ==
  \E S \in SUBSET Places :
    /\ \A l \in S : row[l].status = "active"
    /\ Begin(r, "assign", S, "write", assigned \ S, 0)
    /\ UNCHANGED tenant

-----------------------------------------------------------------------------
(***************************************************************************)
(* The writes. All but the restoration address the row by its id alone.    *)
(***************************************************************************)
Write(r, op) ==
  /\ request[r].pc = "write" /\ request[r].op = op
  /\ Answer(r)

AddPerson(r) ==
  LET p == request[r].on IN
  /\ Write(r, "add")
  /\ row[p].status = "none"
  /\ row' = [row EXCEPT ![p] = LiveRow]
  /\ UNCHANGED <<tenant, assigned, queued>>

Rename(r) ==
  LET t == request[r].on IN
  /\ Write(r, "rename") \/ Write(r, "edit")
  /\ row' = [row EXCEPT ![t].named = TRUE]
  /\ UNCHANGED <<tenant, assigned, queued>>

SetStatus(r) ==
  LET t == request[r].on IN
  /\ \/ /\ Write(r, "activate")
        /\ row' = [row EXCEPT ![t].status = "active"]
        /\ UNCHANGED queued
     \/ /\ Write(r, "deactivate")
        /\ row' = [row EXCEPT ![t].status = "inactive"]
        /\ queued' = queued \ {t}
  /\ UNCHANGED <<tenant, assigned>>

\* Deletion without a period of grace.
PendingNow(x, q) ==
  [x EXCEPT !.status = "pending_delete", !.due = q.now, !.from = q.seen]

PendingRow(x, q) ==
  [x EXCEPT !.status = "pending_delete", !.due = q.now + Retention, !.from = q.seen]

ScheduleDeletion(r) ==
  LET q == request[r] IN
  /\ Write(r, "delete")
  /\ row' = [row EXCEPT ![q.on] = PendingRow(@, q)]
  /\ queued' = queued \ {q.on}
  /\ UNCHANGED <<tenant, assigned>>

RestoredRow(x, q) == [x EXCEPT !.status = q.seen, !.due = None, !.from = None]
StillRestorable(q) == row[q.on].status = "pending_delete" /\ row[q.on].due > q.now

Restore(r) ==
  LET q == request[r] IN
  /\ Write(r, "restore")
  /\ StillRestorable(q)
  /\ row' = [row EXCEPT ![q.on] = RestoredRow(@, q)]
  /\ UNCHANGED <<tenant, assigned, queued>>

\* The set replaces the one there was: what is not in it is deleted, what is
\* missing inserted. The deletion sees what was committed when it ran.
SetAssignments(r) ==
  LET q == request[r] IN
  /\ \/ Write(r, "assign") /\ assigned' = (assigned \ q.seen) \cup q.on
     \/ Write(r, "revoke") /\ assigned' = assigned \ {q.on}
  /\ UNCHANGED <<row, tenant, queued>>

-----------------------------------------------------------------------------
(***************************************************************************)
(* Creating a location and changing the limit, under the tenant's lock.    *)
(***************************************************************************)
Usage == Cardinality(Claimed(row))

\* What a creation would find without the lock.
NoLock == TRUE

LockFree == tenant.lock = None

\* The page that asks for another limit shows a version of the tenant.
AskLimit(r) ==
  \E n \in 1..MaxLimit \ {tenant.limit} :
    Begin(r, "limit", n, "lock", tenant.version, 0) /\ UNCHANGED tenant

LockForLimit(r) ==
  LET q == request[r] IN
  /\ q.pc = "lock" /\ LockFree
  /\ tenant.version = q.seen /\ Usage <= q.on
  /\ Proceed(r, [q EXCEPT !.pc = "write"])
  /\ tenant' = [tenant EXCEPT !.lock = r]

LockForCreation(r) ==
  \E l \in Places :
    /\ LockFree
    /\ Usage < tenant.limit /\ row[l].status = "none"
    /\ Begin(r, "create", l, "write", None, 0)
    /\ tenant' = [tenant EXCEPT !.lock = r]

CreateLocation(r) ==
  LET l == request[r].on IN
  /\ Write(r, "create")
  /\ row[l].status = "none"
  /\ row' = [row EXCEPT ![l] = LiveRow]
  /\ tenant' = [tenant EXCEPT !.lock = None]
  /\ UNCHANGED <<assigned, queued>>

SetLimit(r) ==
  LET q == request[r] IN
  /\ Write(r, "limit")
  /\ tenant' = [limit |-> q.on, version |-> tenant.version + 1, lock |-> None]
  /\ UNCHANGED <<row, assigned, queued>>

-----------------------------------------------------------------------------
(***************************************************************************)
(* The purge: a timer starts a run unless one is under way. It takes the   *)
(* locations that are due, oldest first, and purges each in a transaction, *)
(* then the persons.                                                       *)
(***************************************************************************)
Due(t, now) == row[t].status = "pending_delete" /\ row[t].due # None /\ row[t].due <= now

\* The first rows of those due, in order of their date.
Oldest(S) ==
  {B \in SUBSET S : /\ Cardinality(B) = IF Cardinality(S) < Batch THEN Cardinality(S) ELSE Batch
                    /\ \A x \in B, y \in S \ B : row[x].due <= row[y].due}

PurgeStep(p) ==
  /\ purge' = p
  /\ UNCHANGED <<clock, request, served, tenant>>

BeginPurge ==
  /\ purge.pc = "idle"
  /\ \E t \in Things : Due(t, clock)   \* a run that finds nothing does nothing
  /\ \E B \in Oldest({l \in Places : Due(l, clock)}) :
       PurgeStep([pc |-> "locations", now |-> clock, todo |-> B])
  /\ UNCHANGED <<row, assigned, queued, failures>>

PurgedRow(x) == [x EXCEPT !.status = "purged", !.from = None, !.named = FALSE]
\* A purge that took the active persons only, or trusted the batch it has read.
DwellsActive(p, l) == p \in People /\ Home[p] = l /\ row[p].status = "active"
ClaimsPending(l) == row[l].status = "pending_delete"

Dwells(p, l) == p \in People /\ Home[p] = l /\ row[p].status \notin {"none", "purged"}
ClaimsPlace(l) == Due(l, purge.now)

PurgeLocation(l) ==
  /\ purge.pc = "locations" /\ l \in purge.todo
  /\ PurgeStep([purge EXCEPT !.todo = @ \ {l}])
  /\ IF ClaimsPlace(l)
     THEN /\ row' = [t \in Things |-> IF t = l \/ Dwells(t, l) THEN PurgedRow(row[t]) ELSE row[t]]
          /\ assigned' = assigned \ {l}
     ELSE UNCHANGED <<row, assigned>>
  /\ UNCHANGED <<queued, failures>>

TurnToPeople ==
  /\ purge.pc = "locations" /\ purge.todo = {}
  /\ \E B \in Oldest({p \in People : Due(p, purge.now) /\ row[Home[p]].status # "purged"}) :
       PurgeStep([purge EXCEPT !.pc = "people", !.todo = B])
  /\ UNCHANGED <<row, assigned, queued, failures>>

PurgePerson(p) ==
  /\ purge.pc = "people" /\ p \in purge.todo
  /\ PurgeStep([purge EXCEPT !.todo = @ \ {p}])
  /\ row' = IF Due(p, purge.now) THEN [row EXCEPT ![p] = PurgedRow(@)] ELSE row
  /\ UNCHANGED <<assigned, queued, failures>>

EndPurge ==
  /\ purge.pc = "people" /\ purge.todo = {}
  /\ PurgeStep([pc |-> "idle", now |-> 0, todo |-> {}])
  /\ UNCHANGED <<row, assigned, queued, failures>>

\* A run that left its mark behind when it failed.
PurgeHangs ==
  /\ purge.pc # "idle" /\ failures < MaxFailures
  /\ failures' = failures + 1
  /\ PurgeStep([pc |-> "failed", now |-> 0, todo |-> {}])
  /\ UNCHANGED <<row, assigned, queued>>

\* An error, or the end of the process, ends the run where it is.
PurgeFails ==
  /\ purge.pc # "idle" /\ failures < MaxFailures
  /\ failures' = failures + 1
  /\ PurgeStep([pc |-> "idle", now |-> 0, todo |-> {}])
  /\ UNCHANGED <<row, assigned, queued>>

-----------------------------------------------------------------------------
\* No request lasts into a second tick.
Tick ==
  /\ clock < MaxTime
  /\ \A r \in Requests : ~request[r].late
  /\ clock' = clock + 1
  /\ request' = [r \in Requests |-> IF request[r] = Idle THEN Idle
                                     ELSE [request[r] EXCEPT !.late = TRUE]]
  /\ UNCHANGED <<row, tenant, assigned, queued, served, purge, failures>>

Start(r) ==
  ReadPlace(r) \/ LookForPerson(r) \/ ReadAssignments(r) \/ AskLimit(r) \/ LockForCreation(r)

Handle(r) ==
  \/ ReadPerson(r) \/ LockForLimit(r) \/ Fail(r)
  \/ AddPerson(r) \/ Rename(r) \/ SetStatus(r) \/ ScheduleDeletion(r) \/ Restore(r)
  \/ SetAssignments(r) \/ CreateLocation(r) \/ SetLimit(r)

Purge ==
  \/ BeginPurge \/ TurnToPeople \/ EndPurge
  \/ \E l \in Places : PurgeLocation(l)
  \/ \E p \in People : PurgePerson(p)

Next ==
  \/ \E r \in Requests : Start(r) \/ Handle(r)
  \/ Purge \/ PurgeFails
  \/ Tick

Spec == Init /\ [][Next]_vars

\* Requests end, the timer fires, and time goes on.
Fairness ==
  /\ WF_vars(\E r \in Requests : Handle(r))
  /\ WF_vars(Purge)
  /\ WF_vars(Tick)

FairSpec == Spec /\ Fairness

-----------------------------------------------------------------------------
(***************************************************************************)
(* Properties.                                                             *)
(***************************************************************************)
\* The variables keep their types, and the lock is held by a request that is
\* about to write under it.
TypeOK ==
  /\ clock \in 0..MaxTime
  /\ row \in [Things -> Row]
  /\ tenant.limit \in 1..MaxLimit /\ tenant.version \in Nat
  /\ assigned \in SUBSET Places /\ queued \in SUBSET Places
  /\ \A r \in Requests :
       tenant.lock = r <=> request[r].pc = "write" /\ request[r].op \in {"create", "limit"}
  /\ purge.todo \in SUBSET Things

\* Locations created by racing requests and limits lowered meanwhile never
\* leave a tenant with more locations than its limit.
QuotaKept == Usage <= tenant.limit

\* Nothing of a purged location is left: no person that is not purged itself,
\* added late or not, and no assignment.
PurgedLocationIsEmpty ==
  \A l \in Places : row[l].status = "purged" =>
    /\ \A p \in People : Home[p] = l => row[p].status \in {"none", "purged"} /\ ~row[p].named
    /\ l \notin assigned

\* A purged row stays as it is: no request that read it before writes a status
\* or a name back into it.
PurgedIsFinal == [][\A t \in Things : row[t].status = "purged" => row'[t] = row[t]]_vars

\* A location is purged only in its own time: not after it was restored, nor
\* before the end of a period of grace that began anew.
GraceIsKept ==
  [][\A l \in Places : row'[l].status = "purged" /\ row[l].status # "purged" => Due(l, clock)]_vars

\* Pending deletion is left by restoration, which clears the date, or by the
\* purge; no edit or change of status ends it.
PendingIsClosed ==
  [][\A t \in Things : row[t].status = "pending_delete" /\ row'[t].status # "pending_delete" =>
       row'[t].status = "purged" \/ row'[t].due = None]_vars

\* What is due is purged, unless a restoration that was in time ends it,
\* although runs fail and take a few rows at a time.
DueIsPurged == \A t \in Things : Due(t, clock) ~> row[t].status # "pending_delete"
=============================================================================
