------------------------------- MODULE Records -------------------------------
(***************************************************************************)
(* The records of a tenant and of the platform as their readers and the    *)
(* retention timer see them: scan events, business audit logs and platform *)
(* audit logs, read page by page, newest first, and destroyed one by one   *)
(* a year after they were made, oldest first.                              *)
(*                                                                         *)
(* A scan event stands for its family (module RecordRetention); here its   *)
(* mail is settled or it is not.                                           *)
(***************************************************************************)
EXTENDS Naturals, FiniteSets

CONSTANTS
  Rows,           \* ids, which are ordered
  Layouts,        \* the table each row belongs to, and the rows that name the tenant
  PageLimit,      \* rows of a page
  PassBatch,      \* rows of one kind that a pass takes on
  Year,           \* ticks a record is kept
  LastTick,       \* bound: the last tick
  MaxPassFails,   \* bound: destructions that fail, passes that end with their process
  MaxDeletions,   \* bound: deletions of the tenant
  Nothing         \* null

Kinds == {"scan", "business", "platform"}

ASSUME RecordsAssumption ==
  /\ Rows \subseteq Nat /\ IsFiniteSet(Rows)
  /\ Layouts \subseteq [kind : [Rows -> Kinds \cup {Nothing}], own : SUBSET Rows]
  /\ \A l \in Layouts, r \in Rows : l.kind[r] = "scan" => r \in l.own
  /\ PageLimit \in Nat \ {0} /\ PassBatch \in Nat \ {0} /\ Year \in Nat
  /\ LastTick \in Nat /\ MaxPassFails \in Nat /\ MaxDeletions \in Nat
  /\ Nothing \notin Rows

VARIABLES
  layout,     \* the tables of the rows
  record,     \* created_at of each row, and whether it is there
  unsettled,  \* the scan events whose mail is not settled
  tenant,     \* its status and how often it was deleted
  tick,
  pass,       \* the retention timer: the kind it is at, the rows left of its batch
  walk        \* a reader: its cursor, what it was shown, and what it has yet to see

recordsVars == <<layout, record, unsettled, tenant, tick, pass, walk>>

Kind(r) == layout.kind[r]
Own == layout.own

Resting(failures) == [phase |-> "idle", batch |-> {}, noted |-> FALSE, failures |-> failures]
Start == [at |-> LastTick + 1, id |-> 0]
NoWalk == [pc |-> "idle", of |-> Nothing, cursor |-> Start, shown |-> {}, unseen |-> {},
           twice |-> FALSE]

InitRecords ==
  /\ layout \in Layouts
  /\ record = [r \in Rows |-> [at |-> 0, state |-> "none"]]
  /\ unsettled \in SUBSET {r \in Rows : Kind(r) = "scan"}
  /\ tenant = [status |-> "active", deletions |-> 0]
  /\ tick = 0
  /\ pass = Resting(0)
  /\ walk = NoWalk

There(k) == {r \in Rows : Kind(r) = k /\ record[r].state = "there"}

\* ORDER BY created_at DESC, id DESC, of rows and of cursors.
Key(r) == [at |-> record[r].at, id |-> r]
Newer(k, l) == k.at > l.at \/ (k.at = l.at /\ k.id > l.id)
NewerByTime(k, l) == k.at > l.at

Newest(S, n) == {r \in S : Cardinality({s \in S : Newer(Key(s), Key(r))}) < n}
Oldest(S, n) == {r \in S : Cardinality({s \in S : Newer(Key(r), Key(s))}) < n}
OldestOf(S) == CHOOSE r \in S : \A s \in S : ~Newer(Key(r), Key(s))

-----------------------------------------------------------------------------
(***************************************************************************)
(* Records are made.                                                       *)
(***************************************************************************)
Made(state) == [at |-> tick, state |-> state]

\* A scan event has its time before its transaction commits, and the licence was
\* looked at before either: the tenant may be deleted meanwhile.
BeginScanEvent ==
  \E r \in Rows :
    /\ Kind(r) = "scan" /\ record[r].state = "none" /\ tenant.status = "active"
    /\ record' = [record EXCEPT ![r] = Made("open")]
    /\ UNCHANGED <<layout, unsettled, tenant, tick, pass, walk>>

CommitScanEvent ==
  \E r \in Rows :
    /\ record[r].state = "open" /\ tenant.status # "purged"
    /\ record' = [record EXCEPT ![r].state = "there"]
    /\ UNCHANGED <<layout, unsettled, tenant, tick, pass, walk>>

\* AuditService.record and PlatformAuditService.record: one statement, and a
\* failure is an answer. A handler that outlives the tenant still writes its row.
Recorded(r, k) ==
  /\ Kind(r) = k /\ record[r].state = "none"
  /\ record' = [record EXCEPT ![r] = Made("there")]
NotRecorded == UNCHANGED record

RecordEvent ==
  /\ \E r \in Rows : Recorded(r, "business") \/ Recorded(r, "platform")
  /\ UNCHANGED <<layout, unsettled, tenant, tick, pass, walk>>

SettleMail ==
  \E r \in unsettled :
    /\ unsettled' = unsettled \ {r}
    /\ UNCHANGED <<layout, record, tenant, tick, pass, walk>>

-----------------------------------------------------------------------------
(***************************************************************************)
(* Lists, page by page.                                                    *)
(***************************************************************************)
BelowByTime(cursor, S) == {r \in S : NewerByTime(cursor, Key(r))}
Below(cursor, S) == {r \in S : Newer(cursor, Key(r))}

\* One row more than the page is read: it tells whether there is a next page.
Shown(k, S) ==
  LET rows == Below(walk.cursor, S)
      page == Newest(rows, PageLimit)
      unseen == (IF walk.pc = "idle" THEN S ELSE walk.unseen \cap S) \ page
      twice == walk.twice \/ page \cap walk.shown # {}
  IN walk' = IF Cardinality(rows) > PageLimit
             THEN [pc |-> "reading", of |-> k, cursor |-> Key(OldestOf(page)),
                   shown |-> walk.shown \cup page, unseen |-> unseen, twice |-> twice]
             ELSE [NoWalk EXCEPT !.pc = "read", !.unseen = unseen, !.twice = twice]

Continues(k) == walk.pc = "idle" \/ (walk.pc = "reading" /\ walk.of = k)

ListScanEvents ==
  /\ Continues("scan") /\ tenant.status = "active"
  /\ Shown("scan", There("scan"))
  /\ UNCHANGED <<layout, record, unsettled, tenant, tick, pass>>

\* The mail jobs, one of each scan event and made with it.
ListMailJobs ==
  /\ Continues("mail") /\ tenant.status = "active"
  /\ Shown("mail", There("scan"))
  /\ UNCHANGED <<layout, record, unsettled, tenant, tick, pass>>

\* A query of the audit log is itself recorded, if that can be done.
ListAuditLogs ==
  /\ Continues("business") /\ tenant.status = "active"
  /\ Shown("business", There("business") \cap Own)
  /\ NotRecorded \/ \E r \in Rows \cap Own : Recorded(r, "business")
  /\ UNCHANGED <<layout, unsettled, tenant, tick, pass>>

\* A query of the platform's log that cannot be recorded is refused: it shows nothing.
ListPlatformAudits ==
  /\ Continues("platform")
  /\ Shown("platform", There("platform"))
  /\ \E r \in Rows \ Own : Recorded(r, "platform")
  /\ UNCHANGED <<layout, unsettled, tenant, tick, pass>>

LeaveList ==
  /\ walk.pc # "idle"
  /\ walk' = NoWalk
  /\ UNCHANGED <<layout, record, unsettled, tenant, tick, pass>>

-----------------------------------------------------------------------------
(***************************************************************************)
(* The retention timer. Of a process one pass runs at a time.              *)
(***************************************************************************)
IsDue(r) == record[r].state = "there" /\ record[r].at + Year <= tick

\* A deletion that can still be undone holds all that names the tenant. Of a
\* tenant that was purged audit logs may be left, written by a handler that ran on.
HeldFamily == tenant.status \in {"pending_delete", "purged"}
HeldAudit == tenant.status = "pending_delete"
Held(r) == r \in Own /\ IF Kind(r) = "scan" THEN HeldFamily ELSE HeldAudit

Destructible(r) == IsDue(r) /\ ~Held(r) /\ r \notin unsettled

\* The row may have changed since it was listed: all is checked again under the
\* lock of the tenant. (Below, a transaction that takes the list's word for it.)
TrustsList(r) == IsDue(r)
MayGo(r) == Destructible(r)

\* The families that cannot go yet are passed over by the query, so that they
\* do not fill the batch of every pass.
ListedWithUnsettled(k) == Oldest({r \in There(k) : IsDue(r) /\ ~Held(r)}, PassBatch)
Listed(k) == Oldest({r \in There(k) : Destructible(r)}, PassBatch)

BeginPass ==
  /\ pass.phase = "idle"
  /\ pass' = [pass EXCEPT !.phase = "scan", !.batch = Listed("scan")]
  /\ UNCHANGED <<layout, record, unsettled, tenant, tick, walk>>

Gone == [at |-> 0, state |-> "gone"]
Removed(r) == [record EXCEPT ![r] = Gone]

\* What is blocked, or no longer due, is left.
DestroyNext ==
  LET r == OldestOf(pass.batch) IN
  /\ pass.batch # {}
  /\ record' = IF MayGo(r) THEN Removed(r) ELSE record
  /\ pass' = [pass EXCEPT !.batch = @ \ {r}, !.noted = @ \/ MayGo(r)]
  /\ UNCHANGED <<layout, unsettled, tenant, tick, walk>>

\* A failure ends the work on this kind of record, and on no other.
DestroyFails ==
  /\ pass.batch # {} /\ pass.failures < MaxPassFails
  /\ pass' = [pass EXCEPT !.batch = {}, !.noted = TRUE, !.failures = @ + 1]
  /\ UNCHANGED <<layout, record, unsettled, tenant, tick, walk>>

\* The process ends, or a list cannot be read.
PassDies ==
  /\ pass.phase # "idle" /\ pass.failures < MaxPassFails
  /\ pass' = Resting(pass.failures + 1)
  /\ UNCHANGED <<layout, record, unsettled, tenant, tick, walk>>

NextKind ==
  \E step \in {<<"scan", "business">>, <<"business", "platform">>} :
    /\ pass.phase = step[1] /\ pass.batch = {}
    /\ pass' = [pass EXCEPT !.phase = step[2], !.batch = Listed(step[2])]
    /\ UNCHANGED <<layout, record, unsettled, tenant, tick, walk>>

\* A pass that did something, or failed, leaves a record of its own.
EndPass ==
  /\ pass.phase = "platform" /\ pass.batch = {}
  /\ pass' = Resting(pass.failures)
  /\ \/ NotRecorded
     \/ /\ pass.noted
        /\ \E r \in Rows \ Own : Recorded(r, "platform")
  /\ UNCHANGED <<layout, unsettled, tenant, tick, walk>>

-----------------------------------------------------------------------------
(***************************************************************************)
(* What happens to the tenant, and time.                                   *)
(***************************************************************************)
DeleteTenant ==
  /\ tenant.status = "active" /\ tenant.deletions < MaxDeletions
  /\ tenant' = [status |-> "pending_delete", deletions |-> tenant.deletions + 1]
  /\ UNCHANGED <<layout, record, unsettled, tick, pass, walk>>

RestoreTenant ==
  /\ tenant.status = "pending_delete"
  /\ tenant' = [tenant EXCEPT !.status = "active"]
  /\ UNCHANGED <<layout, record, unsettled, tick, pass, walk>>

\* The platform's log keeps what it says of the tenant.
PurgeTenant ==
  /\ tenant.status = "pending_delete"
  /\ tenant' = [tenant EXCEPT !.status = "purged"]
  /\ record' = [r \in Rows |-> IF r \in Own /\ Kind(r) # "platform" /\ record[r].state = "there"
                               THEN Gone ELSE record[r]]
  /\ UNCHANGED <<layout, unsettled, tick, pass, walk>>

NextTick ==
  /\ tick < LastTick
  /\ tick' = tick + 1
  /\ UNCHANGED <<layout, record, unsettled, tenant, pass, walk>>

PassStep == BeginPass \/ DestroyNext \/ NextKind \/ EndPass

NextRecords ==
  \/ BeginScanEvent \/ CommitScanEvent \/ RecordEvent \/ SettleMail
  \/ ListScanEvents \/ ListMailJobs \/ ListAuditLogs \/ ListPlatformAudits \/ LeaveList
  \/ PassStep \/ DestroyFails \/ PassDies
  \/ DeleteTenant \/ RestoreTenant \/ PurgeTenant \/ NextTick

\* The timer fires every minute for as long as there is a process.
RecordsFairness == WF_recordsVars(PassStep)

SpecRecords == InitRecords /\ [][NextRecords]_recordsVars /\ RecordsFairness

-----------------------------------------------------------------------------
(***************************************************************************)
(* Properties.                                                             *)
(***************************************************************************)
\* A reader who goes to the last page has seen, once each, all the records that
\* were there when the first page was read and are there still, whatever was
\* recorded or destroyed meanwhile and however many bear the same time.
WalkIsExact ==
  /\ ~walk.twice
  /\ walk.pc = "read" => walk.unseen = {}

\* As long as the deletion of a tenant can be undone nothing of it is destroyed,
\* by a pass that had listed its records before the deletion included.
NothingGoesWhilePending ==
  [][\A r \in Own : tenant.status = "pending_delete" /\ tenant' = tenant =>
       (record[r].state = "there" => record'[r].state = "there")]_recordsVars

Backlog == {r \in Rows : Destructible(r)}

\* What is due is destroyed, unless the tenant is deleted, however many families
\* that cannot go yet are older and whatever fails on the way. (The records are
\* bounded: were they to come due faster than passes take them on, none of this.)
BacklogIsCleared == Backlog # {} ~> Backlog = {}
=============================================================================
