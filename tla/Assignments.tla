----------------------------- MODULE Assignments ----------------------------
(***************************************************************************)
(* The page on which a tenant's managers look after an operator, and the   *)
(* locations the operator is assigned to. A page shows what it has read    *)
(* last and sends the whole set that is to be; the server replaces the set *)
(* in a transaction of two statements, at READ COMMITTED and without a     *)
(* lock of the operator. Two managers may do so at the same time.          *)
(***************************************************************************)
EXTENDS Naturals

CONSTANTS
  Managers,
  Sites,        \* locations
  MaxAsks,      \* bound: reloads, saves and other acts of the managers
  MaxTurns      \* bound: changes of a location, and single revocations

ASSUME AssignmentsAssumption == MaxAsks \in Nat /\ MaxTurns \in Nat

VARIABLES
  operator,  \* whether there is a row of the operator
  active,    \* the locations that are active; the others are inactive or to be deleted
  assigned,  \* operator_location_assignments, what is committed
  screen,    \* the page of each manager
  save,      \* the request of each that replaces the set
  fresh,     \* history: what was granted since the page was told the assignments
  asks, turns

assignmentVars == <<operator, active, assigned, screen, save, fresh, asks, turns>>

\* A page: whether it shows the operator, its assignments, those it knows to be
\* active, the active locations it offers, and the boxes that are ticked. "found"
\* is the first half of a reload, which is not shown without the other.
Lists == [row : BOOLEAN, sites : SUBSET Sites]
NotFound == [row |-> FALSE, sites |-> {}]
Screen == [pc : {"loading", "reading", "idle", "acting", "editing", "saving"},
           lists : Lists, found : Lists,
           shown : SUBSET Sites, usable : SUBSET Sites, ticked : SUBSET Sites]

\* "doomed" are the rows that are to be deleted, or are; "added" those inserted.
\* History: what the manager was asked to confirm, and what others have granted
\* and revoked since the first statement.
Save == [pc : {"sent", "checked", "deleting", "deleted", "inserted", "committed"},
         asked : SUBSET Sites, doomed : SUBSET Sites, added : SUBSET Sites,
         confirmed : SUBSET Sites, gained : SUBSET Sites, lost : SUBSET Sites]
NoSave == [pc |-> "none"]
Refused == [pc |-> "refused"]

InitAssignments ==
  /\ operator \in BOOLEAN
  /\ active \in SUBSET Sites
  /\ assigned \in IF operator THEN SUBSET Sites ELSE {{}}
  /\ screen = [m \in Managers |->
       [pc |-> "loading", lists |-> NotFound, found |-> NotFound,
        shown |-> {}, usable |-> {}, ticked |-> {}]]
  /\ save = [m \in Managers |-> NoSave]
  /\ fresh = [m \in Managers |-> {}]
  /\ asks = 0 /\ turns = 0

-----------------------------------------------------------------------------
(***************************************************************************)
(* The page.                                                               *)
(***************************************************************************)
Turn(m, rec) ==
  /\ screen' = [screen EXCEPT ![m] = rec]
  /\ UNCHANGED <<active, assigned, turns>>

Ask == asks < MaxAsks /\ asks' = asks + 1

\* A reload reads the operators and the locations, then their assignments.
ReadLists(m) ==
  /\ screen[m].pc = "loading"
  /\ Turn(m, [screen[m] EXCEPT !.pc = "reading", !.found = [row |-> operator, sites |-> active]])
  /\ UNCHANGED <<operator, save, fresh, asks>>

\* The assignments that the server answers, and which of them are active.
Listed == [shown |-> assigned, usable |-> assigned \cap active]

ReadAssigned(m) ==
  LET p == screen[m] IN
  /\ p.pc = "reading"
  /\ Turn(m, [p EXCEPT !.pc = "idle", !.lists = p.found, !.found = NotFound,
                       !.shown = IF p.found.row THEN Listed.shown ELSE {},
                       !.usable = IF p.found.row THEN Listed.usable ELSE {}])
  /\ fresh' = [fresh EXCEPT ![m] = {}]
  /\ UNCHANGED <<operator, save, asks>>

\* What was shown before stays.
ReloadFails(m) ==
  /\ screen[m].pc \in {"loading", "reading"}
  /\ Turn(m, [screen[m] EXCEPT !.pc = "idle", !.found = NotFound])
  /\ UNCHANGED <<operator, save, fresh, asks>>

OpenPage(m) ==
  /\ screen[m].pc = "idle" /\ Ask
  /\ Turn(m, [screen[m] EXCEPT !.pc = "loading", !.lists = NotFound,
                               !.shown = {}, !.usable = {}])
  /\ UNCHANGED <<operator, save, fresh>>

\* An operator is created, renamed, enabled, disabled or given a password; the
\* page reads all again if it is told that this was done.
AskChange(m) ==
  /\ screen[m].pc = "idle" /\ Ask
  /\ Turn(m, [screen[m] EXCEPT !.pc = "acting"])
  /\ UNCHANGED <<operator, save, fresh>>

Answered(m, done) ==
  /\ screen[m].pc = "acting"
  /\ Turn(m, [screen[m] EXCEPT !.pc = IF done THEN "loading" ELSE "idle"])
  /\ UNCHANGED <<save, fresh, asks>>

\* The name is unique in the tenant: a second creation is refused, also that of
\* a manager whose first one was answered with an error after it was made.
CreateOperator(m) ==
  /\ ~operator /\ operator' = TRUE
  /\ \E done \in BOOLEAN : Answered(m, done)

ManageOperators(m) ==
  /\ \/ Answered(m, FALSE)
     \/ screen[m].lists.row /\ Answered(m, TRUE)
  /\ UNCHANGED operator

OpenEditor(m) ==
  /\ screen[m].pc = "idle" /\ screen[m].lists.row
  /\ Turn(m, [screen[m] EXCEPT !.pc = "editing", !.ticked = screen[m].usable])
  /\ UNCHANGED <<operator, save, fresh, asks>>

ToggleLocation(m) ==
  /\ screen[m].pc \in {"editing", "saving"}
  /\ \E l \in screen[m].lists.sites :
       Turn(m, [screen[m] EXCEPT !.ticked = IF l \in @ THEN @ \ {l} ELSE @ \cup {l}])
  /\ UNCHANGED <<operator, save, fresh, asks>>

CloseEditor(m) ==
  /\ screen[m].pc = "editing"
  /\ Turn(m, [screen[m] EXCEPT !.pc = "idle", !.ticked = {}])
  /\ UNCHANGED <<operator, save, fresh, asks>>

\* A page that asked only about the locations it offers.
ToConfirmOffered(p) == (p.shown \cap p.lists.sites) \ p.ticked
ToConfirm(p) == p.shown \ p.ticked

\* The manager has confirmed what is to be revoked, if anything.
SendSave(m) ==
  /\ screen[m].pc = "editing" /\ Ask
  /\ save' = [save EXCEPT ![m] =
       [pc |-> "sent", asked |-> screen[m].ticked, doomed |-> {}, added |-> {},
        confirmed |-> ToConfirm(screen[m]), gained |-> {}, lost |-> {}]]
  /\ Turn(m, [screen[m] EXCEPT !.pc = "saving"])
  /\ UNCHANGED <<operator, fresh>>

\* The answer is shown in place of what was; after an error the editor stays.
ReceiveSaved(m) ==
  /\ save[m].pc = "committed"
  /\ save' = [save EXCEPT ![m] = NoSave]
  /\ Turn(m, [screen[m] EXCEPT !.pc = "idle", !.ticked = {},
                               !.shown = save[m].asked, !.usable = save[m].asked])
  /\ fresh' = [fresh EXCEPT ![m] = @ \ save[m].asked]
  /\ UNCHANGED <<operator, asks>>

\* The audit or the answer may also be lost after the commit.
ReceiveError(m) ==
  /\ save[m].pc \in {"refused", "committed"}
  /\ save' = [save EXCEPT ![m] = NoSave]
  /\ Turn(m, [screen[m] EXCEPT !.pc = "editing"])
  /\ UNCHANGED <<operator, fresh, asks>>

-----------------------------------------------------------------------------
(***************************************************************************)
(* The server: setLocationAssignments and revokeLocationAssignment.        *)
(***************************************************************************)
Open(m) == save[m].pc \in {"deleting", "deleted", "inserted"}

Statement(m, rec) ==
  /\ save' = [save EXCEPT ![m] = rec]
  /\ UNCHANGED <<operator, active, assigned, screen, fresh, asks, turns>>

CheckAssignable(m) ==
  /\ save[m].pc = "sent"
  /\ Statement(m, IF save[m].asked \subseteq active THEN [save[m] EXCEPT !.pc = "checked"]
               ELSE Refused)

\* A deletion that is confined to the active locations.
SurplusActive(asked) == (assigned \cap active) \ asked
Surplus(asked) == assigned \ asked

\* The deletion takes the rows that are committed when it begins. One that
\* another transaction is deleting it waits for, and then does without.
BeginDelete(m) ==
  /\ save[m].pc = "checked"
  /\ Statement(m, [save[m] EXCEPT !.pc = "deleting", !.doomed = Surplus(save[m].asked)])

DoomedBy(n, l) == save[n].pc \in {"deleted", "inserted"} /\ l \in save[n].doomed
AddedBy(n, l) == save[n].pc = "inserted" /\ l \in save[n].added

EndDelete(m) ==
  /\ save[m].pc = "deleting"
  /\ \A l \in save[m].doomed \cap assigned, n \in Managers \ {m} : ~DoomedBy(n, l)
  /\ Statement(m, [save[m] EXCEPT !.pc = "deleted", !.doomed = @ \cap assigned])

\* A row that is there is skipped, without a lock on it; one that another
\* transaction deletes or inserts is waited for.
InsertMissing(m) ==
  /\ save[m].pc = "deleted"
  /\ \A l \in save[m].asked, n \in Managers \ {m} : ~DoomedBy(n, l) /\ ~AddedBy(n, l)
  /\ Statement(m, [save[m] EXCEPT !.pc = "inserted", !.added = save[m].asked \ assigned])

\* Any request may fail; so does one of two that wait for each other.
SaveFails(m) ==
  /\ save[m].pc \in {"sent", "checked", "deleting", "deleted", "inserted"}
  /\ Statement(m, Refused)

\* What becomes of the committed rows is history for the pages, and for the
\* other transactions.
Become(rows) ==
  /\ assigned' = rows
  /\ fresh' = [m \in Managers |-> fresh[m] \cup (rows \ assigned)]

Witnessed(n, rows) ==
  IF Open(n) THEN [save[n] EXCEPT !.gained = @ \cup (rows \ assigned), !.lost = @ \cup (assigned \ rows)]
  ELSE save[n]

CommitSave(m) ==
  LET rows == (assigned \ save[m].doomed) \cup save[m].added IN
  /\ save[m].pc = "inserted"
  /\ Become(rows)
  /\ save' = [n \in Managers |->
       IF n = m THEN [save[m] EXCEPT !.pc = "committed"] ELSE Witnessed(n, rows)]
  /\ UNCHANGED <<operator, active, screen, asks, turns>>

\* A single assignment is revoked through the API; the page does not do so.
RevokeOne(l) ==
  /\ turns < MaxTurns /\ turns' = turns + 1
  /\ l \in assigned \cap active
  /\ \A n \in Managers : ~DoomedBy(n, l)
  /\ Become(assigned \ {l})
  /\ save' = [n \in Managers |-> Witnessed(n, assigned \ {l})]
  /\ UNCHANGED <<operator, active, screen, asks>>

\* A location is deactivated, scheduled for deletion, activated or restored.
ChangeSite(l) ==
  /\ turns < MaxTurns /\ turns' = turns + 1
  /\ active' = IF l \in active THEN active \ {l} ELSE active \cup {l}
  /\ UNCHANGED <<operator, assigned, screen, save, fresh, asks>>

NextAssignments ==
  \/ \E m \in Managers :
       \/ ReadLists(m) \/ ReadAssigned(m) \/ ReloadFails(m) \/ OpenPage(m) \/ AskChange(m)
       \/ CreateOperator(m) \/ ManageOperators(m)
       \/ OpenEditor(m) \/ ToggleLocation(m) \/ CloseEditor(m) \/ SendSave(m)
       \/ ReceiveSaved(m) \/ ReceiveError(m)
       \/ CheckAssignable(m) \/ BeginDelete(m) \/ EndDelete(m) \/ InsertMissing(m)
       \/ SaveFails(m) \/ CommitSave(m)
  \/ \E l \in Sites : RevokeOne(l) \/ ChangeSite(l)

AssignmentsSpec == InitAssignments /\ [][NextAssignments]_assignmentVars

-----------------------------------------------------------------------------
(***************************************************************************)
(* Properties.                                                             *)
(***************************************************************************)
\* The rows, the pages and the requests keep their types, and there is no
\* assignment of an operator who is not there.
AssignmentsTypeOK ==
  /\ operator \in BOOLEAN /\ active \subseteq Sites /\ assigned \subseteq Sites
  /\ assigned # {} => operator
  /\ screen \in [Managers -> Screen]
  /\ save \in [Managers -> Save \cup {NoSave, Refused}]
  /\ fresh \in [Managers -> SUBSET Sites]

\* A save that is committed leaves the set it was asked for, whatever the page
\* had shown and however its statements fall between those of others: it differs
\* only in what others have granted or revoked since its first statement.
SaveReplaces ==
  [][\A m \in Managers : CommitSave(m) =>
       /\ assigned' \ save[m].asked \subseteq save[m].gained
       /\ save[m].asked \ assigned' \subseteq save[m].lost]_assignmentVars

\* No assignment is revoked by a save without the manager having been asked,
\* but for those that were granted since the page was told which there are: in
\* particular not that of a location which it does not offer, being inactive.
RevokedIsConfirmed ==
  [][\A m \in Managers : CommitSave(m) =>
       save[m].doomed \subseteq save[m].confirmed \cup fresh[m]]_assignmentVars

\* "Replaces all assignments atomically": a save that is committed leaves none but
\* those it was asked for, or changes nothing, as if another had come after it
\* (docs/api.md).
ReplacedAtomically ==
  [][\A m \in Managers : CommitSave(m) =>
       assigned' \subseteq save[m].asked \/ assigned' = assigned]_assignmentVars
=============================================================================
