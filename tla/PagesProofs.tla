------------------------------ MODULE PagesProofs ---------------------------
(***************************************************************************)
(* Proofs about the pages: Assignments, for any managers and locations;    *)
(* Workspace, for any locations, page size, number of polls, scans and     *)
(* calls; Directory, for any locations, people and reads. They share       *)
(* nothing but the module.                                                 *)
(***************************************************************************)
EXTENDS Workspace, Assignments, Directory, FiniteSetTheorems, WellFoundedInduction, TLAPS

(***************************************************************************)
(* Assignments: what a save leaves behind, and what it may revoke. What is *)
(* known of a manager's page and request is stated of their values, so     *)
(* that each step is reduced to how it changes one of them.                *)
(***************************************************************************)
Requests == Save \cup {NoSave, Refused}

\* A page "p" that shows an operator shows its rows, but for those granted since.
PageKnows(p, f, rows, op) ==
  /\ p.lists.row \/ p.found.row => op
  /\ p.lists.row => rows \subseteq p.shown \cup f
  /\ p.pc \in {"editing", "saving"} => p.lists.row

\* A request "v" is the page's, whose manager has confirmed what is not asked for.
RequestIsThePages(p, v, f) ==
  /\ v # NoSave => p.pc = "saving"
  /\ v \in Save => v.gained \subseteq f
  /\ v \in Save /\ v.pc # "committed" => p.shown \ v.asked \subseteq v.confirmed

\* How far its transaction is.
DeletionIsDecided(v, f, rows) ==
  v.pc \in {"deleting", "deleted", "inserted"} =>
    /\ rows \ v.asked \subseteq v.doomed \cup v.gained
    /\ v.doomed \cap v.asked = {}
    /\ v.doomed \subseteq v.confirmed \cup f

InsertionIsDecided(v, rows) ==
  v.pc = "inserted" =>
    /\ v.added \subseteq v.asked
    /\ v.asked \subseteq rows \cup v.added \cup v.lost

AnswerIsRight(v, f, rows) == v.pc = "committed" => rows \subseteq v.asked \cup f

Knows(p, v, f, rows, op) ==
  /\ PageKnows(p, f, rows, op)
  /\ RequestIsThePages(p, v, f)
  /\ DeletionIsDecided(v, f, rows)
  /\ InsertionIsDecided(v, rows)
  /\ AnswerIsRight(v, f, rows)

AssignmentsInv ==
  /\ AssignmentsTypeOK
  /\ \A m \in Managers : Knows(screen[m], save[m], fresh[m], assigned, operator)

-----------------------------------------------------------------------------
LEMMA RequestKinds ==
  /\ NoSave.pc = "none" /\ Refused.pc = "refused" /\ NoSave # Refused
  /\ NoSave \notin Save /\ Refused \notin Save
  /\ \A v \in Save : v.pc \in {"sent", "checked", "deleting", "deleted", "inserted", "committed"}
BY DEF NoSave, Refused, Save

LEMMA AssignmentsStart == InitAssignments => AssignmentsInv
<1> SUFFICES ASSUME InitAssignments PROVE AssignmentsInv
  OBVIOUS
<1>1. AssignmentsTypeOK
  BY DEF InitAssignments, AssignmentsTypeOK, Screen, Lists, NotFound
<1>2. ASSUME NEW m \in Managers
      PROVE  Knows(screen[m], save[m], fresh[m], assigned, operator)
  <2>1. save[m] = NoSave /\ screen[m].pc = "loading" /\ ~screen[m].lists.row /\ ~screen[m].found.row
    BY DEF InitAssignments, NotFound
  <2> QED BY <2>1, RequestKinds DEF Knows, PageKnows, RequestIsThePages, DeletionIsDecided,
             InsertionIsDecided, AnswerIsRight
<1> QED BY <1>1, <1>2 DEF AssignmentsInv

\* A step of one manager that leaves the rows alone is known by what becomes of the
\* manager's page, request and history.
LEMMA OwnStep ==
  ASSUME AssignmentsInv, NEW m \in Managers, NEW p \in Screen, NEW v \in Requests, NEW f \in SUBSET Sites,
         screen' = [screen EXCEPT ![m] = p], save' = [save EXCEPT ![m] = v],
         fresh' = [fresh EXCEPT ![m] = f],
         UNCHANGED <<active, assigned>>, operator' \in BOOLEAN, operator => operator',
         Knows(p, v, f, assigned, operator')
  PROVE  AssignmentsInv'
<1>1. AssignmentsTypeOK'
  BY DEF AssignmentsInv, AssignmentsTypeOK, Requests
<1>2. ASSUME NEW n \in Managers
      PROVE  Knows(screen'[n], save'[n], fresh'[n], assigned', operator')
  <2>1. CASE n = m
    BY <2>1 DEF AssignmentsInv, AssignmentsTypeOK
  <2>2. CASE n # m
    <3>1. screen'[n] = screen[n] /\ save'[n] = save[n] /\ fresh'[n] = fresh[n]
      BY <2>2 DEF AssignmentsInv, AssignmentsTypeOK
    <3>2. Knows(screen[n], save[n], fresh[n], assigned, operator)
      BY DEF AssignmentsInv
    <3>3. Knows(screen[n], save[n], fresh[n], assigned, operator')
      BY <3>2 DEF Knows, PageKnows
    <3> QED BY <3>1, <3>3
  <2> QED BY <2>1, <2>2
<1>3. \A n \in Managers : Knows(screen[n], save[n], fresh[n], assigned, operator)'
  BY <1>2
<1> QED BY <1>1, <1>3 DEF AssignmentsInv

\* What a step of one manager may start from.
LEMMA OwnState ==
  ASSUME AssignmentsInv, NEW m \in Managers
  PROVE  /\ screen[m] \in Screen /\ save[m] \in Requests /\ fresh[m] \in SUBSET Sites
         /\ assigned \in SUBSET Sites /\ active \in SUBSET Sites /\ operator \in BOOLEAN
         /\ Knows(screen[m], save[m], fresh[m], assigned, operator)
         /\ save = [save EXCEPT ![m] = save[m]] /\ fresh = [fresh EXCEPT ![m] = fresh[m]]
         /\ screen = [screen EXCEPT ![m] = screen[m]]
BY DEF AssignmentsInv, AssignmentsTypeOK, Requests

-----------------------------------------------------------------------------
\* A page that is not saving has no request, and one that only turns keeps what
\* it shows.
LEMMA TurnStep ==
  ASSUME AssignmentsInv, NEW m \in Managers, NEW p \in Screen,
         screen' = [screen EXCEPT ![m] = p],
         UNCHANGED <<active, assigned, save, fresh>>, operator' \in BOOLEAN, operator => operator',
         PageKnows(p, fresh[m], assigned, operator'),
         screen[m].pc = "saving" => p.pc = "saving" /\ p.shown = screen[m].shown
  PROVE  AssignmentsInv'
<1>1. Knows(screen[m], save[m], fresh[m], assigned, operator)
  BY OwnState
<1>2. RequestIsThePages(p, save[m], fresh[m])
  BY <1>1, RequestKinds DEF Knows, RequestIsThePages
<1>3. Knows(p, save[m], fresh[m], assigned, operator')
  BY <1>1, <1>2 DEF Knows
<1> QED BY <1>3, OwnStep, OwnState

LEMMA ReadListsStep == ASSUME AssignmentsInv, NEW m \in Managers, ReadLists(m) PROVE AssignmentsInv'
<1> DEFINE p == [screen[m] EXCEPT !.pc = "reading", !.found = [row |-> operator, sites |-> active]]
<1>1. /\ p \in Screen /\ p.pc = "reading" /\ p.lists = screen[m].lists
      /\ p.shown = screen[m].shown /\ p.found.row = operator
  BY OwnState DEF Screen, Lists
<1>2. /\ screen' = [screen EXCEPT ![m] = p] /\ screen[m].pc = "loading"
      /\ UNCHANGED <<operator, active, assigned, save, fresh>>
  BY DEF ReadLists, Turn
<1> HIDE DEF p
<1>3. PageKnows(p, fresh[m], assigned, operator')
  BY <1>1, <1>2, OwnState DEF Knows, PageKnows
<1> QED BY <1>1, <1>2, <1>3, TurnStep, OwnState

LEMMA ReadAssignedStep == ASSUME AssignmentsInv, NEW m \in Managers, ReadAssigned(m) PROVE AssignmentsInv'
<1> DEFINE q == screen[m]
           p == [q EXCEPT !.pc = "idle", !.lists = q.found, !.found = NotFound,
                          !.shown = IF q.found.row THEN Listed.shown ELSE {},
                          !.usable = IF q.found.row THEN Listed.usable ELSE {}]
<1>1. /\ p \in Screen /\ p.pc = "idle" /\ p.lists = q.found /\ ~p.found.row
      /\ q.found.row => p.shown = assigned
  BY OwnState DEF Screen, Lists, NotFound, Listed
<1>2. /\ screen' = [screen EXCEPT ![m] = p] /\ q.pc = "reading"
      /\ UNCHANGED <<operator, active, assigned, save>> /\ fresh' = [fresh EXCEPT ![m] = {}]
  BY DEF ReadAssigned, Turn
<1> HIDE DEF p
<1>3. save[m] = NoSave
  BY <1>2, OwnState DEF Knows, RequestIsThePages
<1>4. PageKnows(p, {}, assigned, operator')
  BY <1>1, <1>2, OwnState DEF Knows, PageKnows
<1>5. Knows(p, save[m], {}, assigned, operator')
  BY <1>3, <1>4, RequestKinds DEF Knows, RequestIsThePages, DeletionIsDecided, InsertionIsDecided, AnswerIsRight
<1>6. save' = [save EXCEPT ![m] = save[m]] /\ save[m] \in Requests /\ {} \in SUBSET Sites
  BY <1>2, OwnState
<1>7. operator' \in BOOLEAN /\ (operator => operator')
  BY <1>2, OwnState
<1> QED BY <1>1, <1>2, <1>5, <1>6, <1>7, OwnStep

LEMMA ReloadFailsStep == ASSUME AssignmentsInv, NEW m \in Managers, ReloadFails(m) PROVE AssignmentsInv'
<1> DEFINE p == [screen[m] EXCEPT !.pc = "idle", !.found = NotFound]
<1>1. /\ p \in Screen /\ p.pc = "idle" /\ p.lists = screen[m].lists
      /\ p.shown = screen[m].shown /\ ~p.found.row
  BY OwnState DEF Screen, Lists, NotFound
<1>2. /\ screen' = [screen EXCEPT ![m] = p] /\ screen[m].pc \in {"loading", "reading"}
      /\ UNCHANGED <<operator, active, assigned, save, fresh>>
  BY DEF ReloadFails, Turn
<1> HIDE DEF p
<1>3. PageKnows(p, fresh[m], assigned, operator')
  BY <1>1, <1>2, OwnState DEF Knows, PageKnows
<1> QED BY <1>1, <1>2, <1>3, TurnStep, OwnState

LEMMA OpenPageStep == ASSUME AssignmentsInv, NEW m \in Managers, OpenPage(m) PROVE AssignmentsInv'
<1> DEFINE p == [screen[m] EXCEPT !.pc = "loading", !.lists = NotFound, !.shown = {}, !.usable = {}]
<1>1. /\ p \in Screen /\ p.pc = "loading" /\ ~p.lists.row /\ p.found = screen[m].found
  BY OwnState DEF Screen, Lists, NotFound
<1>2. /\ screen' = [screen EXCEPT ![m] = p] /\ screen[m].pc = "idle"
      /\ UNCHANGED <<operator, active, assigned, save, fresh>>
  BY DEF OpenPage, Turn
<1> HIDE DEF p
<1>3. PageKnows(p, fresh[m], assigned, operator')
  BY <1>1, <1>2, OwnState DEF Knows, PageKnows
<1> QED BY <1>1, <1>2, <1>3, TurnStep, OwnState

\* The steps that change no more of a page than its state and its boxes.
LEMMA PlainTurn ==
  ASSUME AssignmentsInv, NEW m \in Managers, NEW pc \in {"loading", "idle", "acting", "editing", "saving"},
         NEW boxes \in SUBSET Sites,
         screen' = [screen EXCEPT ![m] = [screen[m] EXCEPT !.pc = pc, !.ticked = boxes]],
         UNCHANGED <<active, assigned, save, fresh>>, operator' \in BOOLEAN, operator => operator',
         pc = "saving" <=> screen[m].pc = "saving",
         pc = "editing" => screen[m].lists.row
  PROVE  AssignmentsInv'
<1> DEFINE p == [screen[m] EXCEPT !.pc = pc, !.ticked = boxes]
<1>1. /\ p \in Screen /\ p.pc = pc /\ p.lists = screen[m].lists /\ p.found = screen[m].found
      /\ p.shown = screen[m].shown
  BY OwnState DEF Screen
<1> HIDE DEF p
<1>2. PageKnows(p, fresh[m], assigned, operator')
  BY <1>1, OwnState DEF Knows, PageKnows
<1> QED BY <1>1, <1>2, TurnStep DEF p

\* The state alone.
LEMMA PlainState ==
  ASSUME AssignmentsInv, NEW m \in Managers, NEW pc
  PROVE  /\ screen[m].ticked \in SUBSET Sites
         /\ [screen[m] EXCEPT !.pc = pc] = [screen[m] EXCEPT !.pc = pc, !.ticked = screen[m].ticked]
BY OwnState DEF Screen

LEMMA AskChangeStep == ASSUME AssignmentsInv, NEW m \in Managers, AskChange(m) PROVE AssignmentsInv'
<1>1. screen' = [screen EXCEPT ![m] = [screen[m] EXCEPT !.pc = "acting", !.ticked = screen[m].ticked]]
  BY PlainState DEF AskChange, Turn
<1> QED BY <1>1, PlainTurn, PlainState, OwnState DEF AskChange, Turn

LEMMA AnsweredStep ==
  ASSUME AssignmentsInv, NEW m \in Managers, NEW done \in BOOLEAN, Answered(m, done),
         operator' \in BOOLEAN, operator => operator'
  PROVE  AssignmentsInv'
<1> DEFINE pc == IF done THEN "loading" ELSE "idle"
<1>1. screen' = [screen EXCEPT ![m] = [screen[m] EXCEPT !.pc = pc, !.ticked = screen[m].ticked]]
  BY PlainState DEF Answered, Turn
<1>2. pc \in {"loading", "idle"}
  OBVIOUS
<1>3. screen[m].pc = "acting" /\ screen[m].ticked \in SUBSET Sites /\ UNCHANGED <<active, assigned, save, fresh>>
  BY PlainState DEF Answered, Turn
<1> HIDE DEF pc
<1> QED BY <1>1, <1>2, <1>3, PlainTurn

LEMMA OpenEditorStep == ASSUME AssignmentsInv, NEW m \in Managers, OpenEditor(m) PROVE AssignmentsInv'
<1>1. screen[m].usable \in SUBSET Sites
  BY OwnState DEF Screen
<1> QED BY <1>1, PlainTurn, OwnState DEF OpenEditor, Turn

LEMMA ToggleStep == ASSUME AssignmentsInv, NEW m \in Managers, ToggleLocation(m) PROVE AssignmentsInv'
<1>1. PICK boxes \in SUBSET Sites :
        screen' = [screen EXCEPT ![m] = [screen[m] EXCEPT !.ticked = boxes]]
  <2>1. PICK l \in screen[m].lists.sites :
          screen' = [screen EXCEPT ![m] =
            [screen[m] EXCEPT !.ticked = IF l \in screen[m].ticked THEN screen[m].ticked \ {l}
                                         ELSE screen[m].ticked \cup {l}]]
    BY DEF ToggleLocation, Turn
  <2>2. l \in Sites /\ screen[m].ticked \in SUBSET Sites
    BY OwnState DEF Screen, Lists
  <2> QED BY <2>1, <2>2
<1>2. [screen[m] EXCEPT !.ticked = boxes] = [screen[m] EXCEPT !.pc = screen[m].pc, !.ticked = boxes]
  BY OwnState DEF Screen
<1>3. screen[m].pc \in {"editing", "saving"} /\ UNCHANGED <<operator, active, assigned, save, fresh>>
  BY DEF ToggleLocation, Turn
<1>4. screen[m].lists.row
  BY <1>3, OwnState DEF Knows, PageKnows
<1> QED BY <1>1, <1>2, <1>3, <1>4, PlainTurn, OwnState

LEMMA CloseEditorStep == ASSUME AssignmentsInv, NEW m \in Managers, CloseEditor(m) PROVE AssignmentsInv'
<1>1. {} \in SUBSET Sites
  OBVIOUS
<1> QED BY <1>1, PlainTurn, OwnState DEF CloseEditor, Turn

LEMMA SendSaveStep == ASSUME AssignmentsInv, NEW m \in Managers, SendSave(m) PROVE AssignmentsInv'
<1> DEFINE p == [screen[m] EXCEPT !.pc = "saving"]
           v == [pc |-> "sent", asked |-> screen[m].ticked, doomed |-> {}, added |-> {},
                 confirmed |-> ToConfirm(screen[m]), gained |-> {}, lost |-> {}]
<1>1. /\ p \in Screen /\ p.pc = "saving" /\ p.lists = screen[m].lists
      /\ p.shown = screen[m].shown /\ p.found = screen[m].found
  BY OwnState DEF Screen
<1>2. /\ v \in Save /\ v.pc = "sent" /\ v.gained = {}
      /\ screen[m].shown \ v.asked \subseteq v.confirmed
  BY OwnState DEF Screen, Save, ToConfirm
<1>3. /\ screen' = [screen EXCEPT ![m] = p] /\ save' = [save EXCEPT ![m] = v]
      /\ UNCHANGED <<operator, active, assigned, fresh>> /\ screen[m].pc = "editing"
  BY DEF SendSave, Turn
<1> HIDE DEF p, v
<1>4. Knows(p, v, fresh[m], assigned, operator')
  BY <1>1, <1>2, <1>3, OwnState DEF Knows, PageKnows, RequestIsThePages, DeletionIsDecided,
     InsertionIsDecided, AnswerIsRight
<1> QED BY <1>1, <1>2, <1>3, <1>4, OwnStep, OwnState DEF Requests

LEMMA ReceiveSavedStep == ASSUME AssignmentsInv, NEW m \in Managers, ReceiveSaved(m) PROVE AssignmentsInv'
<1> DEFINE asked == save[m].asked
           p == [screen[m] EXCEPT !.pc = "idle", !.ticked = {}, !.shown = asked, !.usable = asked]
<1>0. save[m] \in Save /\ asked \in SUBSET Sites
  BY OwnState, RequestKinds DEF ReceiveSaved, Requests, Save
<1>1. /\ p \in Screen /\ p.pc = "idle" /\ p.lists = screen[m].lists
      /\ p.shown = asked /\ p.found = screen[m].found
  BY <1>0, OwnState DEF Screen
<1>2. /\ screen' = [screen EXCEPT ![m] = p] /\ save' = [save EXCEPT ![m] = NoSave]
      /\ fresh' = [fresh EXCEPT ![m] = fresh[m] \ asked]
      /\ UNCHANGED <<operator, active, assigned>> /\ save[m].pc = "committed"
  BY DEF ReceiveSaved, Turn
<1>3. assigned \subseteq asked \cup fresh[m]
  BY <1>2, OwnState DEF Knows, AnswerIsRight
<1> HIDE DEF p, asked
<1>4. Knows(p, NoSave, fresh[m] \ asked, assigned, operator')
  BY <1>1, <1>2, <1>3, OwnState, RequestKinds DEF Knows, PageKnows, RequestIsThePages,
     DeletionIsDecided, InsertionIsDecided, AnswerIsRight
<1>5. fresh[m] \ asked \in SUBSET Sites /\ NoSave \in Requests
  BY OwnState DEF Requests
<1>6. operator' \in BOOLEAN /\ (operator => operator')
  BY <1>2, OwnState
<1> QED BY <1>1, <1>2, <1>4, <1>5, <1>6, OwnStep

LEMMA ReceiveErrorStep == ASSUME AssignmentsInv, NEW m \in Managers, ReceiveError(m) PROVE AssignmentsInv'
<1> DEFINE p == [screen[m] EXCEPT !.pc = "editing"]
<1>1. /\ p \in Screen /\ p.pc = "editing" /\ p.lists = screen[m].lists
      /\ p.shown = screen[m].shown /\ p.found = screen[m].found
  BY OwnState DEF Screen
<1>2. /\ screen' = [screen EXCEPT ![m] = p] /\ save' = [save EXCEPT ![m] = NoSave]
      /\ UNCHANGED <<operator, active, assigned, fresh>> /\ save[m].pc \in {"refused", "committed"}
  BY DEF ReceiveError, Turn
<1>3. screen[m].lists.row
  BY <1>2, OwnState, RequestKinds DEF Knows, PageKnows, RequestIsThePages
<1> HIDE DEF p
<1>4. Knows(p, NoSave, fresh[m], assigned, operator')
  BY <1>1, <1>2, <1>3, OwnState, RequestKinds DEF Knows, PageKnows, RequestIsThePages,
     DeletionIsDecided, InsertionIsDecided, AnswerIsRight
<1> QED BY <1>1, <1>2, <1>4, OwnStep, OwnState DEF Requests

-----------------------------------------------------------------------------
\* A statement of a request that goes on, or is refused.
LEMMA StatementStep ==
  ASSUME AssignmentsInv, NEW m \in Managers, NEW v \in Requests, Statement(m, v), save[m] \in Save,
         RequestIsThePages(screen[m], v, fresh[m]), DeletionIsDecided(v, fresh[m], assigned),
         InsertionIsDecided(v, assigned), v.pc # "committed"
  PROVE  AssignmentsInv'
<1>1. Knows(screen[m], v, fresh[m], assigned, operator')
  BY OwnState DEF Knows, Statement, AnswerIsRight
<1> QED BY <1>1, OwnStep, OwnState DEF Statement

\* What is known of a request that is not done.
LEMMA UnderWay ==
  ASSUME AssignmentsInv, NEW m \in Managers,
         save[m].pc \in {"sent", "checked", "deleting", "deleted", "inserted"}
  PROVE  /\ save[m] \in Save
         /\ screen[m].pc = "saving" /\ save[m].gained \subseteq fresh[m]
         /\ screen[m].shown \ save[m].asked \subseteq save[m].confirmed
         /\ assigned \subseteq screen[m].shown \cup fresh[m]
<1>1. save[m] \in Save /\ save[m] # NoSave
  BY OwnState, RequestKinds DEF Requests
<1> QED BY <1>1, OwnState DEF Knows, PageKnows, RequestIsThePages

LEMMA RefusedStep ==
  ASSUME AssignmentsInv, NEW m \in Managers, Statement(m, Refused),
         save[m].pc \in {"sent", "checked", "deleting", "deleted", "inserted"}
  PROVE  AssignmentsInv'
<1>1. RequestIsThePages(screen[m], Refused, fresh[m])
  BY UnderWay, RequestKinds DEF RequestIsThePages
<1>2. /\ DeletionIsDecided(Refused, fresh[m], assigned) /\ InsertionIsDecided(Refused, assigned)
      /\ Refused.pc # "committed"
  BY RequestKinds DEF DeletionIsDecided, InsertionIsDecided
<1> QED BY <1>1, <1>2, StatementStep, UnderWay DEF Requests

LEMMA CheckStep == ASSUME AssignmentsInv, NEW m \in Managers, CheckAssignable(m) PROVE AssignmentsInv'
<1>1. CASE Statement(m, Refused)
  BY <1>1, RefusedStep DEF CheckAssignable
<1>2. CASE Statement(m, [save[m] EXCEPT !.pc = "checked"])
  <2> DEFINE v == [save[m] EXCEPT !.pc = "checked"]
  <2>1. /\ v \in Save /\ v.pc = "checked" /\ v.gained = save[m].gained
        /\ v.asked = save[m].asked /\ v.confirmed = save[m].confirmed
    BY UnderWay DEF CheckAssignable, Save
  <2>2. Statement(m, v)
    BY <1>2
  <2> HIDE DEF v
  <2>3. RequestIsThePages(screen[m], v, fresh[m])
    BY <2>1, UnderWay DEF CheckAssignable, RequestIsThePages
  <2> QED BY <2>1, <2>2, <2>3, StatementStep, UnderWay
          DEF CheckAssignable, Requests, DeletionIsDecided, InsertionIsDecided
<1> QED BY <1>1, <1>2 DEF CheckAssignable

LEMMA BeginDeleteStep == ASSUME AssignmentsInv, NEW m \in Managers, BeginDelete(m) PROVE AssignmentsInv'
<1> DEFINE v == [save[m] EXCEPT !.pc = "deleting", !.doomed = Surplus(save[m].asked)]
<1>1. /\ v \in Save /\ v.pc = "deleting" /\ v.gained = save[m].gained
      /\ v.asked = save[m].asked /\ v.confirmed = save[m].confirmed /\ v.doomed = assigned \ save[m].asked
  BY UnderWay, OwnState DEF BeginDelete, Save, Surplus
<1>2. Statement(m, v) /\ save[m].pc = "checked"
  BY DEF BeginDelete
<1> HIDE DEF v
<1>3. RequestIsThePages(screen[m], v, fresh[m])
  BY <1>1, <1>2, UnderWay DEF RequestIsThePages
<1>4. DeletionIsDecided(v, fresh[m], assigned)
  BY <1>1, <1>2, UnderWay DEF DeletionIsDecided
<1> QED BY <1>1, <1>2, <1>3, <1>4, StatementStep, UnderWay DEF Requests, InsertionIsDecided

LEMMA EndDeleteStep == ASSUME AssignmentsInv, NEW m \in Managers, EndDelete(m) PROVE AssignmentsInv'
<1> DEFINE v == [save[m] EXCEPT !.pc = "deleted", !.doomed = save[m].doomed \cap assigned]
<1>1. /\ v \in Save /\ v.pc = "deleted" /\ v.gained = save[m].gained
      /\ v.asked = save[m].asked /\ v.confirmed = save[m].confirmed
      /\ v.doomed = save[m].doomed \cap assigned
  BY UnderWay, OwnState DEF EndDelete, Save
<1>2. Statement(m, v) /\ save[m].pc = "deleting"
  BY DEF EndDelete
<1> HIDE DEF v
<1>3. RequestIsThePages(screen[m], v, fresh[m])
  BY <1>1, <1>2, UnderWay DEF RequestIsThePages
<1>4. DeletionIsDecided(v, fresh[m], assigned)
  BY <1>1, <1>2, OwnState DEF Knows, DeletionIsDecided
<1> QED BY <1>1, <1>2, <1>3, <1>4, StatementStep, UnderWay DEF Requests, InsertionIsDecided

LEMMA InsertStep == ASSUME AssignmentsInv, NEW m \in Managers, InsertMissing(m) PROVE AssignmentsInv'
<1> DEFINE v == [save[m] EXCEPT !.pc = "inserted", !.added = save[m].asked \ assigned]
<1>1. /\ v \in Save /\ v.pc = "inserted" /\ v.gained = save[m].gained
      /\ v.asked = save[m].asked /\ v.confirmed = save[m].confirmed
      /\ v.doomed = save[m].doomed /\ v.added = save[m].asked \ assigned
  BY UnderWay, OwnState DEF InsertMissing, Save
<1>2. Statement(m, v) /\ save[m].pc = "deleted"
  BY DEF InsertMissing
<1> HIDE DEF v
<1>3. RequestIsThePages(screen[m], v, fresh[m])
  BY <1>1, <1>2, UnderWay DEF RequestIsThePages
<1>4. DeletionIsDecided(v, fresh[m], assigned)
  BY <1>1, <1>2, OwnState DEF Knows, DeletionIsDecided
<1>5. InsertionIsDecided(v, assigned)
  BY <1>1 DEF InsertionIsDecided
<1> QED BY <1>1, <1>2, <1>3, <1>4, <1>5, StatementStep, UnderWay DEF Requests

LEMMA SaveFailsStep == ASSUME AssignmentsInv, NEW m \in Managers, SaveFails(m) PROVE AssignmentsInv'
BY RefusedStep DEF SaveFails

-----------------------------------------------------------------------------
\* What another manager knows when the rows become others.
LEMMA OtherKnows ==
  ASSUME AssignmentsInv, NEW n \in Managers, NEW rows \in SUBSET Sites
  PROVE  /\ Witnessed(n, rows) \in Requests
         /\ Knows(screen[n], Witnessed(n, rows), fresh[n] \cup (rows \ assigned), rows, operator)
<1> DEFINE f == fresh[n] \cup (rows \ assigned)
           v == Witnessed(n, rows)
           w == save[n]
<1>1. Knows(screen[n], w, fresh[n], assigned, operator)
  BY OwnState
<1>2. PageKnows(screen[n], f, rows, operator)
  BY <1>1 DEF Knows, PageKnows
<1>3. CASE Open(n)
  <2>0. w.pc \in {"deleting", "deleted", "inserted"} /\ w \in Save
    BY <1>3, UnderWay DEF Open
  <2>1. /\ v \in Save /\ v.pc = w.pc /\ v.asked = w.asked /\ v.doomed = w.doomed /\ v.added = w.added
        /\ v.confirmed = w.confirmed /\ v.gained = w.gained \cup (rows \ assigned)
        /\ v.lost = w.lost \cup (assigned \ rows)
    BY <1>3, <2>0, OwnState DEF Witnessed, Save
  <2> HIDE DEF v, w
  <2>2. RequestIsThePages(screen[n], v, f)
    BY <1>1, <2>0, <2>1, RequestKinds DEF Knows, RequestIsThePages
  <2>3. DeletionIsDecided(v, f, rows)
    BY <1>1, <2>0, <2>1 DEF Knows, DeletionIsDecided
  <2>4. InsertionIsDecided(v, rows)
    BY <1>1, <2>0, <2>1 DEF Knows, InsertionIsDecided
  <2>5. AnswerIsRight(v, f, rows)
    BY <2>0, <2>1 DEF AnswerIsRight
  <2> QED BY <1>2, <2>1, <2>2, <2>3, <2>4, <2>5 DEF Knows, v, Requests
<1>4. CASE ~Open(n)
  <2>1. v = w /\ w \in Requests /\ w.pc \notin {"deleting", "deleted", "inserted"}
    BY <1>4, OwnState DEF Witnessed, Open
  <2> HIDE DEF v, w
  <2>2. RequestIsThePages(screen[n], v, f)
    BY <1>1, <2>1 DEF Knows, RequestIsThePages
  <2>3. DeletionIsDecided(v, f, rows) /\ InsertionIsDecided(v, rows)
    BY <2>1 DEF DeletionIsDecided, InsertionIsDecided
  <2>4. AnswerIsRight(v, f, rows)
    BY <1>1, <2>1 DEF Knows, AnswerIsRight
  <2> QED BY <1>2, <2>1, <2>2, <2>3, <2>4 DEF Knows, v
<1> QED BY <1>3, <1>4

\* What a save leaves, relative to what others did meanwhile.
LEMMA Left ==
  ASSUME AssignmentsInv, NEW m \in Managers, CommitSave(m)
  PROVE  /\ save[m] \in Save /\ assigned' \in SUBSET Sites
         /\ assigned' = (assigned \ save[m].doomed) \cup save[m].added
         /\ assigned' \ save[m].asked \subseteq save[m].gained
         /\ save[m].asked \ assigned' \subseteq save[m].lost
         /\ save[m].gained \subseteq fresh[m]
         /\ save[m].doomed \subseteq save[m].confirmed \cup fresh[m]
<1>1. save[m].pc = "inserted" /\ assigned' = (assigned \ save[m].doomed) \cup save[m].added
  BY DEF CommitSave, Become
<1>2. save[m] \in Save /\ save[m].gained \subseteq fresh[m]
  BY <1>1, UnderWay
<1>3. save[m].added \in SUBSET Sites /\ assigned \in SUBSET Sites
  BY <1>2, OwnState DEF Save
<1>4. DeletionIsDecided(save[m], fresh[m], assigned) /\ InsertionIsDecided(save[m], assigned)
  BY OwnState DEF Knows
<1> QED BY <1>1, <1>2, <1>3, <1>4 DEF DeletionIsDecided, InsertionIsDecided

LEMMA CommitStep == ASSUME AssignmentsInv, NEW m \in Managers, CommitSave(m) PROVE AssignmentsInv'
<1> DEFINE rows == assigned'
           v == [save[m] EXCEPT !.pc = "committed"]
<1>1. /\ save' = [n \in Managers |-> IF n = m THEN v ELSE Witnessed(n, rows)]
      /\ fresh' = [n \in Managers |-> fresh[n] \cup (rows \ assigned)]
      /\ UNCHANGED <<operator, active, screen>> /\ save[m].pc = "inserted"
  BY DEF CommitSave, Become
<1>2. /\ v \in Save /\ v.pc = "committed" /\ v.asked = save[m].asked /\ v.gained = save[m].gained
  BY Left DEF Save
<1>3. operator
  <2>1. screen[m].pc = "saving"
    BY <1>1, UnderWay
  <2> QED BY <2>1, OwnState DEF Knows, PageKnows
<1>4. rows \in SUBSET Sites
  BY Left
<1> HIDE DEF v
<1>5. AssignmentsTypeOK'
  <2>1. save' \in [Managers -> Requests]
    BY <1>1, <1>2, <1>4, OtherKnows DEF Requests
  <2>2. fresh' \in [Managers -> SUBSET Sites]
    BY <1>1, <1>4, OwnState
  <2> QED BY <1>1, <1>3, <1>4, <2>1, <2>2 DEF AssignmentsInv, AssignmentsTypeOK, Requests
<1>6. ASSUME NEW n \in Managers
      PROVE  Knows(screen'[n], save'[n], fresh'[n], assigned', operator')
  <2>1. CASE n # m
    BY <2>1, <1>1, <1>4, OtherKnows
  <2>2. CASE n = m
    <3>1. /\ save'[n] = v /\ fresh'[n] = fresh[m] \cup (rows \ assigned)
          /\ screen'[n] = screen[m] /\ operator' = operator
      BY <2>2, <1>1
    <3>2. PageKnows(screen[m], fresh'[n], rows, operator)
      BY <3>1, OwnState DEF Knows, PageKnows
    <3>3. RequestIsThePages(screen[m], v, fresh'[n])
      BY <3>1, <1>1, <1>2, Left, UnderWay DEF RequestIsThePages
    <3>4. AnswerIsRight(v, fresh'[n], rows)
      BY <3>1, <1>2, Left DEF AnswerIsRight
    <3>5. DeletionIsDecided(v, fresh'[n], rows) /\ InsertionIsDecided(v, rows)
      BY <1>2 DEF DeletionIsDecided, InsertionIsDecided
    <3> QED BY <3>1, <3>2, <3>3, <3>4, <3>5 DEF Knows
  <2> QED BY <2>1, <2>2
<1>7. \A n \in Managers : Knows(screen[n], save[n], fresh[n], assigned, operator)'
  BY <1>6
<1> QED BY <1>5, <1>7 DEF AssignmentsInv

LEMMA RevokeStep == ASSUME AssignmentsInv, NEW l \in Sites, RevokeOne(l) PROVE AssignmentsInv'
<1> DEFINE rows == assigned \ {l}
<1>1. /\ assigned' = rows /\ rows \in SUBSET Sites /\ (rows # {} => operator)
      /\ save' = [n \in Managers |-> Witnessed(n, rows)]
      /\ fresh' = [n \in Managers |-> fresh[n] \cup (rows \ assigned)]
      /\ UNCHANGED <<operator, active, screen>>
  BY DEF RevokeOne, Become, AssignmentsInv, AssignmentsTypeOK
<1> HIDE DEF rows
<1>2. AssignmentsTypeOK'
  <2>1. save' \in [Managers -> Requests]
    BY <1>1, OtherKnows
  <2>2. fresh' \in [Managers -> SUBSET Sites]
    BY <1>1, OwnState
  <2> QED BY <1>1, <2>1, <2>2 DEF AssignmentsInv, AssignmentsTypeOK, Requests
<1>3. \A n \in Managers : Knows(screen'[n], save'[n], fresh'[n], assigned', operator')
  BY <1>1, OtherKnows
<1>4. \A n \in Managers : Knows(screen[n], save[n], fresh[n], assigned, operator)'
  BY <1>3
<1> QED BY <1>2, <1>4 DEF AssignmentsInv

LEMMA ChangeSiteStep == ASSUME AssignmentsInv, NEW l \in Sites, ChangeSite(l) PROVE AssignmentsInv'
<1>1. active' \subseteq Sites /\ UNCHANGED <<operator, assigned, screen, save, fresh>>
  BY DEF ChangeSite, AssignmentsInv, AssignmentsTypeOK
<1>2. AssignmentsTypeOK'
  BY <1>1 DEF AssignmentsInv, AssignmentsTypeOK
<1>3. \A n \in Managers : Knows(screen[n], save[n], fresh[n], assigned, operator)'
  BY <1>1 DEF AssignmentsInv
<1> QED BY <1>2, <1>3 DEF AssignmentsInv

LEMMA CreateStep == ASSUME AssignmentsInv, NEW m \in Managers, CreateOperator(m) PROVE AssignmentsInv'
BY AnsweredStep DEF CreateOperator

LEMMA ManageStep == ASSUME AssignmentsInv, NEW m \in Managers, ManageOperators(m) PROVE AssignmentsInv'
BY AnsweredStep, OwnState DEF ManageOperators

LEMMA AssignmentsStep == AssignmentsInv /\ [NextAssignments]_assignmentVars => AssignmentsInv'
<1> SUFFICES ASSUME AssignmentsInv, [NextAssignments]_assignmentVars PROVE AssignmentsInv'
  OBVIOUS
<1>1. CASE UNCHANGED assignmentVars
  <2>1. AssignmentsTypeOK'
    BY <1>1 DEF assignmentVars, AssignmentsInv, AssignmentsTypeOK
  <2>2. \A n \in Managers : Knows(screen[n], save[n], fresh[n], assigned, operator)'
    BY <1>1 DEF assignmentVars, AssignmentsInv
  <2> QED BY <2>1, <2>2 DEF AssignmentsInv
<1>2. ASSUME NEW m \in Managers,
             \/ ReadLists(m) \/ ReadAssigned(m) \/ ReloadFails(m) \/ OpenPage(m) \/ AskChange(m)
             \/ CreateOperator(m) \/ ManageOperators(m)
             \/ OpenEditor(m) \/ ToggleLocation(m) \/ CloseEditor(m) \/ SendSave(m)
             \/ ReceiveSaved(m) \/ ReceiveError(m)
      PROVE  AssignmentsInv'
  BY <1>2, ReadListsStep, ReadAssignedStep, ReloadFailsStep, OpenPageStep, AskChangeStep,
     CreateStep, ManageStep, OpenEditorStep, ToggleStep, CloseEditorStep, SendSaveStep,
     ReceiveSavedStep, ReceiveErrorStep
<1>3. ASSUME NEW m \in Managers,
             \/ CheckAssignable(m) \/ BeginDelete(m) \/ EndDelete(m) \/ InsertMissing(m)
             \/ SaveFails(m) \/ CommitSave(m)
      PROVE  AssignmentsInv'
  BY <1>3, CheckStep, BeginDeleteStep, EndDeleteStep, InsertStep, SaveFailsStep, CommitStep
<1>4. ASSUME NEW l \in Sites, RevokeOne(l) \/ ChangeSite(l)
      PROVE  AssignmentsInv'
  BY <1>4, RevokeStep, ChangeSiteStep
<1> QED BY <1>1, <1>2, <1>3, <1>4 DEF NextAssignments

LEMMA AssignmentsSafe == AssignmentsSpec => []AssignmentsInv
BY AssignmentsStart, AssignmentsStep, PTL DEF AssignmentsSpec

\* The rows, the pages and the requests keep their types.
THEOREM AssignmentsTypes == AssignmentsSpec => []AssignmentsTypeOK
<1>1. AssignmentsInv => AssignmentsTypeOK
  BY DEF AssignmentsInv
<1> QED BY <1>1, AssignmentsSafe, PTL

\* Whatever the managers' pages showed, and however the statements of any number of
\* saves interleave, setLocationAssignments leaves the set it was asked for, but for
\* what others granted and revoked meanwhile.
THEOREM Replaces == AssignmentsSpec => SaveReplaces
<1>1. AssignmentsInv /\ [NextAssignments]_assignmentVars =>
        [\A m \in Managers : CommitSave(m) =>
           /\ assigned' \ save[m].asked \subseteq save[m].gained
           /\ save[m].asked \ assigned' \subseteq save[m].lost]_assignmentVars
  BY Left
<1> QED BY <1>1, AssignmentsSafe, PTL DEF AssignmentsSpec, SaveReplaces

\* What setLocationAssignments revokes, the page's confirmation has named, or it was
\* granted after the page was told.
THEOREM RevokedWasConfirmed == AssignmentsSpec => RevokedIsConfirmed
<1>1. AssignmentsInv /\ [NextAssignments]_assignmentVars =>
        [\A m \in Managers : CommitSave(m) =>
           save[m].doomed \subseteq save[m].confirmed \cup fresh[m]]_assignmentVars
  BY Left
<1> QED BY <1>1, AssignmentsSafe, PTL DEF AssignmentsSpec, RevokedIsConfirmed

-----------------------------------------------------------------------------
(***************************************************************************)
(* Workspace. The parts of its state, and how a handler rewrites them.     *)
(***************************************************************************)

\* The page, with a number that is one of its cursors.
PageOK(p) == p \in Page /\ p.at \in 1..Len(p.cursors)

LEMMA PageTypes ==
  ASSUME NEW p, PageOK(p)
  PROVE  /\ p.in \in BOOLEAN /\ p.location \in Places /\ p.filter \in Filters
         /\ p.cursors \in Seq(Cursors) /\ p.at \in Nat /\ p.rows \in Rows /\ p.of \in Query
         /\ p.next \in Cursors /\ p.loading \in BOOLEAN /\ p.failed \in BOOLEAN
         /\ p.polls \in 0..MaxPolls /\ p.crossed \in BOOLEAN /\ p.stranded \in BOOLEAN
         /\ ViewOf(p) \in Query
<1>1. p \in Page
  BY DEF PageOK
<1>2. p.cursors \in Seq(Cursors) /\ p.location \in Places /\ p.filter \in Filters
  BY <1>1 DEF Page
<1>3. p.cursors[p.at] \in Cursors
  BY <1>2 DEF PageOK
<1>4. ViewOf(p) \in Query
  BY <1>2, <1>3 DEF ViewOf, Query
<1> QED BY <1>1, <1>4 DEF Page

LEMMA NoRowsIsRows == NoRows \in Rows /\ DOMAIN NoRows = {}
<1>1. DOMAIN NoRows = {}
  BY DEF NoRows
<1>2. NoRows \in [{} -> Statuses]
  BY DEF NoRows, Statuses
<1> QED BY <1>1, <1>2 DEF Rows

LEMMA CursorZero == 0 \in Cursors /\ 0 \in 0..MaxPolls
BY ConstantsAssumption DEF Cursors

\* A page emptied for another view keeps the view.
LEMMA EmptiedPage ==
  ASSUME NEW p, PageOK(p)
  PROVE  LET q == Emptied(p) IN
         /\ PageOK(q) /\ ViewOf(q) = ViewOf(p)
         /\ q.in = p.in /\ q.location = p.location /\ q.rows = NoRows /\ q.of = ViewOf(p)
         /\ q.loading = p.loading /\ q.crossed = FALSE /\ q.stranded = FALSE /\ q.filter = p.filter
<1>1. ViewOf(p) \in Query
  BY PageTypes
<1> DEFINE v == ViewOf(p)
<1> HIDE DEF v
<1> DEFINE q == [p EXCEPT !.rows = NoRows, !.of = v, !.next = 0, !.failed = FALSE,
                          !.polls = 0, !.crossed = FALSE, !.stranded = FALSE]
<1>2. /\ q \in Page
      /\ q.in = p.in /\ q.location = p.location /\ q.rows = NoRows /\ q.of = v
      /\ q.loading = p.loading /\ q.crossed = FALSE /\ q.stranded = FALSE /\ q.filter = p.filter
      /\ q.at = p.at /\ q.cursors = p.cursors
  BY <1>1, NoRowsIsRows, CursorZero DEF PageOK, Page, v
<1>3. q = Emptied(p)
  BY DEF Emptied, v
<1> HIDE DEF q
<1>4. PageOK(q) /\ ViewOf(q) = ViewOf(p)
  BY <1>2 DEF PageOK, ViewOf
<1> QED BY <1>2, <1>3, <1>4 DEF v
-----------------------------------------------------------------------------
(***************************************************************************)
(* What relates the page, its calls and the server. A row that is shown    *)
(* settled, or answered so, is settled on the server; of the calls one at  *)
(* most is looked at, and until a load for another view was made it is for *)
(* the one selected; a served answer has settled all that is shown         *)
(* settled: what is shown is older, or a cancellation that superseded the  *)
(* call.                                                                   *)
(***************************************************************************)
RowsTrue(rows, all) ==
  \A i \in DOMAIN rows : /\ i \in 1..Len(all)
                         /\ rows[i] = "settled" => all[i].status = "settled"

Settles(r, s) == \A i \in DOMAIN r \cap DOMAIN s : r[i] = "settled" => s[i] = "settled"

\* Of the calls one at most is looked at.
OneLatest == \A c, d \in calls : c.latest /\ d.latest => c = d
CallsSelected == \A c \in calls : page.in /\ ~page.crossed /\ c.latest => c.query = View
PageSelected == page.in => page.crossed \/ page.of = View
CallsTrue == \A c \in calls : RowsTrue(c.rows, scans)
AnswersSettled == \A c \in calls : c.latest /\ c.served => Settles(page.rows, c.rows)

RecordsInv ==
  /\ PageOK(page) /\ calls \subseteq Call
  /\ OneLatest /\ CallsSelected /\ PageSelected /\ WaitingIsAnswered
  /\ RowsTrue(page.rows, scans) /\ CallsTrue /\ AnswersSettled

ScansOK == scans \in Seq(Scan) /\ Len(scans) <= MaxScans

LEMMA NoRowsAreTrue == \A all : RowsTrue(NoRows, all)
BY NoRowsIsRows DEF RowsTrue

LEMMA NoRowsSettle == \A r : Settles(r, NoRows) /\ Settles(NoRows, r)
BY NoRowsIsRows DEF Settles

\* No superseded call is waited for.
LEMMA SupersededCalls ==
  ASSUME calls \subseteq Call
  PROVE  /\ Superseded \subseteq Call
         /\ \A c \in Superseded : ~c.latest /\ c.rows = NoRows
BY NoRowsIsRows, CursorZero DEF Superseded, Call

LEMMA NewCallFields ==
  ASSUME NEW query \in Query, NEW background \in BOOLEAN
  PROVE  LET c == NewCall(query, background) IN
         /\ c \in Call /\ c.query = query /\ c.background = background
         /\ c.latest /\ ~c.served /\ c.rows = NoRows
BY NoRowsIsRows, CursorZero DEF NewCall, Call

\* A load takes the place of every other and is of the view, or noted as crossed.
LEMMA LoadKeeps ==
  ASSUME calls \subseteq Call, NEW p, PageOK(p), p.in => p.crossed \/ p.of = ViewOf(p),
         RowsTrue(p.rows, scans), NEW query \in Query, NEW background \in BOOLEAN,
         Load(p, query, background), scans' = scans
  PROVE  /\ RecordsInv'
         /\ page'.in = p.in /\ page'.location = p.location /\ page'.rows = p.rows
<1> DEFINE loading == p.loading \/ ~background
           crossed == p.crossed \/ query # ViewOf(p)
           stranded == background /\ p.loading
           new == NewCall(query, background)
<1>1. loading \in BOOLEAN /\ crossed \in BOOLEAN /\ stranded \in BOOLEAN
  BY PageTypes
<1>2. page' = [p EXCEPT !.loading = loading, !.failed = FALSE, !.crossed = crossed,
                        !.stranded = stranded]
  BY DEF Load
<1>3. calls' = Superseded \cup {new}
  BY DEF Load
<1> HIDE DEF loading, crossed, stranded, new
<1>4. /\ PageOK(page') /\ ViewOf(page') = ViewOf(p)
      /\ page'.in = p.in /\ page'.location = p.location /\ page'.rows = p.rows /\ page'.of = p.of
      /\ page'.loading = loading /\ page'.crossed = crossed /\ page'.stranded = stranded
  BY <1>1, <1>2 DEF PageOK, Page, ViewOf
<1>5. /\ new \in Call /\ new.query = query /\ new.background = background
      /\ new.latest /\ ~new.served /\ new.rows = NoRows
  BY NewCallFields DEF new
<1>6. /\ Superseded \subseteq Call
      /\ \A c \in Superseded : ~c.latest /\ c.rows = NoRows
  BY SupersededCalls
<1>7. calls' \subseteq Call /\ \A c \in calls' : c.latest => c = new
  BY <1>3, <1>5, <1>6
<1>8. OneLatest'
  BY <1>7 DEF OneLatest
<1>9. CallsSelected'
  BY <1>4, <1>5, <1>7 DEF CallsSelected, View, crossed
<1>10. PageSelected'
  BY <1>4 DEF PageSelected, View, crossed
<1>11. WaitingIsAnswered'
  BY <1>3, <1>4, <1>5 DEF WaitingIsAnswered, loading, stranded
<1>12. RowsTrue(page'.rows, scans') /\ \A c \in calls' : RowsTrue(c.rows, scans')
  <2>1. \A c \in calls' : c.rows = NoRows
    BY <1>3, <1>5, <1>6
  <2> QED BY <1>4, <2>1, NoRowsAreTrue
<1>13. AnswersSettled'
  BY <1>5, <1>7 DEF AnswersSettled
<1> QED
  BY <1>4, <1>7, <1>8, <1>9, <1>10, <1>11, <1>12, <1>13 DEF RecordsInv, CallsTrue

\* The effect of a change of the view.
LEMMA FollowKeeps ==
  ASSUME calls \subseteq Call, NEW p, PageOK(p), Follow(p), scans' = scans
  PROVE  /\ RecordsInv'
         /\ page'.in = p.in /\ page'.location = p.location /\ page'.rows = NoRows
<1> DEFINE e == Emptied(p)
<1>1. /\ PageOK(e) /\ ViewOf(e) = ViewOf(p)
      /\ e.in = p.in /\ e.location = p.location /\ e.rows = NoRows /\ e.of = ViewOf(p)
      /\ e.loading = p.loading /\ e.crossed = FALSE /\ e.stranded = FALSE /\ e.filter = p.filter
  BY EmptiedPage
<1>2. ViewOf(p) \in Query
  BY PageTypes
<1> HIDE DEF e
<1>3. ASSUME calls' = Superseded, PageOK(page'), ViewOf(page') = ViewOf(p),
             page'.in = p.in, page'.location = p.location, page'.rows = NoRows,
             page'.of = ViewOf(p),
             ~(page'.in /\ page'.location # None /\ page'.loading)
      PROVE  RecordsInv'
  <2>1. Superseded \subseteq Call /\ \A c \in Superseded : ~c.latest /\ c.rows = NoRows
    BY SupersededCalls
  <2>3. OneLatest' /\ CallsSelected' /\ CallsTrue' /\ AnswersSettled'
    BY <1>3, <2>1, NoRowsAreTrue DEF OneLatest, CallsSelected, CallsTrue, AnswersSettled
  <2>4. RowsTrue(page'.rows, scans')
    BY <1>3, NoRowsAreTrue
  <2>5. PageSelected' /\ WaitingIsAnswered'
    BY <1>3 DEF PageSelected, WaitingIsAnswered, View
  <2> QED BY <1>3, <2>1, <2>3, <2>4, <2>5 DEF RecordsInv
<1>4. CASE ~p.in \/ p.location = None
  <2>1. page' = [e EXCEPT !.polls = p.polls, !.stranded = p.stranded] /\ calls' = Superseded
    BY <1>4 DEF Follow, e
  <2>2. p.polls \in 0..MaxPolls /\ p.stranded \in BOOLEAN
    BY PageTypes
  <2>3. /\ PageOK(page') /\ ViewOf(page') = ViewOf(e)
        /\ page'.in = e.in /\ page'.location = e.location /\ page'.rows = e.rows /\ page'.of = e.of
    BY <1>1, <2>1, <2>2 DEF PageOK, Page, ViewOf
  <2> QED BY <1>1, <1>3, <1>4, <2>1, <2>3
<1>5. CASE ~(~p.in \/ p.location = None) /\ p.filter = "inverted"
  <2>1. page' = [e EXCEPT !.failed = TRUE, !.loading = FALSE] /\ calls' = Superseded
    BY <1>5 DEF Follow, e
  <2>2. /\ PageOK(page') /\ ViewOf(page') = ViewOf(e) /\ page'.loading = FALSE
        /\ page'.in = e.in /\ page'.location = e.location /\ page'.rows = e.rows /\ page'.of = e.of
    BY <1>1, <2>1 DEF PageOK, Page, ViewOf
  <2> QED BY <1>1, <1>3, <2>1, <2>2
<1>6. CASE ~(~p.in \/ p.location = None) /\ p.filter # "inverted"
  <2>1. Load(e, ViewOf(p), FALSE)
    BY <1>6 DEF Follow, e
  <2> QED BY <1>1, <1>2, <2>1, LoadKeeps, NoRowsAreTrue
<1> QED BY <1>4, <1>5, <1>6

-----------------------------------------------------------------------------
\* The calls for people that are looked at are of the selected location; until one
\* is answered none are shown, or those of the location.
PeopleInv ==
  /\ people.of \in Places /\ people.calls \subseteq [of : Locations, dropped : BOOLEAN]
  /\ \A c \in people.calls : ~c.dropped => page.in /\ page.location = c.of
  /\ page.in => \/ people.of \in {None, page.location}
                \/ \E c \in people.calls : ~c.dropped /\ c.of = page.location

LEMMA DroppedPeople ==
  ASSUME NEW cs \in SUBSET [of : Locations, dropped : BOOLEAN]
  PROVE  /\ Dropped(cs) \subseteq [of : Locations, dropped : BOOLEAN]
         /\ \A c \in Dropped(cs) : c.dropped
BY DEF Dropped

\* A change of the location, or of the session.
LEMMA SelectKeeps ==
  ASSUME calls \subseteq Call, PeopleInv, NEW p, PageOK(p), Select(p), scans' = scans
  PROVE  RecordsInv' /\ PeopleInv' /\ page'.rows = NoRows
<1> DEFINE l == IF p.in THEN p.location ELSE None
           added == IF l = None THEN {} ELSE {[of |-> l, dropped |-> FALSE]}
           kept == Dropped(people.calls)
<1>1. /\ RecordsInv'
      /\ page'.in = p.in /\ page'.location = p.location /\ page'.rows = NoRows
  BY FollowKeeps DEF Select
<1>2. people' = [of |-> IF l = None THEN None ELSE people.of, calls |-> kept \cup added]
  BY DEF Select, FollowPeople
<1>3. p.in \in BOOLEAN /\ p.location \in Places /\ l \in Places
  BY PageTypes DEF Places
<1>4. /\ kept \subseteq [of : Locations, dropped : BOOLEAN]
      /\ \A c \in kept : c.dropped
  BY DroppedPeople DEF PeopleInv
<1>5. /\ added \subseteq [of : Locations, dropped : BOOLEAN]
      /\ \A c \in added : ~c.dropped /\ c.of = l /\ l # None
      /\ l # None => [of |-> l, dropped |-> FALSE] \in added
  <2>1. CASE l = None
    BY <2>1 DEF added
  <2>2. CASE l # None
    <3>1. l \in Locations /\ added = {[of |-> l, dropped |-> FALSE]}
      BY <1>3, <2>2 DEF Places, added
    <3> HIDE DEF l, added
    <3> QED BY <2>2, <3>1
  <2> QED BY <2>1, <2>2
<1>6. l # None => p.in /\ p.location = l
  OBVIOUS
<1>7. p.in => p.location = l
  OBVIOUS
<1> HIDE DEF l, kept, added
<1>8. people'.of \in Places /\ people'.calls \subseteq [of : Locations, dropped : BOOLEAN]
  BY <1>2, <1>4, <1>5 DEF PeopleInv, Places
<1>9. \A c \in people'.calls : ~c.dropped => page'.in /\ page'.location = c.of
  BY <1>1, <1>2, <1>4, <1>5, <1>6
<1>10. page'.in => \/ people'.of \in {None, page'.location}
                   \/ \E c \in people'.calls : ~c.dropped /\ c.of = page'.location
  <2>1. CASE l = None
    BY <1>2, <2>1
  <2>2. CASE l # None
    <3>1. [of |-> l, dropped |-> FALSE] \in people'.calls
      BY <1>2, <1>5, <2>2
    <3> QED BY <1>1, <1>7, <3>1
  <2> QED BY <2>1, <2>2
<1>11. PeopleInv'
  BY <1>8, <1>9, <1>10 DEF PeopleInv
<1> QED BY <1>1, <1>11

LEMMA FirstPage ==
  ASSUME NEW p, PageOK(p)
  PROVE  PageOK(AtFirstPage(p))
<1>1. <<0>> \in Seq(Cursors) /\ Len(<<0>>) = 1
  BY CursorZero
<1>2. AtFirstPage(p) \in Page /\ AtFirstPage(p).at = 1 /\ AtFirstPage(p).cursors = <<0>>
  BY <1>1, CursorZero DEF AtFirstPage, PageOK, Page
<1> QED BY <1>1, <1>2 DEF PageOK

LEMMA SignOutKeeps ==
  ASSUME RecordsInv, PeopleInv, SignOut, scans' = scans
  PROVE  RecordsInv' /\ PeopleInv' /\ page'.rows = NoRows
<1> DEFINE p == [page EXCEPT !.in = FALSE, !.location = None]
<1>1. PageOK(p)
  BY DEF RecordsInv, PageOK, Page, Places
<1> HIDE DEF p
<1>2. PageOK(AtFirstPage(p))
  BY <1>1, FirstPage
<1>3. Select(AtFirstPage(p))
  BY DEF SignOut, p
<1> QED BY <1>2, <1>3, SelectKeeps DEF RecordsInv
-----------------------------------------------------------------------------
Op == [pc : {"idle", "sent", "done"}, scan : 0..MaxScans, view : Query]

\* What a submission and a cancellation under way name.
OpsInv ==
  /\ ScansOK
  /\ loads \subseteq {"me", "locations"}
  /\ submit \in Op /\ cancel \in Op
  /\ submit.pc # "idle" => submit.view.location \in Locations
  /\ cancel.pc # "idle" => cancel.scan \in 1..Len(scans)
  /\ cancel.pc = "done" => scans[cancel.scan].status = "settled"
  /\ acts \in 0..MaxActs

WorkspaceInv == RecordsInv /\ PeopleInv /\ OpsInv

\* What was shown settled is not shown waiting.
Settled == Settles(page.rows, page'.rows)

\* What a step of the workspace has to keep.
Good == RecordsInv' /\ PeopleInv' /\ OpsInv' /\ Settled

\* Scans are made and settle, and nothing else happens to them.
Grown ==
  /\ Len(scans) <= Len(scans')
  /\ \A i \in 1..Len(scans) : scans[i].status = "settled" => scans'[i].status = "settled"

LEMMA RowsStayTrue ==
  ASSUME ScansOK, ScansOK', Grown, NEW rows, RowsTrue(rows, scans)
  PROVE  RowsTrue(rows, scans')
BY DEF ScansOK, Grown, RowsTrue

\* The page and its calls are left alone.
LEMMA RecordsStay ==
  ASSUME RecordsInv, ScansOK, ScansOK', Grown, page' = page, calls' = calls
  PROVE  RecordsInv' /\ Settled
<1>1. RowsTrue(page'.rows, scans') /\ CallsTrue'
  BY RowsStayTrue DEF RecordsInv, CallsTrue
<1>2. OneLatest' /\ CallsSelected' /\ PageSelected' /\ WaitingIsAnswered' /\ AnswersSettled'
  BY DEF RecordsInv, OneLatest, CallsSelected, PageSelected, WaitingIsAnswered, AnswersSettled, View
<1> QED BY <1>1, <1>2 DEF RecordsInv, Settled, Settles

LEMMA PeopleStay ==
  ASSUME PeopleInv, people' = people, page'.in = page.in, page'.location = page.location
  PROVE  PeopleInv'
BY DEF PeopleInv

LEMMA OpsStay ==
  ASSUME OpsInv, UNCHANGED <<scans, submit, cancel>>, acts' \in 0..MaxActs,
         loads' \subseteq {"me", "locations"}
  PROVE  OpsInv'
BY DEF OpsInv, ScansOK

LEMMA SameRowsSettle == page'.rows \in {page.rows, NoRows} => Settled
BY NoRowsSettle DEF Settled, Settles

\* Records are left alone, and so are the people; a scan is made or settles.
LEMMA ScanStep ==
  ASSUME WorkspaceInv, ScansOK', Grown, UNCHANGED <<page, calls, people>>,
         OpsInv'
  PROVE  Good
BY RecordsStay, PeopleStay DEF WorkspaceInv, OpsInv, Good

LEMMA Appended ==
  ASSUME ScansOK, NEW l \in Locations, Len(scans) < MaxScans,
         scans' = Append(scans, [location |-> l, status |-> "waiting"])
  PROVE  ScansOK' /\ Grown
<1> DEFINE new == [location |-> l, status |-> "waiting"]
<1>1. new \in Scan
  BY DEF Scan, Statuses
<1> HIDE DEF new
<1>2. scans' = Append(scans, new)
  BY DEF new
<1>3. Len(scans) \in Nat /\ MaxScans \in Nat
  BY ConstantsAssumption DEF ScansOK
<1>4. scans' \in Seq(Scan) /\ Len(scans') = Len(scans) + 1
      /\ \A i \in 1..Len(scans) : scans'[i] = scans[i]
  BY <1>1, <1>2 DEF ScansOK
<1> QED BY <1>3, <1>4 DEF ScansOK, Grown

LEMMA SettledOne ==
  ASSUME ScansOK, NEW i \in 1..Len(scans), scans' = [scans EXCEPT ![i].status = "settled"]
  PROVE  ScansOK' /\ Grown /\ Len(scans') = Len(scans) /\ scans'[i].status = "settled"
<1>1. scans[i] \in Scan
  BY DEF ScansOK
<1>2. [scans[i] EXCEPT !.status = "settled"] \in Scan
      /\ [scans[i] EXCEPT !.status = "settled"].status = "settled"
  BY <1>1 DEF Scan, Statuses
<1> DEFINE new == [scans[i] EXCEPT !.status = "settled"]
<1>3. scans' = [scans EXCEPT ![i] = new]
  BY DEF ScansOK
<1> HIDE DEF new
<1>4. scans' \in Seq(Scan) /\ Len(scans') = Len(scans) /\ scans'[i] = new
      /\ \A j \in 1..Len(scans) \ {i} : scans'[j] = scans[j]
  BY <1>2, <1>3 DEF ScansOK, new
<1> QED BY <1>2, <1>4 DEF ScansOK, Grown, new

LEMMA SettleKeeps == ASSUME WorkspaceInv, NEW i \in 1..Len(scans), Settle(i) PROVE Good
<1>1. ScansOK' /\ Grown /\ Len(scans') = Len(scans)
  BY SettledOne DEF WorkspaceInv, OpsInv, Settle, ScansOK
<1>2. OpsInv'
  BY <1>1 DEF WorkspaceInv, OpsInv, Settle, Grown
<1> QED BY <1>1, <1>2, ScanStep DEF Settle

LEMMA ElsewhereKeeps == ASSUME WorkspaceInv, NEW l \in Locations, ScanElsewhere(l) PROVE Good
<1>1. ScansOK' /\ Grown
  BY Appended DEF WorkspaceInv, OpsInv, ScanElsewhere
<1>2. OpsInv'
  <2>1. Len(scans) \in Nat /\ Len(scans') \in Nat /\ Len(scans) <= Len(scans')
    BY <1>1 DEF WorkspaceInv, OpsInv, ScansOK, Grown
  <2> QED BY <1>1, <2>1 DEF WorkspaceInv, OpsInv, ScanElsewhere, Grown
<1> QED BY <1>1, <1>2, ScanStep DEF ScanElsewhere

LEMMA TakeScanKeeps == ASSUME WorkspaceInv, TakeScan PROVE Good
<1>1. ScansOK' /\ Grown
  BY Appended DEF WorkspaceInv, OpsInv, TakeScan
<1>2. OpsInv'
  <2>1. Len(scans) \in Nat /\ Len(scans') \in Nat /\ Len(scans) <= Len(scans')
    BY <1>1 DEF WorkspaceInv, OpsInv, ScansOK, Grown
  <2>2. submit' \in Op /\ submit'.view = submit.view
    BY DEF WorkspaceInv, OpsInv, TakeScan, Op
  <2> QED BY <1>1, <2>1, <2>2 DEF WorkspaceInv, OpsInv, TakeScan, Grown
<1> QED BY <1>1, <1>2, ScanStep DEF TakeScan

LEMMA TakeCancelKeeps == ASSUME WorkspaceInv, TakeCancel PROVE Good
<1>1. cancel.scan \in 1..Len(scans)
  BY DEF WorkspaceInv, OpsInv, TakeCancel
<1>2. ScansOK' /\ Grown /\ Len(scans') = Len(scans) /\ scans'[cancel.scan].status = "settled"
  BY <1>1, SettledOne DEF WorkspaceInv, OpsInv, TakeCancel, ScansOK
<1>3. cancel' \in Op /\ cancel'.scan = cancel.scan
  BY DEF WorkspaceInv, OpsInv, TakeCancel, Op
<1>4. OpsInv'
  BY <1>1, <1>2, <1>3 DEF WorkspaceInv, OpsInv, TakeCancel
<1> QED BY <1>2, <1>4, ScanStep DEF TakeCancel
-----------------------------------------------------------------------------
NatLess == {p \in Nat \X Nat : p[1] < p[2]}

LEMMA NatLessIsWF == IsWellFoundedOn(NatLess, Nat)
<1>1. OpToRel(<, Nat) = NatLess
  BY DEF OpToRel, NatLess
<1> QED BY <1>1, NatLessThanWellFounded

LEMMA Least ==
  ASSUME NEW S \in SUBSET Nat, S # {}
  PROVE  \E m \in S : \A n \in S : m <= n
<1>1. PICK m \in S : \A n \in S : ~(<<n, m>> \in NatLess)
  BY NatLessIsWF, WFMin, Zenon
<1>2. \A n \in S : n \in Nat /\ m \in Nat /\ ~(n < m)
  BY <1>1 DEF NatLess
<1> QED BY <1>1, <1>2

LEMMA Greatest ==
  ASSUME NEW S \in SUBSET Nat, S # {}, NEW b \in Nat, \A n \in S : n <= b
  PROVE  \E m \in S : \A n \in S : n <= m
<1> DEFINE U == {u \in Nat : \A n \in S : n <= u}
<1>1. PICK u \in U : \A w \in U : u <= w
  <2>1. U # {} /\ U \subseteq Nat
    OBVIOUS
  <2> HIDE DEF U
  <2> QED BY <2>1, Least
<1>2. u \in S
  <2> SUFFICES ASSUME u \notin S PROVE FALSE
    OBVIOUS
  <2>1. \A n \in S : n < u
    BY <1>1
  <2>2. u # 0
    <3>1. PICK n \in S : n < u
      BY <2>1
    <3> QED BY <3>1
  <2>3. u - 1 \in U
    BY <2>1, <2>2, <1>1
  <2> QED BY <2>3, <1>1
<1> QED BY <1>1, <1>2

LEMMA OldestOfNewest ==
  ASSUME NEW n \in Nat, NEW ids \in SUBSET (1..n), ids # {}
  PROVE  Newest(ids) \subseteq ids /\ Oldest(Newest(ids)) \in ids
<1>1. Newest(ids) \subseteq ids /\ ids \subseteq Nat
  BY DEF Newest
<1>2. PICK g \in ids : \A i \in ids : i <= g
  <2>1. \A i \in ids : i <= n
    OBVIOUS
  <2> QED BY <1>1, <2>1, Greatest
<1>3. {j \in ids : j > g} = {}
  <2>1. \A j \in ids : ~(j > g)
    BY <1>1, <1>2
  <2> QED BY <2>1
<1>4. g \in Newest(ids)
  BY <1>3, FS_EmptySet, ConstantsAssumption DEF Newest
<1>5. \E m \in Newest(ids) : \A i \in Newest(ids) : m <= i
  BY <1>1, <1>4, Least
<1>6. Oldest(Newest(ids)) \in Newest(ids)
  BY <1>5 DEF Oldest
<1> QED BY <1>1, <1>6

\* What the server answers.
LEMMA ServeKeeps == ASSUME WorkspaceInv, NEW c \in calls, Serve(c) PROVE Good
<1> DEFINE ids == Matching(c.query)
           found == Newest(ids)
           rows == [i \in found |-> scans[i].status]
           next == IF found = ids THEN 0 ELSE Oldest(found)
           new == [c EXCEPT !.served = TRUE, !.rows = rows, !.next = next]
<1>1. c \in Call /\ c.latest /\ ~c.served /\ calls' = (calls \ {c}) \cup {new}
      /\ UNCHANGED <<scans, page, people, loads, submit, cancel, acts>>
  BY DEF WorkspaceInv, RecordsInv, Serve
<1>2. Len(scans) \in Nat /\ Len(scans) <= MaxScans /\ MaxScans \in Nat
  BY ConstantsAssumption DEF WorkspaceInv, OpsInv, ScansOK
<1>3. found \subseteq ids /\ ids \subseteq 1..Len(scans) /\ ids \subseteq 1..MaxScans
  BY <1>2 DEF Newest, Matching
<1>4. next \in Cursors
  <2>1. CASE found = ids
    BY <2>1, CursorZero
  <2>2. CASE found # ids
    <3>1. ids # {}
      BY <1>3, <2>2
    <3>2. Oldest(found) \in ids
      BY <1>2, <1>3, <3>1, OldestOfNewest
    <3> QED BY <1>2, <1>3, <2>2, <3>2 DEF Cursors
  <2> QED BY <2>1, <2>2
<1> HIDE DEF ids, found, next
<1>5. \A i \in found : scans[i].status \in Statuses
  <2>1. \A i \in 1..Len(scans) : scans[i] \in Scan
    BY DEF WorkspaceInv, OpsInv, ScansOK
  <2>2. \A i \in 1..Len(scans) : scans[i].status \in Statuses
    BY <2>1 DEF Scan
  <2> QED BY <1>3, <2>2
<1>6. rows \in [found -> Statuses] /\ DOMAIN rows = found /\ rows \in Rows
      /\ \A i \in found : rows[i] = scans[i].status
  <2>1. rows \in [found -> Statuses] /\ found \in SUBSET (1..MaxScans)
    BY <1>3, <1>5
  <2> QED BY <2>1 DEF Rows
<1> HIDE DEF rows
<1>7. new \in Call /\ new.query = c.query /\ new.background = c.background
      /\ new.latest /\ new.rows = rows
  BY <1>1, <1>4, <1>6 DEF Call
<1> HIDE DEF new
<1>8. calls' \subseteq Call
  BY <1>1, <1>7 DEF WorkspaceInv, RecordsInv
<1>9. \A d \in calls' : d.latest => d = new
  BY <1>1 DEF WorkspaceInv, RecordsInv, OneLatest
<1>10. OneLatest' /\ CallsSelected' /\ PageSelected'
  BY <1>1, <1>7, <1>9 DEF WorkspaceInv, RecordsInv, OneLatest, CallsSelected, PageSelected, View
<1>11. WaitingIsAnswered'
  <2>1. (\E d \in calls : d.latest /\ ~d.background) => new.latest /\ ~new.background
    BY <1>1, <1>7 DEF WorkspaceInv, RecordsInv, OneLatest
  <2>2. new \in calls'
    BY <1>1
  <2> QED BY <1>1, <2>1, <2>2 DEF WorkspaceInv, RecordsInv, WaitingIsAnswered
<1>12. RowsTrue(rows, scans)
  BY <1>3, <1>6 DEF RowsTrue
<1>13. CallsTrue' /\ RowsTrue(page'.rows, scans')
  BY <1>1, <1>7, <1>12 DEF WorkspaceInv, RecordsInv, CallsTrue
<1>14. Settles(page.rows, rows)
  BY <1>6 DEF WorkspaceInv, RecordsInv, RowsTrue, Settles
<1>15. AnswersSettled'
  BY <1>1, <1>7, <1>9, <1>14 DEF AnswersSettled
<1>16. RecordsInv'
  BY <1>1, <1>8, <1>10, <1>11, <1>13, <1>15 DEF WorkspaceInv, RecordsInv
<1>17. PeopleInv' /\ OpsInv'
  BY <1>1, PeopleStay, OpsStay DEF WorkspaceInv, OpsInv
<1>18. Settled
  BY <1>1 DEF Settled, Settles
<1> QED BY <1>16, <1>17, <1>18 DEF Good

-----------------------------------------------------------------------------
\* A call is answered.
LEMMA CallGoes ==
  ASSUME RecordsInv, NEW c \in calls, calls' = calls \ {c}, scans' = scans, PageOK(page'),
         page'.in = page.in, page'.location = page.location, ViewOf(page') = View,
         RowsTrue(page'.rows, scans), PageSelected', WaitingIsAnswered',
         \/ c.latest
         \/ page'.rows = page.rows /\ page'.crossed = page.crossed
  PROVE  RecordsInv'
<1>1. calls' \subseteq Call /\ OneLatest' /\ CallsTrue'
  BY DEF RecordsInv, OneLatest, CallsTrue
<1>2. c.latest => \A d \in calls' : ~d.latest
  BY DEF RecordsInv, OneLatest
<1>3. CallsSelected' /\ AnswersSettled'
  BY <1>2 DEF RecordsInv, CallsSelected, AnswersSettled, View
<1> QED BY <1>1, <1>3 DEF RecordsInv

LEMMA RecordsKeep ==
  ASSUME WorkspaceInv, NEW c \in calls, Records(c) PROVE Good
<1>1. UNCHANGED <<scans, loads, submit, cancel, acts>> /\ ReceiveRecords(c) /\ OpsInv'
  BY OpsStay DEF Records, WorkspaceInv, OpsInv
<1>2. CASE ~c.latest /\ calls' = calls \ {c} /\ UNCHANGED <<page, people>>
  <2>1. WaitingIsAnswered'
    BY <1>2 DEF WorkspaceInv, RecordsInv, WaitingIsAnswered
  <2>2. RecordsInv' /\ PeopleInv'
    BY <1>1, <1>2, <2>1, CallGoes, PeopleStay DEF WorkspaceInv, RecordsInv, PageSelected, View
  <2> QED BY <1>1, <1>2, <2>2, SameRowsSettle DEF Good
<1>3. c \in Call /\ PageOK(page)
  BY DEF WorkspaceInv, RecordsInv
<1> DEFINE loading == page.loading /\ c.background
<1>4. loading \in BOOLEAN
  BY <1>3, PageTypes DEF Call
<1>5. ASSUME c.latest, calls' = calls \ {c}, page'.in = page.in, page'.location = page.location,
             page'.loading = loading, page'.stranded = page.stranded
      PROVE  WaitingIsAnswered'
  BY <1>5 DEF WorkspaceInv, RecordsInv, WaitingIsAnswered, OneLatest
<1>6. CASE c.latest /\ c.served /\ ShowAnswer(c) /\ calls' = calls \ {c} /\ UNCHANGED people
  <2> DEFINE crossed == page.crossed /\ c.query # View
  <2>1. crossed \in BOOLEAN
    BY <1>3, PageTypes
  <2>2. page' = [page EXCEPT !.rows = c.rows, !.of = c.query, !.next = c.next,
                             !.loading = loading, !.crossed = crossed]
    BY <1>6 DEF ShowAnswer, LoadingAfter
  <2> HIDE DEF loading, crossed
  <2>3. /\ PageOK(page') /\ ViewOf(page') = View
        /\ page'.in = page.in /\ page'.location = page.location /\ page'.rows = c.rows
        /\ page'.of = c.query /\ page'.loading = loading /\ page'.crossed = crossed
        /\ page'.stranded = page.stranded
    BY <1>3, <1>4, <2>1, <2>2 DEF PageOK, Page, ViewOf, View, Call
  <2>4. WaitingIsAnswered'
    BY <1>5, <1>6, <2>3
  <2>5. PageSelected'
    BY <1>6, <2>3 DEF PageSelected, WorkspaceInv, RecordsInv, CallsSelected, View, crossed
  <2>6. RowsTrue(page'.rows, scans)
    BY <2>3 DEF WorkspaceInv, RecordsInv, CallsTrue
  <2>7. RecordsInv'
    BY <1>1, <1>6, <2>3, <2>4, <2>5, <2>6, CallGoes DEF WorkspaceInv
  <2>8. PeopleInv'
    BY <1>6, <2>3, PeopleStay DEF WorkspaceInv
  <2>9. Settled
    BY <1>6, <2>3 DEF WorkspaceInv, RecordsInv, AnswersSettled, Settled
  <2> QED BY <1>1, <2>7, <2>8, <2>9 DEF Good
<1>7. CASE c.latest /\ page' = [page EXCEPT !.failed = TRUE, !.loading = LoadingAfter(c)]
           /\ calls' = calls \ {c} /\ UNCHANGED people
  <2>1. page' = [page EXCEPT !.failed = TRUE, !.loading = loading]
    BY <1>7 DEF LoadingAfter
  <2> HIDE DEF loading
  <2>2. /\ PageOK(page') /\ ViewOf(page') = View
        /\ page'.in = page.in /\ page'.location = page.location /\ page'.rows = page.rows
        /\ page'.of = page.of /\ page'.loading = loading /\ page'.crossed = page.crossed
        /\ page'.stranded = page.stranded
    BY <1>3, <1>4, <2>1 DEF PageOK, Page, ViewOf, View
  <2>3. WaitingIsAnswered'
    BY <1>5, <1>7, <2>2
  <2>4. PageSelected'
    BY <2>2 DEF PageSelected, WorkspaceInv, RecordsInv, View
  <2>5. RecordsInv'
    BY <1>1, <1>7, <2>2, <2>3, <2>4, CallGoes DEF WorkspaceInv, RecordsInv
  <2>6. PeopleInv'
    BY <1>7, <2>2, PeopleStay DEF WorkspaceInv
  <2> QED BY <1>1, <2>2, <2>5, <2>6, SameRowsSettle DEF Good
<1>8. CASE SignOut
  BY <1>1, <1>8, SignOutKeeps, SameRowsSettle DEF WorkspaceInv, Good
<1> QED BY <1>1, <1>2, <1>6, <1>7, <1>8 DEF ReceiveRecords
\* The page goes elsewhere, or the session ends, and nothing else but the
\* acts and the loads changes.
LEMMA SelectIsGood ==
  ASSUME WorkspaceInv, NEW p, PageOK(p), Select(p), scans' = scans, OpsInv' PROVE Good
BY SelectKeeps, SameRowsSettle DEF WorkspaceInv, RecordsInv, Good

LEMMA SignOutIsGood == ASSUME WorkspaceInv, SignOut, scans' = scans, OpsInv' PROVE Good
BY SignOutKeeps, SameRowsSettle DEF WorkspaceInv, Good

LEMMA FollowIsGood ==
  ASSUME WorkspaceInv, NEW p, PageOK(p), p.in = page.in, p.location = page.location,
         Follow(p), UNCHANGED <<scans, people>>, OpsInv'
  PROVE  Good
<1>1. RecordsInv' /\ page'.in = page.in /\ page'.location = page.location /\ page'.rows = NoRows
  BY FollowKeeps DEF WorkspaceInv, RecordsInv
<1> QED BY <1>1, PeopleStay, SameRowsSettle DEF WorkspaceInv, Good

LEMMA LoadIsGood ==
  ASSUME WorkspaceInv, NEW p, PageOK(p), p.in = page.in, p.location = page.location,
         p.crossed = page.crossed, p.of = page.of, ViewOf(p) = View,
         RowsTrue(p.rows, scans), Settles(page.rows, p.rows),
         NEW query \in Query, NEW background \in BOOLEAN, Load(p, query, background),
         UNCHANGED <<scans, people>>, OpsInv'
  PROVE  Good
<1>1. p.in => p.crossed \/ p.of = ViewOf(p)
  BY DEF WorkspaceInv, RecordsInv, PageSelected
<1>2. RecordsInv' /\ page'.in = p.in /\ page'.location = p.location /\ page'.rows = p.rows
  BY <1>1, LoadKeeps DEF WorkspaceInv, RecordsInv
<1> QED BY <1>2, PeopleStay DEF WorkspaceInv, Settled, Good

LEMMA NothingIsGood ==
  ASSUME WorkspaceInv, UNCHANGED <<scans, page, calls, people>>, OpsInv' PROVE Good
<1>1. Grown /\ ScansOK /\ ScansOK'
  BY DEF WorkspaceInv, OpsInv, ScansOK, Grown
<1> QED BY <1>1, ScanStep

LEMMA PageIsOK == WorkspaceInv => PageOK(page) /\ View \in Query /\ RowsTrue(page.rows, scans)
                                 /\ Settles(page.rows, page.rows)
BY PageTypes DEF WorkspaceInv, RecordsInv, View, Settles

LEMMA PeopleKeep == ASSUME WorkspaceInv, NEW c \in people.calls, People(c) PROVE Good
<1>1. UNCHANGED <<scans, loads, submit, cancel, acts>> /\ ReceivePeople(c) /\ OpsInv'
  BY OpsStay DEF People, WorkspaceInv, OpsInv
<1>2. ASSUME UNCHANGED <<page, calls>>, people'.calls = people.calls \ {c},
             \/ people'.of = None
             \/ c.dropped /\ people'.of = people.of
             \/ ~c.dropped /\ people'.of = c.of
      PROVE  Good
  <2>1. PeopleInv'
    BY <1>2 DEF WorkspaceInv, PeopleInv, Places
  <2>2. RecordsInv' /\ Settled
    <3>1. Grown /\ ScansOK /\ ScansOK'
      BY <1>1 DEF WorkspaceInv, OpsInv, ScansOK, Grown
    <3> QED BY <1>2, <3>1, RecordsStay DEF WorkspaceInv
  <2> QED BY <1>1, <2>1, <2>2 DEF Good
<1> QED BY <1>1, <1>2, SignOutIsGood DEF ReceivePeople

LEMMA EnterIsGood == ASSUME WorkspaceInv, Enter, scans' = scans, OpsInv' PROVE Good
<1>1. CASE page.in
  BY <1>1, NothingIsGood DEF Enter
<1>2. CASE ~page.in
  <2> DEFINE p == [page EXCEPT !.in = TRUE]
  <2>1. PageOK(p)
    BY PageIsOK DEF PageOK, Page
  <2>2. Select(p)
    BY <1>2 DEF Enter
  <2> HIDE DEF p
  <2> QED BY <2>1, <2>2, SelectIsGood
<1> QED BY <1>1, <1>2

LEMMA MeKeeps == ASSUME WorkspaceInv, ReceiveMe PROVE Good
<1>1. OpsInv' /\ scans' = scans
  BY OpsStay DEF WorkspaceInv, OpsInv, ReceiveMe
<1> QED BY <1>1, EnterIsGood, SignOutIsGood DEF ReceiveMe

LEMMA LocationsKeep == ASSUME WorkspaceInv, ReceiveLocations PROVE Good
<1>1. OpsInv' /\ scans' = scans
  BY OpsStay DEF WorkspaceInv, OpsInv, ReceiveLocations
<1>2. CASE UNCHANGED <<page, calls, people>>
  BY <1>1, <1>2, NothingIsGood
<1>3. CASE SignOut
  BY <1>1, <1>3, SignOutIsGood
<1>4. ASSUME NEW l \in Places, Select([page EXCEPT !.location = l]) PROVE Good
  <2> DEFINE p == [page EXCEPT !.location = l]
  <2>1. PageOK(p)
    BY PageIsOK DEF PageOK, Page
  <2>2. Select(p)
    BY <1>4
  <2> HIDE DEF p
  <2> QED BY <1>1, <2>1, <2>2, SelectIsGood
<1>5. CASE \E there \in SUBSET Locations :
             \E l \in IF page.location \in there THEN {page.location}
                     ELSE IF there = {} THEN {None} ELSE there :
               IF l = page.location THEN UNCHANGED <<page, calls, people>>
               ELSE Select([page EXCEPT !.location = l])
  <2>1. PICK there \in SUBSET Locations :
             \E l \in IF page.location \in there THEN {page.location}
                     ELSE IF there = {} THEN {None} ELSE there :
               IF l = page.location THEN UNCHANGED <<page, calls, people>>
               ELSE Select([page EXCEPT !.location = l])
    BY <1>5
  <2>2. PICK l \in Places : IF l = page.location THEN UNCHANGED <<page, calls, people>>
                            ELSE Select([page EXCEPT !.location = l])
    BY <2>1 DEF Places
  <2> QED BY <1>2, <1>4, <2>2
<1> QED BY <1>2, <1>3, <1>5 DEF ReceiveLocations

LEMMA RestingIsOp == Resting \in Op /\ Resting.pc = "idle"
BY ConstantsAssumption DEF Resting, Op, NoView, Query, Places, Filters, Cursors

\* The answers to a scan and to a cancellation.
LEMMA SubmitKeeps == ASSUME WorkspaceInv, ReceiveSubmit PROVE Good
<1>1. OpsInv' /\ scans' = scans
  BY RestingIsOp DEF WorkspaceInv, OpsInv, ScansOK, ReceiveSubmit
<1>2. CASE Follow(AtFirstPage([page EXCEPT !.filter = "all"])) /\ UNCHANGED people
  <2> DEFINE p == [page EXCEPT !.filter = "all"]
  <2>1. PageOK(p) /\ p.in = page.in /\ p.location = page.location
    BY PageIsOK DEF PageOK, Page, Filters
  <2> HIDE DEF p
  <2>2. PageOK(AtFirstPage(p)) /\ AtFirstPage(p).in = p.in /\ AtFirstPage(p).location = p.location
    BY <2>1, FirstPage DEF AtFirstPage, PageOK, Page
  <2>3. Follow(AtFirstPage(p))
    BY <1>2 DEF p
  <2> QED BY <1>1, <1>2, <2>1, <2>2, <2>3, FollowIsGood
<1>3. CASE Load(page, submit.view, TRUE) /\ UNCHANGED people
  <2>1. submit.view \in Query
    BY DEF WorkspaceInv, OpsInv, Op
  <2> QED BY <1>1, <1>3, <2>1, PageIsOK, LoadIsGood DEF View
<1>4. CASE SignOut
  BY <1>1, <1>4, SignOutIsGood
<1> QED BY <1>2, <1>3, <1>4 DEF ReceiveSubmit

LEMMA CanceledPage ==
  ASSUME WorkspaceInv, cancel.pc = "done"
  PROVE  LET p == Canceled(cancel.scan) IN
         /\ PageOK(p) /\ ViewOf(p) = View
         /\ p.in = page.in /\ p.location = page.location
         /\ p.crossed = page.crossed /\ p.of = page.of
         /\ RowsTrue(p.rows, scans) /\ Settles(page.rows, p.rows)
<1> DEFINE i == cancel.scan
           p == Canceled(i)
<1>1. PageOK(page) /\ RowsTrue(page.rows, scans)
  BY PageIsOK
<1>2. CASE i \notin DOMAIN page.rows
  BY <1>2, PageIsOK DEF Canceled, View
<1>3. CASE i \in DOMAIN page.rows
  <2> DEFINE rows == [page.rows EXCEPT ![i] = "settled"]
  <2>0. page.rows \in Rows
    BY <1>1, PageTypes
  <2>1. PICK d \in SUBSET (1..MaxScans) : page.rows \in [d -> Statuses]
    BY <2>0 DEF Rows
  <2>2. rows \in [d -> Statuses] /\ DOMAIN rows = DOMAIN page.rows /\ DOMAIN rows = d
        /\ rows[i] = "settled" /\ \A j \in d \ {i} : rows[j] = page.rows[j]
    BY <1>3, <2>1 DEF Statuses
  <2>3. rows \in Rows
    BY <2>1, <2>2 DEF Rows
  <2>4. p = [page EXCEPT !.rows = rows]
    BY <1>1, <1>3 DEF Canceled, PageOK, Page
  <2> HIDE DEF rows, p
  <2>5. /\ PageOK(p) /\ ViewOf(p) = View
        /\ p.in = page.in /\ p.location = page.location
        /\ p.crossed = page.crossed /\ p.of = page.of /\ p.rows = rows
    BY <1>1, <2>3, <2>4 DEF PageOK, Page, ViewOf, View
  <2>6. scans[i].status = "settled"
    BY DEF WorkspaceInv, OpsInv
  <2>7. RowsTrue(rows, scans) /\ Settles(page.rows, rows)
    BY <1>1, <2>2, <2>6 DEF RowsTrue, Settles
  <2> QED BY <2>5, <2>7 DEF p
<1> QED BY <1>2, <1>3

LEMMA CancelKeeps == ASSUME WorkspaceInv, ReceiveCancel PROVE Good
<1>1. OpsInv' /\ scans' = scans
  BY RestingIsOp DEF WorkspaceInv, OpsInv, ScansOK, ReceiveCancel
<1>2. cancel.view \in Query
  BY DEF WorkspaceInv, OpsInv, Op
<1>3. CASE cancel.pc = "done" /\ Load(Canceled(cancel.scan), cancel.view, TRUE) /\ UNCHANGED people
  <2> DEFINE p == Canceled(cancel.scan)
  <2>1. /\ PageOK(p) /\ ViewOf(p) = View
        /\ p.in = page.in /\ p.location = page.location
        /\ p.crossed = page.crossed /\ p.of = page.of
        /\ RowsTrue(p.rows, scans) /\ Settles(page.rows, p.rows)
    BY <1>3, CanceledPage
  <2> HIDE DEF p
  <2>2. Load(p, cancel.view, TRUE)
    BY <1>3 DEF p
  <2> QED BY <1>1, <1>2, <1>3, <2>1, <2>2, LoadIsGood
<1>4. CASE Load(page, cancel.view, TRUE) /\ UNCHANGED people
  BY <1>1, <1>2, <1>4, PageIsOK, LoadIsGood DEF View
<1>5. CASE SignOut
  BY <1>1, <1>5, SignOutIsGood
<1> QED BY <1>3, <1>4, <1>5 DEF ReceiveCancel

LEMMA PollsPage ==
  ASSUME WorkspaceInv, NEW n \in 0..MaxPolls, NEW p, p = [page EXCEPT !.polls = n]
  PROVE  /\ PageOK(p) /\ ViewOf(p) = View
         /\ p.in = page.in /\ p.location = page.location /\ p.loading = page.loading
         /\ p.crossed = page.crossed /\ p.of = page.of /\ p.rows = page.rows
         /\ p.stranded = page.stranded
BY PageIsOK DEF PageOK, Page, ViewOf, View

LEMMA PollKeeps == ASSUME WorkspaceInv, Poll PROVE Good
<1>1. OpsInv' /\ UNCHANGED <<scans, people>>
  BY OpsStay DEF WorkspaceInv, OpsInv, Poll
<1> DEFINE n == page.polls + 1
           p == [page EXCEPT !.polls = n]
<1>2. page.polls \in 0..MaxPolls /\ page.polls < MaxPolls
  BY PageIsOK, PageTypes DEF Poll, ShouldPoll
<1>3. n \in 0..MaxPolls
  BY <1>2, ConstantsAssumption
<1>4. Load(p, View, TRUE)
  BY DEF Poll
<1> HIDE DEF n, p
<1>5. /\ PageOK(p) /\ ViewOf(p) = View
      /\ p.in = page.in /\ p.location = page.location
      /\ p.crossed = page.crossed /\ p.of = page.of /\ p.rows = page.rows
  BY <1>3, PollsPage DEF p
<1> QED BY <1>1, <1>4, <1>5, PageIsOK, LoadIsGood

\* The user.
LEMMA OneAct == ASSUME WorkspaceInv, Act PROVE acts' \in 0..MaxActs
BY ConstantsAssumption DEF WorkspaceInv, OpsInv, Act

LEMMA LoginKeeps == ASSUME WorkspaceInv, Login PROVE Good
<1>1. OpsInv' /\ scans' = scans
  BY OneAct, OpsStay DEF WorkspaceInv, OpsInv, Login
<1> QED BY <1>1, EnterIsGood DEF Login

LEMMA LogoutKeeps == ASSUME WorkspaceInv, Logout PROVE Good
<1>1. OpsInv' /\ scans' = scans
  BY OneAct, OpsStay DEF WorkspaceInv, OpsInv, Logout
<1> QED BY <1>1, SignOutIsGood DEF Logout

LEMMA ChangeLocationKeeps == ASSUME WorkspaceInv, NEW l \in Locations, ChangeLocation(l) PROVE Good
<1>1. OpsInv' /\ scans' = scans
  BY OneAct, OpsStay DEF WorkspaceInv, OpsInv, ChangeLocation
<1> DEFINE p == [page EXCEPT !.location = l]
<1>2. PageOK(p)
  BY PageIsOK DEF PageOK, Page, Places
<1>3. Select(AtFirstPage(p))
  BY DEF ChangeLocation
<1> HIDE DEF p
<1> QED BY <1>1, <1>2, <1>3, FirstPage, SelectIsGood

LEMMA ChangeFilterKeeps == ASSUME WorkspaceInv, NEW f \in Filters, ChangeFilter(f) PROVE Good
<1>1. OpsInv' /\ UNCHANGED <<scans, people>>
  BY OneAct, OpsStay DEF WorkspaceInv, OpsInv, ChangeFilter
<1> DEFINE p == [page EXCEPT !.filter = f]
<1>2. PageOK(p) /\ p.in = page.in /\ p.location = page.location
  BY PageIsOK DEF PageOK, Page
<1>3. Follow(AtFirstPage(p))
  BY DEF ChangeFilter
<1> HIDE DEF p
<1>4. AtFirstPage(p).in = p.in /\ AtFirstPage(p).location = p.location
  BY <1>2 DEF AtFirstPage, PageOK, Page
<1> QED BY <1>1, <1>2, <1>3, <1>4, FirstPage, FollowIsGood

LEMMA NextPageKeeps == ASSUME WorkspaceInv, NextPage PROVE Good
<1>1. OpsInv' /\ UNCHANGED <<scans, people>>
  BY OneAct, OpsStay DEF WorkspaceInv, OpsInv, NextPage
<1> DEFINE kept == SubSeq(page.cursors, 1, page.at)
           cursors == Append(kept, page.next)
           at == page.at + 1
           p == [page EXCEPT !.cursors = cursors, !.at = at]
<1>2. page \in Page /\ page.cursors \in Seq(Cursors) /\ page.next \in Cursors
      /\ page.at \in 1..Len(page.cursors)
  BY PageIsOK, PageTypes DEF PageOK
<1>3. kept \in Seq(Cursors) /\ Len(kept) = page.at
  <2>1. Len(page.cursors) \in Nat
    BY <1>2
  <2>2. \A i \in 1..page.at : page.cursors[i] \in Cursors
    BY <1>2, <2>1
  <2> QED BY <1>2, <2>1, <2>2
<1> HIDE DEF kept
<1>4. cursors \in Seq(Cursors) /\ Len(cursors) = at /\ at \in 1..Len(cursors) /\ at \in Nat
  BY <1>2, <1>3
<1>5. Follow(p)
  BY DEF NextPage, kept
<1> HIDE DEF cursors, at
<1>6. PageOK(p) /\ p.in = page.in /\ p.location = page.location
  BY <1>2, <1>4 DEF PageOK, Page
<1> HIDE DEF p
<1> QED BY <1>1, <1>5, <1>6, FollowIsGood

LEMMA PreviousPageKeeps == ASSUME WorkspaceInv, PreviousPage PROVE Good
<1>1. OpsInv' /\ UNCHANGED <<scans, people>>
  BY OneAct, OpsStay DEF WorkspaceInv, OpsInv, PreviousPage
<1> DEFINE at == page.at - 1
           p == [page EXCEPT !.at = at]
<1>2. page \in Page /\ page.cursors \in Seq(Cursors) /\ page.at \in 1..Len(page.cursors)
  BY PageIsOK, PageTypes DEF PageOK
<1>3. at \in 1..Len(page.cursors) /\ at \in Nat
  BY <1>2 DEF PreviousPage
<1>4. Follow(p)
  BY DEF PreviousPage
<1> HIDE DEF at
<1>5. PageOK(p) /\ p.in = page.in /\ p.location = page.location
  BY <1>2, <1>3 DEF PageOK, Page
<1> HIDE DEF p
<1> QED BY <1>1, <1>4, <1>5, FollowIsGood

LEMMA RefreshKeeps == ASSUME WorkspaceInv, Refresh PROVE Good
<1>1. OpsInv' /\ UNCHANGED <<scans, people>>
  BY OneAct, OpsStay DEF WorkspaceInv, OpsInv, Refresh
<1> DEFINE p == [page EXCEPT !.polls = 0]
<1>2. \/ page' = p /\ calls' = calls
      \/ Load(p, View, FALSE)
  BY DEF Refresh
<1> HIDE DEF p
<1>3. /\ PageOK(p) /\ ViewOf(p) = View
      /\ p.in = page.in /\ p.location = page.location /\ p.loading = page.loading
      /\ p.crossed = page.crossed /\ p.of = page.of /\ p.rows = page.rows
      /\ p.stranded = page.stranded
  BY CursorZero, PollsPage DEF p
<1>4. CASE page' = p /\ calls' = calls
  <2>1. ViewOf(page') = ViewOf(page)
    BY <1>3, <1>4 DEF View
  <2>2. RowsTrue(page'.rows, scans') /\ CallsTrue'
    BY <1>1, <1>3, <1>4 DEF WorkspaceInv, RecordsInv, CallsTrue
  <2>3. OneLatest' /\ CallsSelected' /\ PageSelected' /\ WaitingIsAnswered' /\ AnswersSettled'
    BY <1>3, <1>4, <2>1 DEF WorkspaceInv, RecordsInv, OneLatest, CallsSelected, PageSelected,
                            WaitingIsAnswered, AnswersSettled, View
  <2>4. RecordsInv'
    BY <1>3, <1>4, <2>2, <2>3 DEF WorkspaceInv, RecordsInv
  <2>5. PeopleInv' /\ Settled
    BY <1>1, <1>3, <1>4, PeopleStay, SameRowsSettle DEF WorkspaceInv
  <2> QED BY <1>1, <2>4, <2>5 DEF Good
<1>5. CASE Load(p, View, FALSE)
  BY <1>1, <1>3, <1>5, PageIsOK, LoadIsGood
<1> QED BY <1>2, <1>4, <1>5

LEMMA ViewFields == View.location = page.location
BY DEF View, ViewOf

LEMMA SubmitScanKeeps == ASSUME WorkspaceInv, SubmitScan PROVE Good
<1>1. UNCHANGED <<scans, page, calls, people, loads, cancel>> /\ acts' \in 0..MaxActs
  BY OneAct DEF SubmitScan
<1> DEFINE v == View
<1>2. v \in Query /\ v.location \in Locations
  BY PageIsOK, PageTypes, ViewFields DEF SubmitScan, Places
<1>3. submit' = [pc |-> "sent", scan |-> 0, view |-> v]
  BY DEF SubmitScan
<1> HIDE DEF v
<1>4. submit' \in Op /\ submit'.view.location \in Locations
  BY <1>2, <1>3, ConstantsAssumption DEF Op
<1>5. OpsInv'
  BY <1>1, <1>4 DEF WorkspaceInv, OpsInv, ScansOK
<1> QED BY <1>1, <1>5, NothingIsGood

LEMMA CancelScanKeeps ==
  ASSUME WorkspaceInv, NEW i \in DOMAIN page.rows, CancelScan(i) PROVE Good
<1>1. UNCHANGED <<scans, page, calls, people, loads, submit>> /\ acts' \in 0..MaxActs
  BY OneAct DEF CancelScan
<1> DEFINE v == View
<1>2. v \in Query /\ i \in 1..Len(scans)
  BY PageIsOK DEF RowsTrue
<1>3. cancel' = [pc |-> "sent", scan |-> i, view |-> v]
  BY DEF CancelScan
<1> HIDE DEF v
<1>4. i \in 0..MaxScans
  BY <1>2, ConstantsAssumption DEF WorkspaceInv, OpsInv, ScansOK
<1>5. cancel' \in Op /\ cancel'.pc = "sent" /\ cancel'.scan = i
  BY <1>2, <1>3, <1>4 DEF Op
<1>6. OpsInv'
  BY <1>1, <1>2, <1>5 DEF WorkspaceInv, OpsInv, ScansOK
<1> QED BY <1>1, <1>6, NothingIsGood

LEMMA WorkspaceStarts == Init => WorkspaceInv
<1> SUFFICES ASSUME Init PROVE WorkspaceInv
  OBVIOUS
<1>1. NoView \in Query /\ NoView = [location |-> None, filter |-> "all", cursor |-> 0]
  BY CursorZero DEF NoView, Query, Places, Filters
<1>2. page \in Page /\ page.at = 1 /\ page.cursors = <<0>> /\ ~page.in /\ page.rows = NoRows
  BY <1>1, NoRowsIsRows, CursorZero DEF Init, Page, Places, Filters
<1>3. PageOK(page)
  BY <1>2 DEF PageOK
<1>4. calls = {}
  BY DEF Init
<1>5. RecordsInv
  BY <1>2, <1>3, <1>4, NoRowsAreTrue
     DEF RecordsInv, OneLatest, CallsSelected, PageSelected, WaitingIsAnswered, CallsTrue,
         AnswersSettled
<1>6. PeopleInv
  BY <1>2 DEF Init, PeopleInv, Places
<1>7. OpsInv
  BY RestingIsOp, ConstantsAssumption DEF Init, OpsInv, ScansOK
<1> QED BY <1>5, <1>6, <1>7 DEF WorkspaceInv

LEMMA WorkspaceNext == WorkspaceInv /\ [Next]_vars => WorkspaceInv' /\ [Settled]_vars
<1> SUFFICES ASSUME WorkspaceInv, [Next]_vars PROVE WorkspaceInv' /\ [Settled]_vars
  OBVIOUS
<1>1. CASE User
  BY <1>1, LoginKeeps, LogoutKeeps, NextPageKeeps, PreviousPageKeeps, RefreshKeeps,
     SubmitScanKeeps, ChangeLocationKeeps, ChangeFilterKeeps, CancelScanKeeps
     DEF User, Good, WorkspaceInv
<1>2. CASE Server
  BY <1>2, ServeKeeps, SettleKeeps, ElsewhereKeeps, TakeScanKeeps, TakeCancelKeeps
     DEF Server, Good, WorkspaceInv
<1>3. CASE Answers
  BY <1>3, RecordsKeep, PeopleKeep, MeKeeps, LocationsKeep, SubmitKeeps, CancelKeeps
     DEF Answers, Good, WorkspaceInv
<1>4. CASE Poll
  BY <1>4, PollKeeps DEF Good, WorkspaceInv
<1>5. CASE UNCHANGED vars
  <2>1. OpsInv'
    BY <1>5, OpsStay DEF WorkspaceInv, OpsInv, vars
  <2>2. Good
    BY <1>5, <2>1, NothingIsGood DEF vars
  <2> QED BY <2>2 DEF Good, WorkspaceInv
<1> QED BY <1>1, <1>2, <1>3, <1>4, <1>5 DEF Next

(***************************************************************************)
(* Theorems about the workspace.                                           *)
(***************************************************************************)
\* The invariant holds, for any page size, number of polls, scans and calls.
THEOREM WorkspaceSafe == Spec => []WorkspaceInv
<1>1. Init => WorkspaceInv
  BY WorkspaceStarts
<1>2. WorkspaceInv /\ [Next]_vars => WorkspaceInv'
  BY WorkspaceNext
<1> QED BY <1>1, <1>2, PTL DEF Spec

\* The state of the page, its calls and the server keep their types.
THEOREM WorkspaceTypes == Spec => []TypeOK
<1>1. WorkspaceInv => TypeOK
  BY DEF WorkspaceInv, RecordsInv, PageOK, PeopleInv, OpsInv, ScansOK, Op, TypeOK
<1> QED BY <1>1, WorkspaceSafe, PTL

\* However answers are delayed, lost and overtaken, what is shown is what is selected,
\* but for the loads that a failed scan or a cancellation makes for a view left since.
THEOREM ShownIsTheSelected == Spec => []ShownIsSelected
<1>1. WorkspaceInv => ShownIsSelected
  BY DEF WorkspaceInv, RecordsInv, PageSelected, PeopleInv, ShownIsSelected
<1> QED BY <1>1, WorkspaceSafe, PTL

\* The page waits only while a load it waits for is under way, unless one in the
\* background took its place.
THEOREM WaitingHasItsCall == Spec => []WaitingIsAnswered
<1>1. WorkspaceInv => WaitingIsAnswered
  BY DEF WorkspaceInv, RecordsInv
<1> QED BY <1>1, WorkspaceSafe, PTL

\* No answer shows a record waiting that was shown settled.
THEOREM SettledIsKept == Spec => SettledStaysShown
<1>1. WorkspaceInv /\ [Next]_vars
        => [\A i \in DOMAIN page.rows \cap DOMAIN page'.rows :
              page.rows[i] = "settled" => page'.rows[i] = "settled"]_vars
  BY WorkspaceNext DEF Settled, Settles
<1> QED BY <1>1, WorkspaceSafe, PTL DEF Spec, SettledStaysShown

-----------------------------------------------------------------------------
(***************************************************************************)
(* Directory. A change that is done is told of by every read asked for     *)
(* afterwards; the reload of an act is such a read, and a notice names its *)
(* change. Nothing is under way before a location is chosen.               *)
(***************************************************************************)
\* A read that was asked for after a change tells of it, once it is served.
Tells(r, b, n, e) == r.n >= n /\ r.of = b /\ r.served => r.edition >= e

ReadsAreIssued ==
  /\ \A r \in reads : r.n <= issued
  /\ view.newest <= issued /\ view.list.n <= view.newest

\* The change of an errand is made, and its reload was asked for afterwards.
ErrandIsMade ==
  /\ errand.pc \in {"done", "reloading"} => errand.edition <= edition[errand.of]
  /\ errand.pc = "reloading" =>
       /\ errand.n <= issued
       /\ \A r \in reads : r.n = errand.n => r.of = errand.of
       /\ \A r \in reads : Tells(r, errand.of, errand.n, errand.edition)

\* What is shown after a notice, in the order of the reads, tells of its change.
NoticeIsTold ==
  view.notice # NoNotice =>
    /\ view.notice.of \in Branches
    /\ view.notice.edition <= edition[view.notice.of]
    /\ \A r \in reads : Tells(r, view.notice.of, view.newest, view.notice.edition)

\* Nothing is asked for before a location is chosen; one stays chosen then.
NothingBeforeOpen ==
  view.location = Nowhere => /\ reads = {} /\ details = {} /\ view.list.rows = {}
                             /\ view.editing = Nobody /\ errand.pc = "idle"

DirectoryInv ==
  /\ DirectoryTypeOK
  /\ NothingBeforeOpen
  /\ ReadsAreIssued
  /\ ErrandIsMade
  /\ NoticeIsTold
  /\ NoticeIsShown

LEMMA DirectoryInit == InitDirectory => DirectoryInv
<1> SUFFICES ASSUME InitDirectory PROVE DirectoryInv
  OBVIOUS
<1>1. /\ view.notice = NoNotice /\ view.newest = 0 /\ view.list.n = 0 /\ reads = {}
      /\ errand.pc = "idle"
  BY DEF InitDirectory, NoList, NoErrand
<1>2. DirectoryTypeOK
  BY DEF InitDirectory, DirectoryTypeOK, Screenful, List, NoList, Notice, NoNotice, Errand, NoErrand
<1>3. ReadsAreIssued
  BY <1>1 DEF InitDirectory, ReadsAreIssued
<1>4. NothingBeforeOpen
  BY DEF InitDirectory, NothingBeforeOpen, NoList, NoErrand
<1> QED BY <1>1, <1>2, <1>3, <1>4 DEF DirectoryInv, ErrandIsMade, NoticeIsTold, NoticeIsShown

\* The people change, and the errand may be what changed them.
LEMMA EditionGrows ==
  ASSUME DirectoryInv, NEW b \in Branches, Changed(b)
  PROVE  /\ edition' \in [Branches -> Nat] /\ edition'[b] = edition[b] + 1
         /\ \A c \in Branches : edition[c] \in Nat /\ edition[c] <= edition'[c]
BY DEF DirectoryInv, DirectoryTypeOK, Changed

\* The server's steps, which leave the page and its reads alone.
LEMMA ServerStep ==
  ASSUME DirectoryInv, home' \in [Persons -> Branches \cup {Nowhere}], edition' \in [Branches -> Nat],
         \A b \in Branches : edition[b] <= edition'[b],
         NEW e \in Errand, errand' = e,
         e.pc # "idle" => e.of \in Branches /\ errand.pc # "idle",
         e.pc \in {"done", "reloading"} => e.edition <= edition'[e.of],
         e.pc = "reloading" => e = errand,
         UNCHANGED <<view, reads, details, issued, clicks>>
  PROVE  DirectoryInv'
<1>1. DirectoryTypeOK'
  BY DEF DirectoryInv, DirectoryTypeOK
<1>2. ReadsAreIssued' /\ NoticeIsShown'
  BY DEF DirectoryInv, ReadsAreIssued, NoticeIsShown
<1>3. ErrandIsMade'
  BY DEF DirectoryInv, ErrandIsMade, Tells
<1>4. NoticeIsTold'
  <2>1. view.notice.edition \in Nat /\ \A b \in Branches : edition[b] \in Nat /\ edition'[b] \in Nat
    BY DEF DirectoryInv, DirectoryTypeOK, Screenful, Notice
  <2> QED BY <2>1 DEF DirectoryInv, NoticeIsTold, Tells
<1>5. NothingBeforeOpen'
  BY DEF DirectoryInv, NothingBeforeOpen
<1> QED BY <1>1, <1>2, <1>3, <1>4, <1>5 DEF DirectoryInv

LEMMA ErrandKnown ==
  ASSUME DirectoryInv
  PROVE  /\ errand \in Errand /\ errand.edition \in Nat /\ errand.n \in Nat
         /\ errand.pc # "idle" => errand.of \in Branches
         /\ edition \in [Branches -> Nat] /\ home \in [Persons -> Branches \cup {Nowhere}]
         /\ NoErrand \in Errand /\ NoErrand.pc = "idle"
BY DEF DirectoryInv, DirectoryTypeOK, Errand, NoErrand

LEMMA ErrandDone ==
  ASSUME DirectoryInv, errand.pc = "asked", Changed(errand.of),
         home' \in [Persons -> Branches \cup {Nowhere}],
         errand' = [errand EXCEPT !.pc = "done", !.edition = edition[errand.of] + 1],
         UNCHANGED <<view, reads, details, issued, clicks>>
  PROVE  DirectoryInv'
<1> DEFINE n == edition[errand.of] + 1
           e == [errand EXCEPT !.pc = "done", !.edition = n]
<1>1. errand.of \in Branches /\ edition[errand.of] \in Nat /\ n \in Nat
  BY ErrandKnown
<1>6. errand' = e /\ n = edition[errand.of] + 1
  OBVIOUS
<1> HIDE DEF n
<1>2. e \in Errand /\ e.pc = "done" /\ e.of = errand.of /\ e.edition = n
  BY <1>1, ErrandKnown DEF Errand
<1>3. edition' \in [Branches -> Nat] /\ \A b \in Branches : edition[b] <= edition'[b]
  BY <1>1, EditionGrows
<1>4. edition'[errand.of] = edition[errand.of] + 1
  BY <1>1, EditionGrows
<1> HIDE DEF e
<1>5. \A c \in Branches : edition'[c] \in Nat
  BY <1>3
<1> QED BY <1>1, <1>2, <1>3, <1>4, <1>5, <1>6, ServerStep

LEMMA CreateKeeps == ASSUME DirectoryInv, Create PROVE DirectoryInv'
<1>1. home' \in [Persons -> Branches \cup {Nowhere}]
  BY ErrandKnown DEF Create, At
<1> QED BY <1>1, ErrandDone DEF Create

\* A change is of the location the request names: the person was found there.
LEMMA ChangeKeeps == ASSUME DirectoryInv, Change PROVE DirectoryInv'
<1>1. home[errand.person] = errand.of
  BY DEF Change, Found
<1> QED BY <1>1, ErrandDone, ErrandKnown DEF Change

LEMMA RefuseKeeps == ASSUME DirectoryInv, Refuse PROVE DirectoryInv'
<1> DEFINE e == [errand EXCEPT !.pc = "refused"]
<1>1. e \in Errand /\ e.pc = "refused" /\ e.of = errand.of /\ errand' = e
  BY ErrandKnown DEF Refuse, Errand
<1>2. \A b \in Branches : edition[b] <= edition[b]
  BY ErrandKnown
<1> HIDE DEF e
<1> QED BY <1>1, <1>2, ErrandKnown, ServerStep DEF Refuse

LEMMA PeopleElsewhereKeep == ASSUME DirectoryInv, NEW b \in Branches, ChangeElsewhere(b) PROVE DirectoryInv'
<1>1. home' \in [Persons -> Branches \cup {Nowhere}]
  BY ErrandKnown DEF ChangeElsewhere, At
<1>2. edition' \in [Branches -> Nat] /\ \A c \in Branches : edition[c] \in Nat /\ edition[c] <= edition'[c]
  BY EditionGrows DEF ChangeElsewhere
<1>3. errand.pc \in {"done", "reloading"} => errand.edition <= edition'[errand.of]
  BY <1>2, ErrandKnown DEF DirectoryInv, ErrandIsMade
<1> QED BY <1>1, <1>2, <1>3, ErrandKnown, ServerStep DEF ChangeElsewhere

\* A read is served with what the people are now, which is no older than any change
\* that is told of.
LEMMA ServedKeeps == ASSUME DirectoryInv, NEW r \in reads, ServeRead(r) PROVE DirectoryInv'
<1> DEFINE s == [n |-> r.n, of |-> r.of, served |-> TRUE, edition |-> edition[r.of], rows |-> At(r.of)]
<1>1. r \in Read /\ edition[r.of] \in Nat /\ At(r.of) \in SUBSET Persons
  BY ErrandKnown DEF DirectoryInv, DirectoryTypeOK, Read, At
<1>2. /\ s \in Read /\ s.n = r.n /\ s.of = r.of /\ s.edition = edition[r.of]
      /\ reads' = (reads \ {r}) \cup {s}
      /\ UNCHANGED <<home, edition, view, details, errand, issued, clicks>>
  BY <1>1 DEF ServeRead, Read
<1> HIDE DEF s
<1>3. DirectoryTypeOK'
  BY <1>2 DEF DirectoryInv, DirectoryTypeOK
<1>4. ReadsAreIssued' /\ NoticeIsShown'
  BY <1>2 DEF DirectoryInv, ReadsAreIssued, NoticeIsShown
<1>5. ErrandIsMade'
  BY <1>2 DEF DirectoryInv, ErrandIsMade, Tells
<1>6. NoticeIsTold'
  BY <1>2 DEF DirectoryInv, NoticeIsTold, Tells
<1>7. NothingBeforeOpen'
  BY <1>2 DEF DirectoryInv, NothingBeforeOpen
<1> QED BY <1>3, <1>4, <1>5, <1>6, <1>7 DEF DirectoryInv

\* A step of the page that shows nothing new: it may ask for one more list.
LEMMA PageStep ==
  ASSUME DirectoryInv, NEW v \in Screenful, view' = v, v.list = view.list, v.newest = view.newest,
         v.location \in Branches,
         v.notice \in {view.notice, NoNotice},
         NEW e \in Errand, errand' = e, e.pc # "idle" => e.of \in Branches,
         e.pc \in {"done", "reloading"} => errand.pc \in {"done", "reloading"} /\ e.of = errand.of
                                           /\ e.edition = errand.edition,
         e.pc = "reloading" => e = errand \/ (errand.pc = "done" /\ e.n = issued + 1 /\ Asked(e.of)),
         (reads' = reads /\ issued' = issued) \/ \E b \in Branches : Asked(b),
         details' \subseteq Detail, clicks' \in Nat, UNCHANGED <<home, edition>>
  PROVE  DirectoryInv'
<1>0. issued \in Nat /\ \A r \in reads : r \in Read /\ r.n \in Nat /\ r.n <= issued /\ r.n # issued + 1
  BY DEF DirectoryInv, DirectoryTypeOK, ReadsAreIssued, Read
<1>1. /\ issued' \in Nat /\ issued <= issued' /\ reads' \subseteq Read
      /\ \A r \in reads' : r \in reads \/ (r.n = issued + 1 /\ r.n <= issued' /\ ~r.served)
  <2>1. CASE reads' = reads /\ issued' = issued
    BY <1>0, <2>1
  <2>2. CASE \E b \in Branches : Asked(b)
    <3>1. PICK b \in Branches : Asked(b)
      BY <2>2
    <3> DEFINE q == [n |-> issued + 1, of |-> b, served |-> FALSE, edition |-> 0, rows |-> {}]
    <3>2. q \in Read /\ q.n = issued + 1 /\ ~q.served
      BY <1>0 DEF Read
    <3>3. issued' = issued + 1 /\ reads' = reads \cup {q}
      BY <3>1 DEF Asked
    <3> HIDE DEF q
    <3> QED BY <1>0, <3>2, <3>3
  <2> QED BY <2>1, <2>2
<1>2. DirectoryTypeOK'
  BY <1>1 DEF DirectoryInv, DirectoryTypeOK
<1>3. ReadsAreIssued'
  <2>1. view.newest \in Nat /\ view.list.n \in Nat
    BY DEF DirectoryInv, DirectoryTypeOK, Screenful, List
  <2> QED BY <1>0, <1>1, <2>1 DEF DirectoryInv, ReadsAreIssued
<1>4. ErrandIsMade'
  <2>1. e.pc \in {"done", "reloading"} => e.edition <= edition[e.of]
    BY DEF DirectoryInv, ErrandIsMade
  <2>2. CASE e.pc = "reloading" /\ e = errand
    <3>1. e.n <= issued /\ e.n \in Nat
      BY <2>2, ErrandKnown DEF DirectoryInv, ErrandIsMade
    <3>2. \A r \in reads' : r.n = e.n => r \in reads
      BY <1>0, <1>1, <3>1
    <3> QED BY <1>0, <1>1, <2>1, <2>2, <3>1, <3>2 DEF DirectoryInv, ErrandIsMade, Tells
  <2>3. CASE e.pc = "reloading" /\ e.n = issued + 1 /\ Asked(e.of)
    <3>1. issued' = issued + 1 /\ \A r \in reads' : r \in reads \/ (r.n = issued + 1 /\ r.of = e.of /\ ~r.served)
      BY <2>3 DEF Asked
    <3>2. \A r \in reads : ~(r.n >= issued + 1)
      BY <1>0
    <3> QED BY <1>0, <2>1, <2>3, <3>1, <3>2 DEF ErrandIsMade, Tells
  <2> QED BY <2>1, <2>2, <2>3 DEF ErrandIsMade
<1>5. NoticeIsTold'
  BY <1>1 DEF DirectoryInv, NoticeIsTold, Tells
<1>6. NoticeIsShown'
  BY DEF DirectoryInv, NoticeIsShown
<1>7. NothingBeforeOpen'
  BY DirectoryAssumption DEF NothingBeforeOpen
<1> QED BY <1>2, <1>3, <1>4, <1>5, <1>6, <1>7 DEF DirectoryInv

\* The fields a step of the page may set.
LEMMA PageKnown ==
  ASSUME DirectoryInv
  PROVE  /\ view \in Screenful /\ reads \subseteq Read /\ details \subseteq Detail
         /\ issued \in Nat /\ clicks \in Nat /\ NoNotice \in Notice
BY DEF DirectoryInv, DirectoryTypeOK, Notice, NoNotice

LEMMA OpenKeeps == ASSUME DirectoryInv, NEW b \in Branches, OpenDirectory(b) PROVE DirectoryInv'
<1> DEFINE v == [view EXCEPT !.location = b]
<1>1. v \in Screenful /\ v.list = view.list /\ v.newest = view.newest /\ v.notice = view.notice
      /\ v.location \in Branches
  BY PageKnown DEF Screenful
<1>2. view' = v /\ Asked(b) /\ UNCHANGED <<home, edition, details, errand, clicks>>
  BY DEF OpenDirectory
<1> HIDE DEF v
<1> QED BY <1>1, <1>2, PageKnown, ErrandKnown, PageStep

LEMMA ChooseKeeps == ASSUME DirectoryInv, NEW b \in Branches, ChooseBranch(b) PROVE DirectoryInv'
<1> DEFINE v == [view EXCEPT !.location = b, !.editing = Nobody]
<1>1. v \in Screenful /\ v.list = view.list /\ v.newest = view.newest /\ v.notice = view.notice
      /\ v.location \in Branches
  BY PageKnown DEF Screenful
<1>2. /\ view' = v /\ Asked(b) /\ clicks' \in Nat
      /\ UNCHANGED <<home, edition, details, errand>>
  BY PageKnown DEF ChooseBranch, Click
<1> HIDE DEF v
<1> QED BY <1>1, <1>2, PageKnown, ErrandKnown, PageStep


LEMMA Opened ==
  ASSUME DirectoryInv, reads # {} \/ details # {} \/ view.list.rows # {} \/ view.editing # Nobody
                       \/ errand.pc # "idle"
  PROVE  view.location \in Branches
BY PageKnown DEF DirectoryInv, NothingBeforeOpen, Screenful

LEMMA EditKeeps == ASSUME DirectoryInv, NEW p \in Persons, EditPerson(p) PROVE DirectoryInv'
<1>1. view.location \in Branches
  BY Opened DEF EditPerson
<1>2. details' \subseteq Detail /\ clicks' \in Nat
  BY <1>1, PageKnown DEF EditPerson, Detail, Click
<1>3. UNCHANGED <<home, edition, view, reads, errand, issued>>
  BY DEF EditPerson
<1> QED BY <1>1, <1>2, <1>3, PageKnown, ErrandKnown, PageStep

LEMMA FormStep ==
  ASSUME DirectoryInv, view.location \in Branches, NEW x \in Persons \cup {Nobody},
         view' = [view EXCEPT !.editing = x],
         NEW e \in Errand, errand' = e, e.pc # "idle" => e.of \in Branches,
         e.pc \in {"done", "reloading"} => errand.pc \in {"done", "reloading"} /\ e.of = errand.of
                                           /\ e.edition = errand.edition,
         e.pc = "reloading" => e = errand \/ (errand.pc = "done" /\ e.n = issued + 1 /\ Asked(e.of)),
         (reads' = reads /\ issued' = issued) \/ \E b \in Branches : Asked(b),
         details' \subseteq Detail, clicks' \in Nat, UNCHANGED <<home, edition>>
  PROVE  DirectoryInv'
<1> DEFINE v == [view EXCEPT !.editing = x]
<1>1. v \in Screenful /\ v.list = view.list /\ v.newest = view.newest /\ v.notice = view.notice
      /\ v.location = view.location /\ view' = v
  BY PageKnown DEF Screenful
<1> HIDE DEF v
<1> QED BY <1>1, PageStep

LEMMA FillKeeps == ASSUME DirectoryInv, NEW d \in details, FillForm(d) PROVE DirectoryInv'
<1>1. view.location \in Branches
  BY Opened
<1>2. details' \subseteq Detail /\ d.person \in Persons
  BY PageKnown DEF FillForm, Detail
<1>3. UNCHANGED <<home, edition, reads, errand, issued, clicks>>
  BY DEF FillForm
<1>4. CASE view' = [view EXCEPT !.editing = d.person]
  BY <1>1, <1>2, <1>3, <1>4, PageKnown, ErrandKnown, FormStep
<1>5. CASE view' = view
  BY <1>1, <1>2, <1>3, <1>5, PageKnown, ErrandKnown, PageStep
<1> QED BY <1>4, <1>5 DEF FillForm

LEMMA ResetKeeps == ASSUME DirectoryInv, ResetForm PROVE DirectoryInv'
<1>1. view.location \in Branches
  BY Opened DEF ResetForm
<1>2. /\ view' = [view EXCEPT !.editing = Nobody] /\ clicks' \in Nat
      /\ UNCHANGED <<home, edition, reads, details, errand, issued>>
  BY PageKnown DEF ResetForm, Click
<1> QED BY <1>1, <1>2, PageKnown, ErrandKnown, FormStep

LEMMA SendKeeps ==
  ASSUME DirectoryInv, NEW p \in Persons \cup {Nobody}, NEW form \in BOOLEAN, Send(p, form)
  PROVE  DirectoryInv'
<1> DEFINE v == [view EXCEPT !.notice = NoNotice]
           l == view.location
           e == [NoErrand EXCEPT !.pc = "asked", !.of = l, !.person = p, !.form = form]
<1>1. l \in Branches
  BY PageKnown DEF Screenful, Send
<1>2. v \in Screenful /\ v.list = view.list /\ v.newest = view.newest /\ v.notice = NoNotice
      /\ v.location \in Branches
  BY <1>1, PageKnown DEF Screenful
<1>3. /\ view' = v /\ errand' = e /\ clicks' \in Nat
      /\ UNCHANGED <<home, edition, reads, details, issued>>
  BY PageKnown DEF Send, Click
<1> HIDE DEF v, l
<1>4. e \in Errand /\ e.pc = "asked" /\ e.of \in Branches
  BY <1>1 DEF Errand, NoErrand
<1> HIDE DEF e
<1> QED BY <1>2, <1>3, <1>4, PageKnown, PageStep

LEMMA SaveKeeps == ASSUME DirectoryInv, SavePerson PROVE DirectoryInv'
<1>1. view.editing \in Persons \cup {Nobody}
  BY PageKnown DEF Screenful
<1> QED BY <1>1, SendKeeps DEF SavePerson

LEMMA ActKeeps == ASSUME DirectoryInv, NEW p \in Persons, ActOn(p) PROVE DirectoryInv'
BY SendKeeps DEF ActOn

LEMMA ReloadKeeps == ASSUME DirectoryInv, ReloadAfter PROVE DirectoryInv'
<1> DEFINE x == IF errand.form THEN Nobody ELSE view.editing
           m == issued + 1
           e == [errand EXCEPT !.pc = "reloading", !.n = m]
<1>1. view.location \in Branches /\ x \in Persons \cup {Nobody} /\ m \in Nat
  BY Opened, PageKnown DEF ReloadAfter, Screenful
<1>2. /\ errand' = e /\ view' = [view EXCEPT !.editing = x] /\ Asked(errand.of)
      /\ errand.pc = "done" /\ m = issued + 1
      /\ UNCHANGED <<home, edition, details, clicks>>
  BY DEF ReloadAfter
<1> HIDE DEF x, m
<1>3. e \in Errand /\ e.pc = "reloading" /\ e.of = errand.of /\ e.edition = errand.edition /\ e.n = m
  BY <1>1, <1>2, ErrandKnown DEF Errand
<1> HIDE DEF e
<1>4. errand.of \in Branches
  BY <1>2, ErrandKnown
<1> QED BY <1>1, <1>2, <1>3, <1>4, PageKnown, FormStep

LEMMA GiveUpKeeps == ASSUME DirectoryInv, GiveUpErrand PROVE DirectoryInv'
<1>1. view.location \in Branches
  BY Opened DEF GiveUpErrand
<1>2. errand' = NoErrand /\ UNCHANGED <<home, edition, view, reads, details, issued, clicks>>
  BY DEF GiveUpErrand
<1> QED BY <1>1, <1>2, PageKnown, ErrandKnown, PageStep

LEMMA LoseKeeps == ASSUME DirectoryInv, NEW r \in reads, LoseRead(r) PROVE DirectoryInv'
<1>1. /\ reads' = reads \ {r} /\ UNCHANGED <<home, edition, view, details, issued, clicks>>
      /\ errand' \in {errand, NoErrand}
  BY DEF LoseRead
<1>2. DirectoryTypeOK'
  BY <1>1, ErrandKnown DEF DirectoryInv, DirectoryTypeOK
<1>3. ReadsAreIssued' /\ NoticeIsShown' /\ NoticeIsTold'
  BY <1>1 DEF DirectoryInv, ReadsAreIssued, NoticeIsShown, NoticeIsTold, Tells
<1>4. ErrandIsMade' /\ NothingBeforeOpen'
  BY <1>1, ErrandKnown DEF DirectoryInv, ErrandIsMade, NothingBeforeOpen, Tells
<1> QED BY <1>2, <1>3, <1>4 DEF DirectoryInv

\* A list is shown: it tells of the change that a notice given before, or now, names.
LEMMA ShowKeeps == ASSUME DirectoryInv, NEW r \in reads, ShowRead(r) PROVE DirectoryInv'
<1> DEFINE list == [n |-> r.n, of |-> r.of, edition |-> r.edition, rows |-> r.rows]
           told == [of |-> errand.of, edition |-> errand.edition]
           notice == IF Ends(r) THEN told ELSE view.notice
           newest == IF r.n > view.newest THEN r.n ELSE view.newest
<1>1. /\ r \in Read /\ r.served /\ r.n \in Nat /\ r.n <= issued /\ r.of \in Branches
      /\ r.edition \in Nat /\ view \in Screenful /\ view.newest \in Nat /\ issued \in Nat
      /\ \A q \in reads : q.n \in Nat
  BY PageKnown DEF DirectoryInv, ReadsAreIssued, ShowRead, Read, Screenful
<1>2. list \in List /\ list.n = r.n /\ list.of = r.of /\ list.edition = r.edition
  BY <1>1 DEF List, Read
<1>3. newest \in Nat /\ newest >= r.n /\ newest >= view.newest /\ newest <= issued
      /\ (newest = r.n \/ newest = view.newest)
  BY <1>1 DEF DirectoryInv, ReadsAreIssued
<1>4. Ends(r) => errand.pc = "reloading" /\ errand.n = r.n /\ errand.of \in Branches
  BY ErrandKnown DEF Ends
<1>5. told \in Notice /\ told.of = errand.of /\ told.edition = errand.edition
  BY ErrandKnown DEF Notice, Errand
<1>6. /\ reads' = reads \ {r} /\ UNCHANGED <<home, edition, details, issued, clicks>>
      /\ errand' = IF Ends(r) THEN NoErrand ELSE errand
      /\ view' = [IF Ends(r) THEN [view EXCEPT !.notice = told] ELSE view EXCEPT
                    !.list = list, !.newest = IF r.n > @ THEN r.n ELSE @]
  BY DEF ShowRead, Confirmed
<1> HIDE DEF list, told
<1>7. notice \in Notice
  BY <1>1, <1>5 DEF Screenful
<1>8. view' = [view EXCEPT !.notice = notice, !.list = list, !.newest = newest]
  BY <1>1, <1>6 DEF Screenful
<1>9. Ends(r) => notice = told
  OBVIOUS
<1>10. ~Ends(r) => notice = view.notice
  OBVIOUS
<1> HIDE DEF notice, newest
<1>11. /\ view' \in Screenful /\ view'.notice = notice /\ view'.list = list /\ view'.newest = newest
       /\ view'.location = view.location
  BY <1>1, <1>2, <1>3, <1>7, <1>8 DEF Screenful
<1>12. view.location \in Branches
  BY Opened
<1>13. DirectoryTypeOK'
  BY <1>6, <1>11, ErrandKnown DEF DirectoryInv, DirectoryTypeOK
<1>14. ReadsAreIssued'
  BY <1>2, <1>3, <1>6, <1>11 DEF DirectoryInv, ReadsAreIssued
<1>15. ErrandIsMade' /\ NothingBeforeOpen'
  BY <1>6, <1>11, <1>12, ErrandKnown, DirectoryAssumption
     DEF DirectoryInv, ErrandIsMade, NothingBeforeOpen, Tells
<1>16. notice # NoNotice =>
         /\ notice.of \in Branches /\ notice.edition \in Nat
         /\ notice.edition <= edition[notice.of]
         /\ \A q \in reads : Tells(q, notice.of, newest, notice.edition)
  <2>1. CASE Ends(r)
    <3>1. /\ errand.edition <= edition[errand.of]
          /\ \A q \in reads : Tells(q, errand.of, errand.n, errand.edition)
      BY <1>4, <2>1 DEF DirectoryInv, ErrandIsMade
    <3>2. \A q \in reads : q.n >= newest => q.n >= errand.n
      BY <1>1, <1>3, <1>4, <2>1
    <3> QED BY <1>4, <1>5, <1>9, <2>1, <3>1, <3>2, ErrandKnown DEF Tells
  <2>2. CASE ~Ends(r)
    <3>1. \A q \in reads : q.n >= newest => q.n >= view.newest
      BY <1>1, <1>3
    <3> QED BY <1>7, <1>10, <2>2, <3>1 DEF DirectoryInv, NoticeIsTold, Tells, Notice
  <2> QED BY <2>1, <2>2
<1>17. NoticeIsTold'
  BY <1>6, <1>11, <1>16 DEF NoticeIsTold, Tells
<1>18. NoticeIsShown'
  <2>1. notice # NoNotice /\ r.of = notice.of /\ r.n = newest => r.edition >= notice.edition
    BY <1>1, <1>3, <1>16 DEF Tells
  <2> QED BY <1>2, <1>11, <2>1 DEF NoticeIsShown
<1> QED BY <1>13, <1>14, <1>15, <1>17, <1>18 DEF DirectoryInv

LEMMA DirectoryStep == ASSUME DirectoryInv, [NextDirectory]_directoryVars PROVE DirectoryInv'
<1>1. CASE UNCHANGED directoryVars
  BY <1>1 DEF directoryVars, DirectoryInv, DirectoryTypeOK, NothingBeforeOpen, ReadsAreIssued,
              ErrandIsMade, NoticeIsTold, NoticeIsShown, Tells
<1> QED BY <1>1, CreateKeeps, ChangeKeeps, RefuseKeeps, PeopleElsewhereKeep, OpenKeeps, ChooseKeeps,
           EditKeeps, ActKeeps, FillKeeps, ServedKeeps, ShowKeeps, LoseKeeps, ResetKeeps, SaveKeeps,
           ReloadKeeps, GiveUpKeeps DEF NextDirectory

\* The invariant holds, for any people, locations and number of reads.
THEOREM DirectorySafe == SpecDirectory => []DirectoryInv
<1>1. InitDirectory => DirectoryInv
  BY DirectoryInit
<1>2. DirectoryInv /\ [NextDirectory]_directoryVars => DirectoryInv'
  BY DirectoryStep
<1> QED BY <1>1, <1>2, PTL DEF SpecDirectory

\* The page, its reads and the act under way keep their types.
THEOREM DirectoryTypes == SpecDirectory => []DirectoryTypeOK
<1>1. DirectoryInv => DirectoryTypeOK
  BY DEF DirectoryInv
<1> QED BY <1>1, DirectorySafe, PTL

\* What the page says was done is in the list it shows, if that is of the location it
\* was done at, whichever location the form or the list was of.
THEOREM NoticeIsTrue == SpecDirectory => []NoticeIsShown
<1>1. DirectoryInv => NoticeIsShown
  BY DEF DirectoryInv
<1> QED BY <1>1, DirectorySafe, PTL
=============================================================================
