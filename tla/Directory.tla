----------------------------- MODULE Directory ------------------------------
(***************************************************************************)
(* The page on which a manager looks after the people of a location. It    *)
(* has no guard against late answers: whatever list arrives is shown, and  *)
(* the answer to "edit" fills the form even if another location has been   *)
(* chosen since. Acts go one at a time, and each is followed by a reload;  *)
(* the choice of a location is never held up.                              *)
(*                                                                         *)
(* An act goes to the location that was chosen when it was asked for. What *)
(* it does to the person's row is in module Locations; here it counts.     *)
(***************************************************************************)
EXTENDS Naturals

CONSTANTS
  Branches,      \* locations
  Persons,
  MaxReads,      \* bound: reads of a list
  MaxClicks,     \* bound: acts of the manager
  MaxEditions,   \* bound: changes of the people of a branch
  Nowhere,       \* no location
  Nobody         \* no person

ASSUME DirectoryAssumption ==
  /\ Nowhere \notin Branches /\ Nobody \notin Persons
  /\ MaxReads \in Nat /\ MaxClicks \in Nat /\ MaxEditions \in Nat

VARIABLES
  home,      \* the location each person is at
  edition,   \* how often the people of a branch have changed
  view,      \* the page
  reads,     \* reads of a list under way
  details,   \* reads of a person under way, for the form
  errand,    \* "run": the act under way, then its reload
  issued,    \* reads of a list so far
  clicks

directoryVars == <<home, edition, view, reads, details, errand, issued, clicks>>

\* A list as the server read it; "n" is the number of the read.
List == [n : Nat, of : Branches \cup {Nowhere}, edition : Nat, rows : SUBSET Persons]
NoList == [n |-> 0, of |-> Nowhere, edition |-> 0, rows |-> {}]

Read == [n : Nat, of : Branches, served : BOOLEAN, edition : Nat, rows : SUBSET Persons]
Detail == [of : Branches, person : Persons]

\* What the page says was done: where, and which change it was. "none" says nothing.
Notice == [of : Branches \cup {Nowhere}, edition : Nat]
NoNotice == [of |-> Nowhere, edition |-> 0]

\* "newest" is history: the latest read whose answer was shown.
Screenful == [location : Branches \cup {Nowhere}, list : List, editing : Persons \cup {Nobody},
              newest : Nat, notice : Notice]

Errand == [pc : {"idle", "asked", "done", "refused", "reloading"},
           of : Branches \cup {Nowhere}, person : Persons \cup {Nobody}, form : BOOLEAN,
           edition : Nat, n : Nat]
NoErrand == [pc |-> "idle", of |-> Nowhere, person |-> Nobody, form |-> FALSE,
             edition |-> 0, n |-> 0]

InitDirectory ==
  /\ home \in [Persons -> Branches \cup {Nowhere}]
  /\ edition = [b \in Branches |-> 0]
  /\ view = [location |-> Nowhere, list |-> NoList, editing |-> Nobody, newest |-> 0,
             notice |-> NoNotice]
  /\ reads = {} /\ details = {}
  /\ errand = NoErrand
  /\ issued = 0 /\ clicks = 0

-----------------------------------------------------------------------------
(***************************************************************************)
(* The server.                                                             *)
(***************************************************************************)
At(b) == {p \in Persons : home[p] = b}

\* A person is looked up at the location the request names.
FoundAnywhere(p, b) == home[p] # Nowhere
Found(p, b) == home[p] = b

\* One more change of the people of a branch.
Changed(b) ==
  /\ edition[b] < MaxEditions
  /\ edition' = [edition EXCEPT ![b] = @ + 1]

\* Without a person the act is to create one.
Create ==
  /\ errand.pc = "asked" /\ errand.person = Nobody
  /\ \E p \in At(Nowhere) : home' = [home EXCEPT ![p] = errand.of]
  /\ Changed(errand.of)
  /\ errand' = [errand EXCEPT !.pc = "done", !.edition = edition[errand.of] + 1]
  /\ UNCHANGED <<view, reads, details, issued, clicks>>

Change ==
  /\ errand.pc = "asked" /\ errand.person # Nobody
  /\ Found(errand.person, errand.of)
  /\ Changed(home[errand.person])
  /\ errand' = [errand EXCEPT !.pc = "done", !.edition = edition[home[errand.person]] + 1]
  /\ UNCHANGED <<home, view, reads, details, issued, clicks>>

\* The person is not there, the location or the person is not in a state for it,
\* or the request fails.
Refuse ==
  /\ errand.pc = "asked"
  /\ errand' = [errand EXCEPT !.pc = "refused"]
  /\ UNCHANGED <<home, edition, view, reads, details, issued, clicks>>

\* Other managers, and the purge.
ChangeElsewhere(b) ==
  /\ Changed(b)
  /\ \/ UNCHANGED home
     \/ \E p \in At(Nowhere) : home' = [home EXCEPT ![p] = b]
     \/ \E p \in At(b) : home' = [home EXCEPT ![p] = Nowhere]
  /\ UNCHANGED <<view, reads, details, errand, issued, clicks>>

ServeRead(r) ==
  /\ ~r.served
  /\ reads' = (reads \ {r}) \cup
       {[n |-> r.n, of |-> r.of, served |-> TRUE, edition |-> edition[r.of], rows |-> At(r.of)]}
  /\ UNCHANGED <<home, edition, view, details, errand, issued, clicks>>

-----------------------------------------------------------------------------
(***************************************************************************)
(* The page.                                                               *)
(***************************************************************************)
Asked(b) ==
  /\ issued < MaxReads
  /\ issued' = issued + 1
  /\ reads' = reads \cup
       {[n |-> issued + 1, of |-> b, served |-> FALSE, edition |-> 0, rows |-> {}]}

\* The session and the locations are there: the first location is chosen, or the
\* one the address names.
OpenDirectory(b) ==
  /\ view.location = Nowhere
  /\ view' = [view EXCEPT !.location = b]
  /\ Asked(b)
  /\ UNCHANGED <<home, edition, details, errand, clicks>>

Click == clicks < MaxClicks /\ clicks' = clicks + 1

\* The list of the location that was chosen before stays until the answer.
ChooseBranch(b) ==
  /\ Click /\ view.location \notin {Nowhere, b}
  /\ view' = [view EXCEPT !.location = b, !.editing = Nobody]
  /\ Asked(b)
  /\ UNCHANGED <<home, edition, details, errand>>

Busy == errand.pc # "idle"

EditPerson(p) ==
  /\ Click /\ ~Busy /\ p \in view.list.rows
  /\ details' = details \cup {[of |-> view.location, person |-> p]}
  /\ UNCHANGED <<home, edition, view, reads, errand, issued>>

FillForm(d) ==
  /\ details' = details \ {d}
  /\ \/ Found(d.person, d.of) /\ view' = [view EXCEPT !.editing = d.person]
     \/ UNCHANGED view
  /\ UNCHANGED <<home, edition, reads, errand, issued, clicks>>

ResetForm ==
  /\ Click /\ view.editing # Nobody
  /\ view' = [view EXCEPT !.editing = Nobody]
  /\ UNCHANGED <<home, edition, reads, details, errand, issued>>

\* The location and the person are those of the render that was clicked in.
Send(p, form) ==
  /\ Click /\ ~Busy /\ view.location # Nowhere
  /\ errand' = [NoErrand EXCEPT !.pc = "asked", !.of = view.location, !.person = p, !.form = form]
  /\ view' = [view EXCEPT !.notice = NoNotice]
  /\ UNCHANGED <<home, edition, reads, details, issued>>

SavePerson == Send(view.editing, TRUE)
ActOn(p) == p \in view.list.rows /\ Send(p, FALSE)

Confirmed == [view EXCEPT !.notice = [of |-> errand.of, edition |-> errand.edition]]

\* What was done is reloaded, at the location it was done at; the form is emptied,
\* whatever it has been filled with since.
ReloadAfter ==
  /\ errand.pc = "done"
  /\ errand' = [errand EXCEPT !.pc = "reloading", !.n = issued + 1]
  /\ view' = [view EXCEPT !.editing = IF errand.form THEN Nobody ELSE @]
  /\ Asked(errand.of)
  /\ UNCHANGED <<home, edition, details, clicks>>

\* It was refused, or the answer is lost.
GiveUpErrand ==
  /\ errand.pc \in {"done", "refused"}
  /\ errand' = NoErrand
  /\ UNCHANGED <<home, edition, view, reads, details, issued, clicks>>

Ends(r) == errand.pc = "reloading" /\ errand.n = r.n

ShowRead(r) ==
  /\ r.served
  /\ reads' = reads \ {r}
  /\ view' = [IF Ends(r) THEN Confirmed ELSE view EXCEPT
                !.list = [n |-> r.n, of |-> r.of, edition |-> r.edition, rows |-> r.rows],
                !.newest = IF r.n > @ THEN r.n ELSE @]
  /\ errand' = IF Ends(r) THEN NoErrand ELSE errand
  /\ UNCHANGED <<home, edition, details, issued, clicks>>

LoseRead(r) ==
  /\ reads' = reads \ {r}
  /\ errand' = IF Ends(r) THEN NoErrand ELSE errand
  /\ UNCHANGED <<home, edition, view, details, issued, clicks>>

NextDirectory ==
  \/ Create \/ Change \/ Refuse
  \/ \E b \in Branches : ChangeElsewhere(b) \/ OpenDirectory(b) \/ ChooseBranch(b)
  \/ \E p \in Persons : EditPerson(p) \/ ActOn(p)
  \/ \E d \in details : FillForm(d)
  \/ \E r \in reads : ServeRead(r) \/ ShowRead(r) \/ LoseRead(r)
  \/ ResetForm \/ SavePerson \/ ReloadAfter \/ GiveUpErrand

SpecDirectory == InitDirectory /\ [][NextDirectory]_directoryVars

-----------------------------------------------------------------------------
(***************************************************************************)
(* Properties.                                                             *)
(***************************************************************************)
\* The variables keep their types.
DirectoryTypeOK ==
  /\ home \in [Persons -> Branches \cup {Nowhere}]
  /\ edition \in [Branches -> Nat]
  /\ view \in Screenful
  /\ reads \subseteq Read /\ details \subseteq Detail
  /\ errand \in Errand /\ (errand.pc # "idle" => errand.of \in Branches)
  /\ issued \in Nat /\ clicks \in Nat

\* What the page says was done is in the list it shows, if that is of the location
\* it was done at: the list was read after the act, and the act changed a person
\* of that location, although the form or the list it was asked for in may have
\* been of another. Except while an answer older than one shown before is shown.
NoticeIsShown ==
  view.notice # NoNotice /\ view.list.of = view.notice.of /\ view.list.n = view.newest
    => view.list.edition >= view.notice.edition
=============================================================================
