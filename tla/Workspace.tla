----------------------------- MODULE Workspace ------------------------------
(***************************************************************************)
(* The page on which scans are made and followed: the records of the       *)
(* selected location, filtered and read page by page, polled while a scan  *)
(* is not settled, and read again after a scan or a cancellation; and the  *)
(* people of the location.                                                 *)
(*                                                                         *)
(* Calls are answered later, out of order, or fail, and a handler goes on  *)
(* with the location and the query of the render that started it. A change *)
(* of the state and the effects it runs are one step. The licence allows   *)
(* sending; a session is in or out.                                        *)
(***************************************************************************)
EXTENDS Naturals, Sequences, FiniteSets

CONSTANTS
  Locations,
  PageSize,   \* records on a page (25)
  MaxPolls,   \* polls since the last reset (10)
  MaxScans,   \* bound: scans
  MaxCalls,   \* bound: calls for records under way
  MaxActs,    \* bound: acts of the user
  None        \* null

ASSUME ConstantsAssumption ==
  /\ None \notin Locations
  /\ PageSize \in Nat \ {0} /\ MaxPolls \in Nat
  /\ MaxScans \in Nat /\ MaxCalls \in Nat \ {0} /\ MaxActs \in Nat

VARIABLES
  scans,    \* the server's scans, oldest first
  page,     \* the state of the page
  calls,    \* calls for records under way
  people,   \* whose people are shown, and the calls for them under way
  loads,    \* calls for the session ("me") and for the locations under way
  submit,   \* the scan that is submitted
  cancel,   \* the cancellation under way
  acts

vars == <<scans, page, calls, people, loads, submit, cancel, acts>>

Places == Locations \cup {None}
Filters == {"all", "waiting", "inverted"}   \* the dates of "inverted" end before they start
Cursors == 0..MaxScans                      \* 0 begins at the newest
Query == [location : Places, filter : Filters, cursor : Cursors]

Statuses == {"waiting", "settled"}
Scan == [location : Locations, status : Statuses]
Rows == UNION {[s -> Statuses] : s \in SUBSET (1..MaxScans)}
NoRows == [i \in {} |-> "waiting"]

\* "of" is the query whose answer the rows are. "crossed" and "stranded" are
\* history: a load for another view than the selected one was made since; a load
\* in the background took the place of one whose end the page waits for.
Page == [in : BOOLEAN, location : Places, filter : Filters, cursors : Seq(Cursors), at : Nat,
         rows : Rows, of : Query, next : Cursors, loading : BOOLEAN, failed : BOOLEAN,
         polls : 0..MaxPolls, crossed : BOOLEAN, stranded : BOOLEAN]

\* What the server has answered travels with the call; the answer to a superseded
\* call is never looked at, and left out.
Call == [query : Query, background : BOOLEAN, latest : BOOLEAN, served : BOOLEAN,
         rows : Rows, next : Cursors]

ViewOf(p) == [location |-> p.location, filter |-> p.filter, cursor |-> p.cursors[p.at]]
View == ViewOf(page)
NoView == [location |-> None, filter |-> "all", cursor |-> 0]
Resting == [pc |-> "idle", scan |-> 0, view |-> NoView]

Init ==
  /\ scans = <<>>
  /\ page = [in |-> FALSE, location |-> None, filter |-> "all", cursors |-> <<0>>, at |-> 1,
             rows |-> NoRows, of |-> NoView, next |-> 0, loading |-> FALSE, failed |-> FALSE,
             polls |-> 0, crossed |-> FALSE, stranded |-> FALSE]
  /\ calls = {}
  /\ people = [of |-> None, calls |-> {}]
  /\ loads = {"me"}
  /\ submit = Resting /\ cancel = Resting
  /\ acts = 0

-----------------------------------------------------------------------------
(***************************************************************************)
(* The server.                                                             *)
(***************************************************************************)
Matching(q) ==
  {i \in 1..Len(scans) :
     /\ scans[i].location = q.location
     /\ q.filter = "waiting" => scans[i].status = "waiting"
     /\ q.filter # "inverted"
     /\ q.cursor # 0 => i < q.cursor}

Newest(ids) == {i \in ids : Cardinality({j \in ids : j > i}) < PageSize}
Oldest(ids) == CHOOSE i \in ids : \A j \in ids : i <= j

Serve(c) ==
  /\ c.latest /\ ~c.served
  /\ LET found == Newest(Matching(c.query)) IN
       calls' = (calls \ {c}) \cup
         {[c EXCEPT !.served = TRUE,
                    !.rows = [i \in found |-> scans[i].status],
                    !.next = IF found = Matching(c.query) THEN 0 ELSE Oldest(found)]}
  /\ UNCHANGED <<scans, page, people, loads, submit, cancel, acts>>

Settle(i) ==
  /\ scans[i].status = "waiting"
  /\ scans' = [scans EXCEPT ![i].status = "settled"]
  /\ UNCHANGED <<page, calls, people, loads, submit, cancel, acts>>

\* A scan of another page or device.
ScanElsewhere(l) ==
  /\ Len(scans) < MaxScans
  /\ scans' = Append(scans, [location |-> l, status |-> "waiting"])
  /\ UNCHANGED <<page, calls, people, loads, submit, cancel, acts>>

-----------------------------------------------------------------------------
(***************************************************************************)
(* What a change of the page's state leads to.                             *)
(***************************************************************************)
StillLatest == calls
Superseded ==
  {[c EXCEPT !.latest = FALSE, !.served = FALSE, !.rows = NoRows, !.next = 0] : c \in calls}

NewCall(query, background) ==
  [query |-> query, background |-> background, latest |-> TRUE, served |-> FALSE,
   rows |-> NoRows, next |-> 0]

\* A load of records takes the place of every earlier one.
Load(p, query, background) ==
  /\ Cardinality(calls) < MaxCalls
  /\ calls' = Superseded \cup {NewCall(query, background)}
  /\ page' = [p EXCEPT !.loading = @ \/ ~background, !.failed = FALSE,
                       !.crossed = @ \/ query # ViewOf(p),
                       !.stranded = background /\ p.loading]

AtFirstPage(p) == [p EXCEPT !.cursors = <<0>>, !.at = 1, !.next = 0, !.polls = 0]

Emptied(p) == [p EXCEPT !.rows = NoRows, !.of = ViewOf(p), !.next = 0, !.failed = FALSE,
                        !.polls = 0, !.crossed = FALSE, !.stranded = FALSE]

\* The effect of a change of the view: the records go, and are asked for again.
Follow(p) ==
  IF ~p.in \/ p.location = None
  THEN /\ page' = [Emptied(p) EXCEPT !.polls = p.polls, !.stranded = p.stranded]
       /\ calls' = Superseded
  ELSE IF p.filter = "inverted"
  THEN /\ page' = [Emptied(p) EXCEPT !.failed = TRUE, !.loading = FALSE]
       /\ calls' = Superseded
  ELSE Load(Emptied(p), ViewOf(p), FALSE)

Undropped(cs) == cs
Dropped(cs) == {[c EXCEPT !.dropped = TRUE] : c \in cs}

\* A change of the location, or of the session: an earlier call for people is dropped.
FollowPeople(l) ==
  people' = [of |-> IF l = None THEN None ELSE people.of,
             calls |-> Dropped(people.calls) \cup IF l = None THEN {} ELSE {[of |-> l, dropped |-> FALSE]}]

Select(p) == Follow(p) /\ FollowPeople(IF p.in THEN p.location ELSE None)

\* The session is over for the page; the filter stays.
SignOut ==
  Select(AtFirstPage([page EXCEPT !.in = FALSE, !.location = None]))

-----------------------------------------------------------------------------
(***************************************************************************)
(* Answers to the page.                                                    *)
(***************************************************************************)
StillLoading(c) == page.loading
LoadingAfter(c) == page.loading /\ c.background

ShowAnswer(c) ==
  page' = [page EXCEPT !.rows = c.rows, !.of = c.query, !.next = c.next,
                       !.loading = LoadingAfter(c), !.crossed = @ /\ c.query # View]

\* A late answer is not looked at; a refusal of the session ends it for the page.
ReceiveRecords(c) ==
  \/ /\ ~c.latest
     /\ calls' = calls \ {c}
     /\ UNCHANGED <<page, people>>
  \/ /\ c.latest /\ c.served
     /\ ShowAnswer(c)
     /\ calls' = calls \ {c}
     /\ UNCHANGED people
  \/ /\ c.latest
     /\ page' = [page EXCEPT !.failed = TRUE, !.loading = LoadingAfter(c)]
     /\ calls' = calls \ {c}
     /\ UNCHANGED people
  \/ c.latest /\ SignOut

ReceivePeople(c) ==
  \/ /\ people' = [of |-> IF c.dropped THEN people.of ELSE c.of, calls |-> people.calls \ {c}]
     /\ UNCHANGED <<page, calls>>
  \/ /\ ~c.dropped
     /\ people' = [of |-> None, calls |-> people.calls \ {c}]
     /\ UNCHANGED <<page, calls>>
  \/ ~c.dropped /\ SignOut

\* The session that was there when the page was opened, or a new one. A token that
\* is set again does not change.
Enter ==
  IF page.in THEN UNCHANGED <<page, calls, people>> ELSE Select([page EXCEPT !.in = TRUE])

ReceiveMe ==
  /\ "me" \in loads
  /\ \/ Enter /\ loads' = {"locations"}
     \/ SignOut /\ loads' = loads \ {"me"}
  /\ UNCHANGED <<scans, submit, cancel, acts>>

\* The selected location stays if it is still there; the page number always does.
ReceiveLocations ==
  /\ "locations" \in loads
  /\ loads' = loads \ {"locations"}
  /\ \/ \E active \in SUBSET Locations :
          \E l \in IF page.location \in active THEN {page.location}
                  ELSE IF active = {} THEN {None} ELSE active :
            IF l = page.location THEN UNCHANGED <<page, calls, people>>
            ELSE Select([page EXCEPT !.location = l])
     \/ SignOut
     \/ UNCHANGED <<page, calls, people>>
  /\ UNCHANGED <<scans, submit, cancel, acts>>

TakeScan ==
  /\ submit.pc = "sent" /\ Len(scans) < MaxScans
  /\ scans' = Append(scans, [location |-> submit.view.location, status |-> "waiting"])
  /\ submit' = [submit EXCEPT !.pc = "done"]
  /\ UNCHANGED <<page, calls, people, loads, cancel, acts>>

TakeCancel ==
  /\ cancel.pc = "sent" /\ scans[cancel.scan].status = "waiting"
  /\ scans' = [scans EXCEPT ![cancel.scan].status = "settled"]
  /\ cancel' = [cancel EXCEPT !.pc = "done"]
  /\ UNCHANGED <<page, calls, people, loads, submit, acts>>

\* After a scan the newest records are shown, unfiltered. After a failure, and
\* after a cancellation, those of the view in which it was asked for.
ReceiveSubmit ==
  /\ submit.pc # "idle"
  /\ \/ /\ submit.pc = "done"
        /\ Follow(AtFirstPage([page EXCEPT !.filter = "all"]))
        /\ UNCHANGED people
     \/ Load(page, submit.view, TRUE) /\ UNCHANGED people
     \/ SignOut
  /\ submit' = Resting
  /\ UNCHANGED <<scans, loads, cancel, acts>>

Canceled(i) ==
  IF i \in DOMAIN page.rows THEN [page EXCEPT !.rows[i] = "settled"] ELSE page

ReceiveCancel ==
  /\ cancel.pc # "idle"
  /\ \/ cancel.pc = "done" /\ Load(Canceled(cancel.scan), cancel.view, TRUE) /\ UNCHANGED people
     \/ Load(page, cancel.view, TRUE) /\ UNCHANGED people
     \/ SignOut
  /\ cancel' = Resting
  /\ UNCHANGED <<scans, loads, submit, acts>>

ShouldPoll(p) == p.polls < MaxPolls /\ \E i \in DOMAIN p.rows : p.rows[i] = "waiting"

\* The timer of the render in which a shown scan was waiting.
Poll ==
  /\ page.in /\ page.location # None /\ ~page.loading
  /\ ShouldPoll(page)
  /\ Load([page EXCEPT !.polls = @ + 1], View, TRUE)
  /\ UNCHANGED <<scans, people, loads, submit, cancel, acts>>

-----------------------------------------------------------------------------
(***************************************************************************)
(* The user.                                                               *)
(***************************************************************************)
Act == acts < MaxActs /\ acts' = acts + 1

Login ==
  /\ Act /\ ~page.in
  /\ Enter
  /\ loads' = loads \cup {"locations"}
  /\ UNCHANGED <<scans, submit, cancel>>

Logout ==
  /\ Act /\ page.in
  /\ SignOut
  /\ UNCHANGED <<scans, loads, submit, cancel>>

ChangeLocation(l) ==
  /\ Act /\ page.in /\ page.location \notin {None, l}
  /\ Select(AtFirstPage([page EXCEPT !.location = l]))
  /\ UNCHANGED <<scans, loads, submit, cancel>>

ChangeFilter(f) ==
  /\ Act /\ page.in
  /\ Follow(AtFirstPage([page EXCEPT !.filter = f]))
  /\ UNCHANGED <<scans, people, loads, submit, cancel>>

NextPage ==
  /\ Act /\ page.in /\ ~page.loading /\ ~page.failed /\ page.next # 0
  /\ Follow([page EXCEPT !.cursors = Append(SubSeq(@, 1, page.at), page.next), !.at = @ + 1])
  /\ UNCHANGED <<scans, people, loads, submit, cancel>>

PreviousPage ==
  /\ Act /\ page.in /\ ~page.loading /\ page.at > 1
  /\ Follow([page EXCEPT !.at = @ - 1])
  /\ UNCHANGED <<scans, people, loads, submit, cancel>>

Refresh ==
  /\ Act /\ page.in /\ ~page.loading /\ page.location # None
  /\ IF page.filter = "inverted"
     THEN page' = [page EXCEPT !.polls = 0] /\ UNCHANGED calls
     ELSE Load([page EXCEPT !.polls = 0], View, FALSE)
  /\ UNCHANGED <<scans, people, loads, submit, cancel>>

SubmitScan ==
  /\ Act /\ page.in /\ page.location # None /\ "locations" \notin loads
  /\ submit = Resting
  /\ submit' = [pc |-> "sent", scan |-> 0, view |-> View]
  /\ UNCHANGED <<scans, page, calls, people, loads, cancel>>

CancelScan(i) ==
  /\ Act /\ page.in /\ page.rows[i] = "waiting"
  /\ cancel = Resting
  /\ cancel' = [pc |-> "sent", scan |-> i, view |-> View]
  /\ UNCHANGED <<scans, page, calls, people, loads, submit>>

User ==
  \/ Login \/ Logout \/ NextPage \/ PreviousPage \/ Refresh \/ SubmitScan
  \/ \E l \in Locations : ChangeLocation(l)
  \/ \E f \in Filters : ChangeFilter(f)
  \/ \E i \in DOMAIN page.rows : CancelScan(i)

Server ==
  \/ \E c \in calls : Serve(c)
  \/ \E i \in 1..Len(scans) : Settle(i)
  \/ \E l \in Locations : ScanElsewhere(l)
  \/ TakeScan \/ TakeCancel

Records(c) == ReceiveRecords(c) /\ UNCHANGED <<scans, loads, submit, cancel, acts>>
People(c) == ReceivePeople(c) /\ UNCHANGED <<scans, loads, submit, cancel, acts>>

Answers ==
  \/ \E c \in calls : Records(c)
  \/ \E c \in people.calls : People(c)
  \/ ReceiveMe \/ ReceiveLocations \/ ReceiveSubmit \/ ReceiveCancel

Next == User \/ Server \/ Answers \/ Poll

Spec == Init /\ [][Next]_vars

-----------------------------------------------------------------------------
(***************************************************************************)
(* Properties.                                                             *)
(***************************************************************************)
\* The variables keep their types.
TypeOK ==
  /\ scans \in Seq(Scan) /\ Len(scans) <= MaxScans
  /\ page \in Page /\ page.at \in 1..Len(page.cursors)
  /\ calls \subseteq Call
  /\ people.of \in Places /\ people.calls \subseteq [of : Locations, dropped : BOOLEAN]
  /\ loads \subseteq {"me", "locations"}
  /\ \A op \in {submit, cancel} :
       op \in [pc : {"idle", "sent", "done"}, scan : 0..MaxScans, view : Query]
  /\ acts \in 0..MaxActs

\* A record that was shown settled, canceled here or reported so, is not shown
\* waiting again by an answer the server gave before.
SettledStaysShown ==
  [][\A i \in DOMAIN page.rows \cap DOMAIN page'.rows :
       page.rows[i] = "settled" => page'.rows[i] = "settled"]_vars

\* What is shown is what is selected, once it is answered: the records are those
\* of the selected location, filter and page, unless the last load was one that a
\* failed scan or a cancellation made for the view it was asked in, and the user
\* has gone on to another; the people are those of the selected location.
ShownIsSelected ==
  page.in =>
    /\ page.crossed \/ page.of = View
    /\ \/ people.of \in {None, page.location}
       \/ \E c \in people.calls : ~c.dropped /\ c.of = page.location

\* The records shown are those of the selected location, without the exception.
OnlySelectedRecords ==
  page.in /\ page.location # None /\ page.rows # NoRows => page.of.location = page.location

\* The page waits for records only while a load it waits for is under way, so that
\* refreshing and turning pages come back; but not once a load in the background
\* has taken its place.
WaitingIsAnswered ==
  page.in /\ page.location # None /\ page.loading /\ ~page.stranded
    => \E c \in calls : c.latest /\ ~c.background
=============================================================================
