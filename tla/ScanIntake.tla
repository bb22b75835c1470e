----------------------------- MODULE ScanIntake -----------------------------
(***************************************************************************)
(* POST /api/scan-events: how a request becomes a scan event with its      *)
(* waiting mail job, is merged into a recent scan of the same person, or   *)
(* is answered from its Idempotency-Key, while other requests for the same *)
(* person or key, cancellations and clock ticks go on.                     *)
(*                                                                         *)
(* A request is modelled once: a client's retry is another request with    *)
(* the same key. The event it creates carries the request's name. Advisory *)
(* transaction locks are held exactly while their transaction is open, so  *)
(* the program counter of a request says which locks it holds.             *)
(***************************************************************************)
EXTENDS Naturals

CONSTANTS
  Requests,     \* HTTP requests, each also the name of the event it may create
  Keys,         \* Idempotency-Key values, of one tenant
  Persons,      \* person mappings, each of one location
  Actions,      \* entry and exit, as the code says
  Window,       \* ticks of the deduplication and cancellation window
  Ttl,          \* ticks an idempotency record is honoured
  MaxTime,      \* bound: the last tick
  MaxFailures,  \* bound: requests that are lost
  None          \* null

ASSUME ConstantsAssumption ==
  /\ Window \in Nat /\ Ttl \in Nat /\ MaxTime \in Nat /\ MaxFailures \in Nat
  /\ \A S \in {Requests, Keys, Persons, Actions} : None \notin S

VARIABLES
  clock,     \* the database's clock
  req,       \* the requests and how far each is
  event,     \* scan_events with the status of their mail job
  record,    \* scan_request_idempotencies
  cancel,    \* the stamp of an open cancel transaction of each event
  failures

vars == <<clock, req, event, record, cancel, failures>>

\* Answered, refused by a gate, in conflict, or lost with no answer.
Finished == {"answered", "denied", "conflict", "lost"}
PC == Finished \cup {"new", "received", "unreplayed", "begun", "keyed", "decided"}

Request == [pc : PC, key : Keys \cup {None}, person : Persons \cup {None},
            action : Actions \cup {None},
            received : Nat, at : Nat, merged : Requests \cup {None},
            answer : Requests \cup {None}, stored : BOOLEAN, done : Nat]
Event == [person : Persons, action : Actions, at : Nat, status : {"waiting", "claimed", "canceled"}]
Record == [person : Persons, action : Actions, event : Requests, expires : Nat]

ASSUME NoRowAssumption == None \notin Event \cup Record

NoRequest ==
  [pc |-> "new", key |-> None, person |-> None, action |-> None, received |-> 0, at |-> 0,
   merged |-> None, answer |-> None, stored |-> FALSE, done |-> 0]

Init ==
  /\ clock = 0
  /\ req = [r \in Requests |-> NoRequest]
  /\ event = [r \in Requests |-> None]
  /\ record = [k \in Keys |-> None]
  /\ cancel = [r \in Requests |-> None]
  /\ failures = 0

At(r, pc) == req[r].pc = pc
\* Ended with no scan: what the request asked for is forgotten.
Ended(r, pc) == [NoRequest EXCEPT !.pc = pc]
Advance(r, pc) == req' = [req EXCEPT ![r].pc = pc]

(***************************************************************************)
(* Before the transaction. The status of the location, the subscription    *)
(* and the person belong to other components and change at any time: a     *)
(* gate that reads them finds either value.                                *)
(***************************************************************************)
\* Code and key are well formed, requestReceivedAt is read, then the location.
Receive(r, k, p, action, active) ==
  /\ At(r, "new")
  /\ req' = [req EXCEPT ![r] =
       IF active THEN [@ EXCEPT !.pc = "received", !.key = k, !.person = p, !.action = action,
                                !.received = clock]
       ELSE Ended(r, "denied")]
  /\ UNCHANGED <<clock, event, record, cancel, failures>>

\* A record of the request's key that has not expired at the given stamp.
Recorded(r, now) ==
  /\ req[r].key # None
  /\ record[req[r].key] # None
  /\ record[req[r].key].expires > now

IgnoresFingerprint(r) == TRUE
SameFingerprint(r) ==
  /\ record[req[r].key].person = req[r].person
  /\ record[req[r].key].action = req[r].action

\* The answer of a request whose key has a record: the recorded scan, or a conflict.
Replayed(r) ==
  req' = [req EXCEPT ![r] =
           IF SameFingerprint(r)
           THEN [@ EXCEPT !.pc = "answered", !.answer = record[req[r].key].event, !.done = clock]
           ELSE Ended(r, "conflict")]

FastReplay(r) ==
  /\ At(r, "received")
  /\ IF Recorded(r, req[r].received) THEN Replayed(r) ELSE Advance(r, "unreplayed")
  /\ UNCHANGED <<clock, event, record, cancel, failures>>

(***************************************************************************)
(* The transaction. CURRENT_TIMESTAMP is its start, before its locks.      *)
(***************************************************************************)
\* The subscription, the location again and the active person of the code.
Admit(r, admitted) ==
  /\ At(r, "unreplayed")
  /\ req' = [req EXCEPT ![r] = IF admitted THEN [@ EXCEPT !.pc = "begun", !.at = clock]
                                           ELSE Ended(r, "denied")]
  /\ UNCHANGED <<clock, event, record, cancel, failures>>

KeyIgnored(k) == TRUE
KeptAfterCommit(k) ==
  \A s \in Requests : req[s].key = k => req[s].pc \notin {"keyed", "decided", "answered"}
KeyFree(k) == \A s \in Requests : req[s].key = k => req[s].pc \notin {"keyed", "decided"}

KeyGranted(r) == At(r, "begun") /\ req[r].key # None /\ KeyFree(req[r].key)

\* Takes the lock of the key, then looks for its record once more.
LockKey(r) ==
  /\ KeyGranted(r)
  /\ IF Recorded(r, req[r].at) THEN Replayed(r) ELSE Advance(r, "keyed")
  /\ UNCHANGED <<clock, event, record, cancel, failures>>

PersonIgnored(p) == TRUE
PersonFree(p) == \A s \in Requests : req[s].person = p => req[s].pc # "decided"

Active(e) == event[e] # None /\ event[e].status # "canceled"
Recent(r, e) == event[e].at + Window > req[r].at
\* The scans that stop this one, whatever their action.
Rivals(r) == {e \in Requests : Active(e) /\ event[e].person = req[r].person /\ Recent(r, e)}

LatestRivals(r) == {e \in Rivals(r) : \A f \in Rivals(r) : event[f].at <= event[e].at}

PersonGranted(r) ==
  /\ At(r, "keyed") \/ (At(r, "begun") /\ req[r].key = None)
  /\ PersonFree(req[r].person)

\* Takes the lock of the person, then looks for the latest scan in the window.
LockPerson(r) ==
  /\ PersonGranted(r)
  /\ \/ /\ Rivals(r) = {}
        /\ Advance(r, "decided")
     \/ \E e \in LatestRivals(r) :
          req' = [req EXCEPT ![r] =
            IF event[e].action = req[r].action
            THEN [@ EXCEPT !.pc = "decided", !.merged = e] ELSE Ended(r, "conflict")]
  /\ UNCHANGED <<clock, event, record, cancel, failures>>

Result(r) == IF req[r].merged = None THEN r ELSE req[r].merged

Stores(r) == req[r].key # None

\* The event with its waiting job unless merged, the key's record, the commit.
Commit(r) ==
  /\ At(r, "decided")
  /\ event' = IF req[r].merged = None
              THEN [event EXCEPT ![r] = [person |-> req[r].person, action |-> req[r].action,
                                         at |-> req[r].at, status |-> "waiting"]]
              ELSE event
  /\ record' = IF Stores(r)
               THEN [record EXCEPT ![req[r].key] =
                      [person |-> req[r].person, action |-> req[r].action,
                       event |-> Result(r), expires |-> req[r].at + Ttl]]
               ELSE record
  /\ req' = [req EXCEPT ![r] = [@ EXCEPT !.pc = "answered", !.answer = Result(r),
                                         !.stored = TRUE, !.done = clock]]
  /\ UNCHANGED <<clock, cancel, failures>>

\* A crash, a failed statement or a transaction timeout: rolled back, no answer.
Lose(r) ==
  /\ req[r].pc \notin Finished \cup {"new"}
  /\ failures < MaxFailures
  /\ failures' = failures + 1
  /\ req' = [req EXCEPT ![r] = Ended(r, "lost")]
  /\ UNCHANGED <<clock, event, record, cancel>>

(***************************************************************************)
(* Cancellation, the worker that takes the job, time.                      *)
(***************************************************************************)
\* A cancellation that begins later, or of a claimed job, changes nothing.
BeginCancel(e) ==
  /\ cancel[e] = None
  /\ event[e] # None /\ event[e].status = "waiting" /\ clock < event[e].at + Window
  /\ cancel' = [cancel EXCEPT ![e] = clock]
  /\ UNCHANGED <<clock, req, event, record, failures>>

CancelWaits(e) == PersonFree(event[e].person)

\* Under the lock of the person; the stamp is the start of its transaction.
FinishCancel(e) ==
  /\ cancel[e] # None
  /\ CancelWaits(e)
  /\ cancel' = [cancel EXCEPT ![e] = None]
  /\ event' = IF event[e].status = "waiting" /\ cancel[e] < event[e].at + Window
              THEN [event EXCEPT ![e].status = "canceled"] ELSE event
  /\ UNCHANGED <<clock, req, record, failures>>

\* A worker takes the job once its window is over (module MailDelivery).
ClaimJob(e) ==
  /\ event[e] # None /\ event[e].status = "waiting" /\ clock >= event[e].at + Window
  /\ event' = [event EXCEPT ![e].status = "claimed"]
  /\ UNCHANGED <<clock, req, record, cancel, failures>>

Tick ==
  /\ clock < MaxTime
  /\ clock' = clock + 1
  /\ UNCHANGED <<req, event, record, cancel, failures>>

-----------------------------------------------------------------------------
Handle(r) ==
  \/ FastReplay(r)
  \/ \E admitted \in BOOLEAN : Admit(r, admitted)
  \/ LockKey(r)
  \/ LockPerson(r)
  \/ Commit(r)

Arrive(r) ==
  \E k \in Keys \cup {None}, p \in Persons, action \in Actions, active \in BOOLEAN :
    Receive(r, k, p, action, active)

Next ==
  \/ \E r \in Requests : Arrive(r) \/ Handle(r) \/ Lose(r)
  \/ \E e \in Requests : BeginCancel(e) \/ FinishCancel(e) \/ ClaimJob(e)
  \/ Tick

Spec == Init /\ [][Next]_vars

-----------------------------------------------------------------------------
(***************************************************************************)
(* Properties.                                                             *)
(***************************************************************************)
\* The variables keep their types, and an answer is about some event.
TypeOK ==
  /\ clock \in Nat
  /\ req \in [Requests -> Request]
  /\ \A r \in Requests : At(r, "answered") => req[r].answer \in Requests
  /\ event \in [Requests -> Event \cup {None}]
  /\ record \in [Keys -> Record \cup {None}]
  /\ cancel \in [Requests -> Nat \cup {None}]
  /\ failures \in Nat

\* A person's scans that were not canceled are a whole window apart, whatever
\* requests race for the person's lock with stamps taken before they wait.
ScansAreSpaced ==
  \A e, f \in Requests :
    e # f /\ Active(e) /\ Active(f) /\ event[e].person = event[f].person
      => event[e].at + Window <= event[f].at \/ event[f].at + Window <= event[e].at

\* A key creates one event while its record lives, even if requests with the
\* key run side by side, wait for its lock or ask for different scans.
OneEventPerKey ==
  \A e, f \in Requests :
    e # f /\ event[e] # None /\ event[f] # None /\ req[e].key = req[f].key /\ req[e].key # None
      => event[e].at + Ttl <= event[f].at \/ event[f].at + Ttl <= event[e].at

\* The scan a request is told about is one of its own person and action.
AnswersMatch ==
  \A r \in Requests : At(r, "answered") =>
    /\ event[req[r].answer] # None
    /\ event[req[r].answer].person = req[r].person
    /\ event[req[r].answer].action = req[r].action

\* A scan is merged only into one that is still active when it commits: the
\* cancellation takes the same lock as the scan.
MergesIntoActive ==
  \A r \in Requests : At(r, "decided") /\ req[r].merged # None => Active(req[r].merged)

Repeats(s, r) ==
  /\ At(r, "answered") /\ req[r].stored /\ req[r].key # None
  /\ req[s].key = req[r].key
  /\ req[s].received > req[r].done /\ req[s].done < req[r].at + Ttl

\* Whoever repeats a request after it was answered, before its record expires,
\* is told of the same scan, also when that scan was merged or canceled since.
RepeatGetsSameScan ==
  \A r, s \in Requests : Repeats(s, r) /\ At(s, "answered") => req[s].answer = req[r].answer

Pending(r) == req[r].pc \notin Finished \cup {"new"}

\* A request waits for nothing but its two locks. (Handle is enabled.)
CanGoOn(r) ==
  \/ req[r].pc \in {"received", "unreplayed", "decided"}
  \/ KeyGranted(r)
  \/ PersonGranted(r) /\ (Rivals(r) = {} \/ LatestRivals(r) # {})

\* Requests never all wait for each other: the two locks are taken in one order
\* and end with their transaction, so that some request can always go on.
SomeoneGoesOn == (\E r \in Requests : Pending(r)) => \E s \in Requests : CanGoOn(s)

\* A request can go on exactly if a step of createScanEvent for it is possible.
GoesOnIsEnabled == \A r \in Requests : CanGoOn(r) <=> ENABLED Handle(r)
=============================================================================
