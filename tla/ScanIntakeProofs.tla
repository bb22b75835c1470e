-------------------------- MODULE ScanIntakeProofs --------------------------
(***************************************************************************)
(* Proofs about ScanIntake, for any requests, keys and persons, any window *)
(* and any life of a record: a key makes one event, scans are spaced, and  *)
(* answers and merges are right. The invariant says what a request still   *)
(* knows once it holds a lock, although its stamp is older than the lock.  *)
(* Nor do requests ever all wait for each other.                           *)
(***************************************************************************)
EXTENDS ScanIntake, WellFoundedInduction, TLAPS

KeyHeld(v) == v.pc \in {"keyed", "decided"} /\ v.key # None

\* What a request "v" knows: under the lock of its key, that there is no record or
\* that it is over;
KnowsKey(v) ==
  KeyHeld(v) => record[v.key] = None \/ record[v.key].expires <= v.at

\* under the lock of its person, that no scan is in the window, or one like its own;
Like(e, v) == Active(e) /\ event[e].person = v.person /\ event[e].action = v.action
NoneInWindow(v) ==
  \A e \in Requests : Active(e) /\ event[e].person = v.person => event[e].at + Window <= v.at
KnowsPerson(v) ==
  /\ v.pc \notin {"decided", "answered"} => v.merged = None
  /\ v.pc = "decided" => IF v.merged = None THEN NoneInWindow(v)
                         ELSE v.merged \in Requests /\ Like(v.merged, v)

\* and when it is answered, that the scan is one it asked for.
KnowsAnswer(v) ==
  v.pc = "answered" =>
    /\ v.answer \in Requests
    /\ event[v.answer] # None
    /\ event[v.answer].person = v.person
    /\ event[v.answer].action = v.action

\* Until it ends it knows what it asks for.
KnowsItself(v) ==
  v.pc \in {"received", "unreplayed", "begun", "keyed", "decided"} =>
    v.person \in Persons /\ v.action \in Actions

Knows(v) == KnowsKey(v) /\ KnowsPerson(v) /\ KnowsAnswer(v) /\ KnowsItself(v)

\* One request at a time holds the lock of a person, and that of a key.
Apart(v, w) ==
  /\ v.pc = "decided" /\ w.pc = "decided" => v.person # w.person
  /\ KeyHeld(v) /\ KeyHeld(w) => v.key # w.key
LocksExclude == \A r, s \in Requests : r # s => Apart(req[r], req[s])

\* An event was made by the request it is named after; only an event is canceled.
EventsAreMade ==
  \A e \in Requests : /\ event[e] # None => At(e, "answered")
                      /\ cancel[e] # None => event[e] # None

\* The record of a key outlives every event of the key, and tells of an event.
RecordsCover ==
  \A e \in Requests : event[e] # None /\ req[e].key # None =>
    /\ record[req[e].key] # None
    /\ event[e].at + Ttl <= record[req[e].key].expires
RecordsTell ==
  \A k \in Keys : record[k] # None =>
    /\ event[record[k].event] # None
    /\ event[record[k].event].person = record[k].person
    /\ event[record[k].event].action = record[k].action

IInv ==
  /\ TypeOK
  /\ \A r \in Requests : Knows(req[r])
  /\ LocksExclude
  /\ EventsAreMade
  /\ RecordsCover
  /\ RecordsTell
  /\ ScansAreSpaced
  /\ OneEventPerKey

-----------------------------------------------------------------------------
LEMMA InitHolds == Init => IInv
<1> SUFFICES ASSUME Init PROVE IInv
  OBVIOUS
<1>1. NoRequest \in Request /\ NoRequest.pc = "new" /\ NoRequest.merged = None
  BY DEF NoRequest, Request, PC, Finished
<1>2. \A r \in Requests : req[r] = NoRequest /\ event[r] = None
  BY DEF Init
<1>3. TypeOK
  BY <1>1, <1>2 DEF Init, TypeOK, At
<1>4. \A r \in Requests : Knows(req[r])
  BY <1>1, <1>2 DEF Knows, KnowsKey, KnowsPerson, KnowsAnswer, KnowsItself, KeyHeld
<1>5. LocksExclude
  BY <1>1, <1>2 DEF LocksExclude, Apart, KeyHeld
<1>6. EventsAreMade /\ RecordsCover /\ RecordsTell /\ ScansAreSpaced /\ OneEventPerKey
  BY <1>2 DEF Init, EventsAreMade, RecordsCover, RecordsTell, ScansAreSpaced, OneEventPerKey, Active
<1> QED BY <1>3, <1>4, <1>5, <1>6 DEF IInv

LEMMA Known ==
  ASSUME IInv, NEW r \in Requests
  PROVE  /\ req[r] \in Request /\ Knows(req[r]) /\ clock \in Nat /\ failures \in Nat
         /\ event[r] \in Event \cup {None} /\ cancel[r] \in Nat \cup {None}
         /\ event[r] # None => req[r].pc = "answered"
BY DEF IInv, TypeOK, EventsAreMade, At

\* A step of a request that writes no row: what it comes to know has to be right,
\* and its locks to be free.
LEMMA ReqStep ==
  ASSUME IInv, NEW r \in Requests, NEW v \in Request,
         req' = [req EXCEPT ![r] = v], req[r].pc # "answered",
         Knows(v), \A s \in Requests \ {r} : Apart(v, req[s]) /\ Apart(req[s], v),
         failures' \in Nat, UNCHANGED <<clock, event, record, cancel>>
  PROVE  IInv'
<1>1. \A s \in Requests : req'[s] = IF s = r THEN v ELSE req[s]
  BY DEF IInv, TypeOK
<1>2. event[r] = None
  BY Known
<1>3. TypeOK'
  BY <1>1 DEF IInv, TypeOK, At, Knows, KnowsAnswer
<1>4. ASSUME NEW s \in Requests PROVE Knows(req[s])'
  <2>1. Knows(IF s = r THEN v ELSE req[s])
    BY DEF IInv
  <2> QED BY <2>1, <1>1 DEF Knows, KnowsKey, KnowsPerson, KnowsAnswer, KnowsItself, NoneInWindow, Like, Active
<1>5. LocksExclude'
  <2> SUFFICES ASSUME NEW s \in Requests, NEW t \in Requests, s # t
               PROVE  Apart(req'[s], req'[t])
    BY DEF LocksExclude, Apart, KeyHeld
  <2> QED BY <1>1 DEF IInv, LocksExclude
<1>6. EventsAreMade'
  BY <1>1, <1>2 DEF IInv, EventsAreMade, At
<1>7. RecordsCover' /\ RecordsTell'
  BY <1>1, <1>2 DEF IInv, RecordsCover, RecordsTell
<1>8. ScansAreSpaced'
  BY DEF IInv, ScansAreSpaced, Active
<1>9. OneEventPerKey'
  BY <1>1, <1>2 DEF IInv, OneEventPerKey
<1> QED BY <1>3, <1>4, <1>5, <1>6, <1>7, <1>8, <1>9 DEF IInv

\* A request that ends, or has no lock yet.
LEMMA FreeStep ==
  ASSUME IInv, NEW r \in Requests, NEW v \in Request,
         req' = [req EXCEPT ![r] = v], req[r].pc # "answered",
         v.pc \notin {"keyed", "decided", "answered"}, v.merged = None, KnowsItself(v),
         failures' \in Nat, UNCHANGED <<clock, event, record, cancel>>
  PROVE  IInv'
<1>1. Knows(v) /\ \A s \in Requests \ {r} : Apart(v, req[s]) /\ Apart(req[s], v)
  BY DEF Knows, KnowsKey, KnowsPerson, KnowsAnswer, KnowsItself, KeyHeld, Apart
<1> QED BY <1>1, ReqStep

LEMMA PCValues ==
  Finished \cup {"answered", "received", "unreplayed", "begun", "keyed", "decided"} \subseteq PC
BY DEF PC, Finished

LEMMA EndedRow ==
  ASSUME NEW r, NEW pc \in Finished
  PROVE  /\ Ended(r, pc) \in Request /\ Ended(r, pc).pc = pc /\ Ended(r, pc).merged = None
         /\ KnowsItself(Ended(r, pc))
<1>1. Ended(r, pc) \in Request /\ Ended(r, pc).pc = pc /\ Ended(r, pc).merged = None
  BY DEF Ended, NoRequest, Request, PC
<1> QED BY <1>1 DEF Finished, KnowsItself

LEMMA ReceiveStep ==
  ASSUME IInv, NEW r \in Requests, NEW k \in Keys \cup {None}, NEW p \in Persons, NEW action \in Actions,
         NEW active \in BOOLEAN, Receive(r, k, p, action, active)
  PROVE  IInv'
<1> DEFINE v == [req[r] EXCEPT !.pc = "received", !.key = k, !.person = p, !.action = action,
                               !.received = clock]
<1>0. req[r].merged = None
  BY Known DEF Receive, At, Knows, KnowsPerson
<1>1. v \in Request /\ v.pc = "received" /\ v.merged = None /\ v.person = p /\ v.action = action
  <2>1. req[r] \in Request /\ clock \in Nat /\ "received" \in PC
    BY Known, PCValues
  <2> QED BY <1>0, <2>1 DEF Request
<1>2. /\ Ended(r, "denied") \in Request /\ Ended(r, "denied").pc = "denied"
      /\ Ended(r, "denied").merged = None /\ KnowsItself(Ended(r, "denied"))
  BY EndedRow DEF Finished
<1>3. req' = [req EXCEPT ![r] = IF active THEN v ELSE Ended(r, "denied")]
  BY DEF Receive
<1>4. req[r].pc = "new" /\ failures' \in Nat /\ UNCHANGED <<clock, event, record, cancel>>
  BY Known DEF Receive, At
<1> HIDE DEF v
<1>5. CASE active
  <2>1. KnowsItself(v)
    BY <1>1 DEF KnowsItself
  <2> QED BY <1>1, <1>3, <1>4, <1>5, <2>1, FreeStep
<1>6. CASE ~active
  BY <1>2, <1>3, <1>4, <1>6, FreeStep
<1> QED BY <1>5, <1>6

\* Answered from the record of the key, or told of the conflict.
LEMMA ReplayedStep ==
  ASSUME IInv, NEW r \in Requests, NEW now \in Nat, Recorded(r, now), Replayed(r),
         req[r].pc \in {"received", "begun"}, UNCHANGED <<clock, event, record, cancel, failures>>
  PROVE  IInv'
<1> DEFINE row == record[req[r].key]
           v == [req[r] EXCEPT !.pc = "answered", !.answer = row.event, !.done = clock]
<1>1. req[r].key \in Keys /\ row \in Record /\ row # None
  BY Known DEF Recorded, Request, IInv, TypeOK
<1>2. /\ event[row.event] # None /\ event[row.event].person = row.person
      /\ event[row.event].action = row.action
  BY <1>1 DEF IInv, RecordsTell
<1>3. row.event \in Requests
  BY <1>1 DEF Record
<1>4. SameFingerprint(r) => row.person = req[r].person /\ row.action = req[r].action
  BY DEF SameFingerprint
<1>5. req' = [req EXCEPT ![r] = IF SameFingerprint(r) THEN v ELSE Ended(r, "conflict")]
  BY DEF Replayed
<1>6. failures' \in Nat
  BY Known
<1> HIDE DEF row
<1>7. CASE SameFingerprint(r)
  <2>1. v \in Request
    <3>1. req[r] \in Request /\ clock \in Nat /\ "answered" \in PC
      BY Known, PCValues
    <3> QED BY <1>3, <3>1 DEF Request
  <2>2. /\ v.pc = "answered" /\ v.answer = row.event /\ v.person = req[r].person
        /\ v.action = req[r].action
    BY Known DEF Request
  <2> HIDE DEF v
  <2>3. Knows(v) /\ \A s \in Requests \ {r} : Apart(v, req[s]) /\ Apart(req[s], v)
    BY <1>2, <1>3, <1>4, <1>7, <2>2
       DEF Knows, KnowsKey, KnowsPerson, KnowsAnswer, KnowsItself, KeyHeld, Apart
  <2> QED BY <1>5, <1>6, <1>7, <2>1, <2>3, ReqStep
<1>8. CASE ~SameFingerprint(r)
  <2>1. /\ Ended(r, "conflict") \in Request /\ Ended(r, "conflict").pc = "conflict"
        /\ Ended(r, "conflict").merged = None /\ KnowsItself(Ended(r, "conflict"))
    BY EndedRow DEF Finished
  <2> QED BY <1>5, <1>6, <1>8, <2>1, FreeStep
<1> QED BY <1>7, <1>8

LEMMA Advanced ==
  ASSUME IInv, NEW r \in Requests, NEW pc \in PC
  PROVE  LET v == [req[r] EXCEPT !.pc = pc] IN
         /\ v \in Request /\ v.pc = pc /\ v.key = req[r].key /\ v.person = req[r].person
         /\ v.action = req[r].action /\ v.at = req[r].at /\ v.merged = req[r].merged
BY Known DEF Request

LEMMA FastReplayStep == ASSUME IInv, NEW r \in Requests, FastReplay(r) PROVE IInv'
<1>0. /\ req[r].pc = "received" /\ req[r].received \in Nat /\ failures' \in Nat
      /\ UNCHANGED <<clock, event, record, cancel, failures>>
  BY Known DEF FastReplay, At, Request
<1>1. CASE Recorded(r, req[r].received)
  BY <1>0, <1>1, ReplayedStep DEF FastReplay
<1>2. CASE ~Recorded(r, req[r].received)
  <2> DEFINE v == [req[r] EXCEPT !.pc = "unreplayed"]
  <2>1. v \in Request /\ v.pc = "unreplayed" /\ v.merged = None
    BY <1>0, Advanced, Known DEF PC, Knows, KnowsPerson
  <2>2. req' = [req EXCEPT ![r] = v]
    BY <1>2 DEF FastReplay, Advance
  <2>3. v.person = req[r].person /\ v.action = req[r].action
    BY Advanced DEF PC
  <2> HIDE DEF v
  <2>4. KnowsItself(v)
    BY <1>0, <2>3, Known DEF Knows, KnowsItself
  <2> QED BY <1>0, <2>1, <2>2, <2>4, FreeStep
<1> QED BY <1>1, <1>2

LEMMA AdmitStep ==
  ASSUME IInv, NEW r \in Requests, NEW admitted \in BOOLEAN, Admit(r, admitted) PROVE IInv'
<1> DEFINE v == [req[r] EXCEPT !.pc = "begun", !.at = clock]
<1>0. req[r].merged = None
  BY Known DEF Admit, At, Knows, KnowsPerson
<1>1. /\ v \in Request /\ v.pc = "begun" /\ v.merged = None
      /\ v.person = req[r].person /\ v.action = req[r].action
  <2>1. req[r] \in Request /\ clock \in Nat /\ "begun" \in PC
    BY Known, PCValues
  <2> QED BY <1>0, <2>1 DEF Request
<1>2. /\ Ended(r, "denied") \in Request /\ Ended(r, "denied").pc = "denied"
      /\ Ended(r, "denied").merged = None /\ KnowsItself(Ended(r, "denied"))
  BY EndedRow DEF Finished
<1>3. /\ req' = [req EXCEPT ![r] = IF admitted THEN v ELSE Ended(r, "denied")]
      /\ req[r].pc = "unreplayed" /\ failures' \in Nat /\ UNCHANGED <<clock, event, record, cancel>>
  BY Known DEF Admit, At
<1> HIDE DEF v
<1>4. CASE admitted
  <2>1. KnowsItself(v)
    BY <1>1, <1>3, Known DEF Knows, KnowsItself
  <2> QED BY <1>1, <1>3, <1>4, <2>1, FreeStep
<1>5. CASE ~admitted
  BY <1>2, <1>3, <1>5, FreeStep
<1> QED BY <1>4, <1>5

LEMMA LockKeyStep == ASSUME IInv, NEW r \in Requests, LockKey(r) PROVE IInv'
<1>0. /\ req[r].pc = "begun" /\ req[r].key # None /\ req[r].at \in Nat /\ KeyFree(req[r].key)
      /\ failures' \in Nat /\ UNCHANGED <<clock, event, record, cancel, failures>>
  BY Known DEF LockKey, KeyGranted, At, Request
<1>1. CASE Recorded(r, req[r].at)
  BY <1>0, <1>1, ReplayedStep DEF LockKey
<1>2. CASE ~Recorded(r, req[r].at)
  <2> DEFINE v == [req[r] EXCEPT !.pc = "keyed"]
  <2>1. /\ v \in Request /\ v.pc = "keyed" /\ v.key = req[r].key /\ v.at = req[r].at
        /\ v.merged = None /\ v.person = req[r].person /\ v.action = req[r].action
    BY <1>0, Advanced, Known DEF PC, Knows, KnowsPerson
  <2>2. req' = [req EXCEPT ![r] = v]
    BY <1>2 DEF LockKey, Advance
  <2>3. record[v.key] = None \/ record[v.key].expires <= v.at
    <3>1. v.key \in Keys /\ v.at \in Nat
      BY <1>0, <2>1, Known DEF Request
    <3>2. record[v.key] = None \/ record[v.key].expires \in Nat
      BY <3>1 DEF IInv, TypeOK, Record
    <3> QED BY <1>0, <1>2, <2>1, <3>1, <3>2 DEF Recorded
  <2> HIDE DEF v
  <2>4. Knows(v)
    <3>1. KnowsItself(v)
      BY <1>0, <2>1, Known DEF Knows, KnowsItself
    <3> QED BY <2>1, <2>3, <3>1 DEF Knows, KnowsKey, KnowsPerson, KnowsAnswer
  <2>5. \A s \in Requests \ {r} : Apart(v, req[s]) /\ Apart(req[s], v)
    BY <1>0, <2>1 DEF Apart, KeyHeld, KeyFree
  <2> QED BY <1>0, <2>1, <2>2, <2>4, <2>5, ReqStep
<1> QED BY <1>1, <1>2

LEMMA LockPersonStep == ASSUME IInv, NEW r \in Requests, LockPerson(r) PROVE IInv'
<1>0. /\ req[r].pc \in {"keyed", "begun"} /\ (req[r].pc = "begun" => req[r].key = None)
      /\ PersonFree(req[r].person) /\ failures' \in Nat
      /\ UNCHANGED <<clock, event, record, cancel, failures>>
  BY Known DEF LockPerson, PersonGranted, At
\* Under the person's lock the request keeps what it knows of its key.
<1>1. ASSUME NEW v \in Request, v.pc = "decided", v.key = req[r].key, v.at = req[r].at,
             v.person = req[r].person, v.action = req[r].action, req' = [req EXCEPT ![r] = v],
             IF v.merged = None THEN NoneInWindow(v) ELSE v.merged \in Requests /\ Like(v.merged, v)
      PROVE  IInv'
  <2>1. KnowsKey(v)
    BY <1>0, <1>1, Known DEF Knows, KnowsKey, KeyHeld
  <2>2. Knows(v)
    <3>1. KnowsItself(v)
      BY <1>0, <1>1, Known DEF Knows, KnowsItself
    <3> QED BY <1>1, <2>1, <3>1 DEF Knows, KnowsPerson, KnowsAnswer
  <2>3. ASSUME NEW s \in Requests \ {r}
        PROVE  Apart(v, req[s]) /\ Apart(req[s], v)
    <3>1. v.pc = "decided" /\ req[s].pc = "decided" => v.person # req[s].person
      BY <1>0, <1>1 DEF PersonFree
    <3>2. KeyHeld(v) => KeyHeld(req[r])
      BY <1>0, <1>1 DEF KeyHeld
    <3>3. Apart(req[r], req[s]) /\ Apart(req[s], req[r])
      BY DEF IInv, LocksExclude
    <3> QED BY <1>1, <3>1, <3>2, <3>3 DEF Apart
  <2> QED BY <1>0, <1>1, <2>2, <2>3, ReqStep
<1>2. CASE Rivals(r) = {} /\ Advance(r, "decided")
  <2> DEFINE v == [req[r] EXCEPT !.pc = "decided"]
  <2>1. /\ v \in Request /\ v.pc = "decided" /\ v.key = req[r].key /\ v.at = req[r].at
        /\ v.person = req[r].person /\ v.action = req[r].action /\ v.merged = req[r].merged
    BY Advanced DEF PC
  <2>2. req' = [req EXCEPT ![r] = v]
    BY <1>2 DEF Advance
  <2> HIDE DEF v
  <2>3. NoneInWindow(v)
    <3> SUFFICES ASSUME NEW e \in Requests, Active(e), event[e].person = v.person
                 PROVE  event[e].at + Window <= v.at
      BY DEF NoneInWindow
    <3>1. e \notin Rivals(r)
      BY <1>2
    <3>2. event[e].at \in Nat /\ v.at \in Nat
      BY <2>1, Known DEF Active, Event, Request
    <3> QED BY <2>1, <3>1, <3>2, ConstantsAssumption DEF Rivals, Recent
  <2>4. v.merged = None
    BY <1>0, <2>1, Known DEF Knows, KnowsPerson
  <2> QED BY <1>1, <2>1, <2>2, <2>3, <2>4
<1>3. CASE \E e \in Rivals(r) :
             req' = [req EXCEPT ![r] =
               IF event[e].action = req[r].action
               THEN [req[r] EXCEPT !.pc = "decided", !.merged = e] ELSE Ended(r, "conflict")]
  <2>1. PICK e \in Rivals(r) :
             req' = [req EXCEPT ![r] =
               IF event[e].action = req[r].action
               THEN [req[r] EXCEPT !.pc = "decided", !.merged = e] ELSE Ended(r, "conflict")]
    BY <1>3
  <2>2. e \in Requests /\ Active(e) /\ event[e].person = req[r].person
    BY DEF Rivals
  <2>3. CASE event[e].action = req[r].action
    <3> DEFINE v == [req[r] EXCEPT !.pc = "decided", !.merged = e]
    <3>1. /\ v \in Request /\ v.pc = "decided" /\ v.key = req[r].key /\ v.at = req[r].at
          /\ v.person = req[r].person /\ v.action = req[r].action /\ v.merged = e
      BY <2>2, Known DEF Request, PC
    <3>2. req' = [req EXCEPT ![r] = v]
      BY <2>1, <2>3
    <3> HIDE DEF v
    <3>3. Like(e, v)
      BY <2>2, <2>3, <3>1 DEF Like
    <3>4. IF v.merged = None THEN NoneInWindow(v) ELSE v.merged \in Requests /\ Like(v.merged, v)
      BY <2>2, <3>1, <3>3, ConstantsAssumption
    <3> QED BY <1>1, <3>1, <3>2, <3>4
  <2>4. CASE event[e].action # req[r].action
    <3>1. req' = [req EXCEPT ![r] = Ended(r, "conflict")]
      BY <2>1, <2>4
    <3>2. /\ Ended(r, "conflict") \in Request /\ Ended(r, "conflict").pc = "conflict"
          /\ Ended(r, "conflict").merged = None /\ KnowsItself(Ended(r, "conflict"))
      BY EndedRow DEF Finished
    <3> QED BY <1>0, <3>1, <3>2, FreeStep
  <2> QED BY <2>3, <2>4
<1> QED BY <1>2, <1>3 DEF LockPerson, LatestRivals

LEMMA LoseStep == ASSUME IInv, NEW r \in Requests, Lose(r) PROVE IInv'
<1>1. /\ Ended(r, "lost") \in Request /\ Ended(r, "lost").pc = "lost"
      /\ Ended(r, "lost").merged = None /\ KnowsItself(Ended(r, "lost"))
  BY EndedRow DEF Finished
<1>2. /\ req' = [req EXCEPT ![r] = Ended(r, "lost")] /\ req[r].pc # "answered" /\ failures' \in Nat
      /\ UNCHANGED <<clock, event, record, cancel>>
  BY Known DEF Lose, Finished
<1> QED BY <1>1, <1>2, FreeStep

-----------------------------------------------------------------------------
(***************************************************************************)
(* The commit of a request "r": what it knew is what the rows need.        *)
(***************************************************************************)
Row(r) == [person |-> req[r].person, action |-> req[r].action, at |-> req[r].at, status |-> "waiting"]
Noted(r) == [person |-> req[r].person, action |-> req[r].action, event |-> Result(r),
             expires |-> req[r].at + Ttl]
Answered(r) == [req[r] EXCEPT !.pc = "answered", !.answer = Result(r), !.stored = TRUE, !.done = clock]

\* What it knew.
LEMMA Committing ==
  ASSUME IInv, NEW r \in Requests, Commit(r)
  PROVE  /\ req[r] \in Request /\ Knows(req[r]) /\ req[r].pc = "decided"
         /\ event[r] = None /\ cancel[r] = None
         /\ req[r].person \in Persons /\ req[r].action \in Actions /\ req[r].at \in Nat
         /\ req[r].key \in Keys \cup {None} /\ Result(r) \in Requests
<1>1. req[r] \in Request /\ Knows(req[r]) /\ req[r].pc = "decided" /\ event[r] = None
  BY Known DEF Commit, At
<1>2. cancel[r] = None
  BY <1>1 DEF IInv, EventsAreMade
<1>3. req[r].person \in Persons /\ req[r].action \in Actions
  BY <1>1 DEF Knows, KnowsItself
<1>4. req[r].at \in Nat /\ req[r].key \in Keys \cup {None} /\ req[r].merged \in Requests \cup {None}
  BY <1>1 DEF Request
<1> QED BY <1>1, <1>2, <1>3, <1>4 DEF Result

\* What becomes of the rows, and of the requests.
LEMMA Committed ==
  ASSUME IInv, NEW r \in Requests, Commit(r)
  PROVE  /\ Row(r) \in Event /\ Noted(r) \in Record /\ Answered(r) \in Request
         /\ \A e \in Requests : event'[e] = IF e = r /\ req[r].merged = None THEN Row(r) ELSE event[e]
         /\ \A k \in Keys : record'[k] = IF k = req[r].key THEN Noted(r) ELSE record[k]
         /\ \A s \in Requests : req'[s] = IF s = r THEN Answered(r) ELSE req[s]
         /\ event' \in [Requests -> Event \cup {None}] /\ record' \in [Keys -> Record \cup {None}]
         /\ req' \in [Requests -> Request] /\ UNCHANGED <<clock, cancel, failures>>
<1> USE Committing
<1>1. Row(r) \in Event
  BY DEF Row, Event
<1>2. Noted(r) \in Record
  BY ConstantsAssumption DEF Noted, Record
<1>3. Answered(r) \in Request
  <2>1. "answered" \in PC /\ clock \in Nat
    BY Known DEF PC, Finished
  <2> QED BY <2>1 DEF Answered, Request
<1>4. /\ event \in [Requests -> Event \cup {None}] /\ record \in [Keys -> Record \cup {None}]
      /\ req \in [Requests -> Request]
  BY DEF IInv, TypeOK
<1>5. event' = IF req[r].merged = None THEN [event EXCEPT ![r] = Row(r)] ELSE event
  BY DEF Commit, Row
<1>6. record' = IF req[r].key # None THEN [record EXCEPT ![req[r].key] = Noted(r)] ELSE record
  BY DEF Commit, Noted, Stores
<1>7. req' = [req EXCEPT ![r] = Answered(r)]
  BY DEF Commit, Answered
<1>8. \A e \in Requests : event'[e] = IF e = r /\ req[r].merged = None THEN Row(r) ELSE event[e]
  BY <1>4, <1>5
<1>9. \A k \in Keys : record'[k] = IF k = req[r].key THEN Noted(r) ELSE record[k]
  BY <1>4, <1>6, ConstantsAssumption
<1>10. \A s \in Requests : req'[s] = IF s = r THEN Answered(r) ELSE req[s]
  BY <1>4, <1>7
<1>11. event' \in [Requests -> Event \cup {None}]
  BY <1>1, <1>4, <1>5
<1>12. record' \in [Keys -> Record \cup {None}]
  BY <1>2, <1>4, <1>6
<1>13. req' \in [Requests -> Request]
  BY <1>3, <1>4, <1>7
<1> QED BY <1>1, <1>2, <1>3, <1>8, <1>9, <1>10, <1>11, <1>12, <1>13 DEF Commit

\* The fields of what is written.
LEMMA Written ==
  ASSUME IInv, NEW r \in Requests, Commit(r)
  PROVE  /\ Row(r) # None /\ Row(r).person = req[r].person /\ Row(r).action = req[r].action
         /\ Row(r).at = req[r].at /\ Row(r).status # "canceled"
         /\ Noted(r) # None /\ Noted(r).person = req[r].person /\ Noted(r).action = req[r].action
         /\ Noted(r).event = Result(r) /\ Noted(r).expires = req[r].at + Ttl
         /\ Answered(r).pc = "answered" /\ Answered(r).answer = Result(r)
         /\ Answered(r).person = req[r].person /\ Answered(r).action = req[r].action
         /\ Answered(r).key = req[r].key
<1>1. Row(r) # None /\ Noted(r) # None
  BY Committed, NoRowAssumption
<1>2. /\ Answered(r).pc = "answered" /\ Answered(r).answer = Result(r)
      /\ Answered(r).person = req[r].person /\ Answered(r).action = req[r].action
      /\ Answered(r).key = req[r].key
  BY Committing DEF Answered, Request
<1> QED BY <1>1, <1>2 DEF Row, Noted

\* Its answer is an event of what was asked for, new or merged into.
LEMMA ResultIsRight ==
  ASSUME IInv, NEW r \in Requests, Commit(r)
  PROVE  /\ event'[Result(r)] # None
         /\ event'[Result(r)].person = req[r].person
         /\ event'[Result(r)].action = req[r].action
<1>1. CASE req[r].merged = None
  <2>1. event'[Result(r)] = Row(r)
    BY <1>1, Committed DEF Result
  <2> QED BY <2>1, Written
<1>2. CASE req[r].merged # None
  <2>1. Like(req[r].merged, req[r]) /\ req[r].merged \in Requests
    BY <1>2, Committing DEF Knows, KnowsPerson
  <2>2. event'[Result(r)] = event[req[r].merged]
    BY <1>2, <2>1, Committed DEF Result
  <2> QED BY <2>1, <2>2 DEF Like, Active
<1> QED BY <1>1, <1>2

\* The events of its key are over by its stamp.
LEMMA EarlierAreOver ==
  ASSUME IInv, NEW r \in Requests, Commit(r),
         NEW e \in Requests, event[e] # None, req[e].key = req[r].key, req[r].key # None
  PROVE  event[e].at + Ttl <= req[r].at
<1> DEFINE row == record[req[r].key]
<1>1. req[r].key \in Keys /\ KeyHeld(req[r])
  BY Committing DEF KeyHeld
<1>2. row \in Record \cup {None}
  BY <1>1 DEF IInv, TypeOK
<1>3. row # None /\ event[e].at + Ttl <= row.expires
  BY DEF IInv, RecordsCover
<1>4. row.expires <= req[r].at
  BY <1>1, <1>3, Committing DEF Knows, KnowsKey
<1>5. row.expires \in Nat
  BY <1>2, <1>3 DEF Record
<1>6. event[e].at \in Nat
  BY Known DEF Event
<1> QED BY <1>3, <1>4, <1>5, <1>6, Committing, ConstantsAssumption

LEMMA CommitStep == ASSUME IInv, NEW r \in Requests, Commit(r) PROVE IInv'
<1> USE Committing, Committed, Written
<1>1. TypeOK'
  <2>1. \A s \in Requests : At(s, "answered")' => req'[s].answer \in Requests
    BY DEF IInv, TypeOK, At
  <2> QED BY <2>1 DEF IInv, TypeOK
<1>2. ASSUME NEW s \in Requests PROVE Knows(req[s])'
  <2>1. CASE s = r
    <3>1. req'[s].pc = "answered" /\ req'[s].answer = Result(r)
      BY <2>1
    <3>2. KnowsAnswer(req[s])'
      BY <2>1, <3>1, ResultIsRight DEF KnowsAnswer
    <3>3. ~KeyHeld(req[s])'
      BY <3>1 DEF KeyHeld
    <3> QED BY <3>1, <3>2, <3>3 DEF Knows, KnowsKey, KnowsPerson, KnowsItself
  <2>2. CASE s # r
    <3>0. PICK v \in Request : v = req[s]
      BY Known
    <3>1. v \in Request /\ Knows(v) /\ req'[s] = v
      BY <2>2, <3>0, Known
    <3>2. Apart(v, req[r])
      BY <2>2, <3>0 DEF IInv, LocksExclude
    <3>3. \A e \in Requests : event[e] # None => e # r /\ event'[e] = event[e]
      OBVIOUS
    <3>4. KeyHeld(v) => record'[v.key] = record[v.key]
      <4>1. KeyHeld(v) => v.key \in Keys
        BY <3>1 DEF KeyHeld, Request
      <4>2. KeyHeld(v) => v.key # req[r].key
        BY <3>2, ConstantsAssumption DEF Apart, KeyHeld
      <4> QED BY <4>1, <4>2
    <3>5. KnowsKey(v)'
      BY <3>1, <3>4 DEF Knows, KnowsKey, KeyHeld
    <3>6. v.pc = "decided" /\ v.merged = None => NoneInWindow(v)'
      <4> SUFFICES ASSUME v.pc = "decided", v.merged = None, NEW e \in Requests,
                          Active(e)', event'[e].person = v.person
                   PROVE  event'[e].at + Window <= v.at
        BY DEF NoneInWindow
      <4>1. v.person # req[r].person
        BY <3>2 DEF Apart
      <4>2. event'[e] = event[e]
        BY <4>1
      <4> QED BY <3>1, <4>2 DEF Knows, KnowsPerson, NoneInWindow, Active
    <3>7. v.pc = "decided" /\ v.merged # None => v.merged \in Requests /\ Like(v.merged, v)'
      BY <3>1, <3>3 DEF Knows, KnowsPerson, Like, Active
    <3>8. KnowsPerson(v)'
      <4>1. v.pc \notin {"decided", "answered"} => v.merged = None
        BY <3>1 DEF Knows, KnowsPerson
      <4> QED BY <3>6, <3>7, <4>1 DEF KnowsPerson, NoneInWindow, Like, Active
    <3>9. KnowsAnswer(v)'
      BY <3>1, <3>3 DEF Knows, KnowsAnswer
    <3>10. KnowsItself(v)
      BY <3>1 DEF Knows
    <3> QED BY <3>1, <3>5, <3>8, <3>9, <3>10
         DEF Knows, KnowsKey, KnowsPerson, KnowsAnswer, KnowsItself, NoneInWindow, Like, Active
  <2> QED BY <2>1, <2>2
<1>3. LocksExclude'
  <2>1. ~KeyHeld(Answered(r)) /\ Answered(r).pc # "decided"
    BY DEF KeyHeld
  <2> SUFFICES ASSUME NEW s \in Requests, NEW t \in Requests, s # t
               PROVE  Apart(req'[s], req'[t])
    BY DEF LocksExclude, Apart, KeyHeld
  <2>2. CASE s = r \/ t = r
    BY <2>1, <2>2 DEF Apart
  <2>3. CASE s # r /\ t # r
    BY <2>3 DEF IInv, LocksExclude
  <2> QED BY <2>2, <2>3
<1>4. EventsAreMade'
  BY DEF IInv, EventsAreMade, At
<1>5. RecordsCover'
  <2> SUFFICES ASSUME NEW e \in Requests, event'[e] # None, req'[e].key # None
               PROVE  /\ record'[req'[e].key] # None
                      /\ event'[e].at + Ttl <= record'[req'[e].key].expires
    BY DEF RecordsCover
  <2>1. req'[e].key = req[e].key /\ req[e].key \in Keys
    BY Known DEF Request
  <2>2. CASE e = r
    <3>1. event'[e] = Row(r) /\ record'[req'[e].key] = Noted(r)
      BY <2>1, <2>2
    <3> QED BY <3>1, ConstantsAssumption
  <2>3. CASE e # r /\ req[e].key = req[r].key
    <3>1. event'[e] = event[e] /\ record'[req'[e].key] = Noted(r)
      BY <2>1, <2>3
    <3>2. event[e].at + Ttl <= req[r].at /\ event[e].at \in Nat
      BY <2>1, <2>3, <3>1, ConstantsAssumption, EarlierAreOver, Known DEF Event
    <3> QED BY <3>1, <3>2, ConstantsAssumption
  <2>4. CASE e # r /\ req[e].key # req[r].key
    BY <2>1, <2>4 DEF IInv, RecordsCover
  <2> QED BY <2>2, <2>3, <2>4
<1>6. RecordsTell'
  <2> SUFFICES ASSUME NEW k \in Keys, record'[k] # None
               PROVE  /\ event'[record'[k].event] # None
                      /\ event'[record'[k].event].person = record'[k].person
                      /\ event'[record'[k].event].action = record'[k].action
    BY DEF RecordsTell
  <2>1. CASE k = req[r].key
    BY <2>1, ResultIsRight
  <2>2. CASE k # req[r].key
    <3>1. record'[k] = record[k] /\ event[record[k].event] # None
      BY <2>2 DEF IInv, RecordsTell
    <3>2. record[k].event \in Requests
      BY <2>2 DEF IInv, TypeOK, Record
    <3>3. event'[record[k].event] = event[record[k].event]
      BY <3>1, <3>2
    <3> QED BY <3>1, <3>3 DEF IInv, RecordsTell
  <2> QED BY <2>1, <2>2
<1>7. ScansAreSpaced'
  <2>1. \A e \in Requests : e # r => event'[e] = event[e] /\ (Active(e)' <=> Active(e))
    BY DEF Active
  <2>2. ASSUME NEW f \in Requests, f # r, Active(r)', Active(f), event[f].person = event'[r].person
        PROVE  event[f].at + Window <= event'[r].at
    <3>1. req[r].merged = None /\ event'[r] = Row(r)
      BY <2>2 DEF Active
    <3>2. NoneInWindow(req[r])
      BY <3>1 DEF Knows, KnowsPerson
    <3> QED BY <2>2, <3>1, <3>2 DEF NoneInWindow
  <2> SUFFICES ASSUME NEW e \in Requests, NEW f \in Requests, e # f, Active(e)', Active(f)',
                      event'[e].person = event'[f].person
               PROVE  event'[e].at + Window <= event'[f].at \/ event'[f].at + Window <= event'[e].at
    BY DEF ScansAreSpaced
  <2>3. CASE e = r
    BY <2>1, <2>2, <2>3
  <2>4. CASE f = r
    BY <2>1, <2>2, <2>4
  <2>5. CASE e # r /\ f # r
    BY <2>1, <2>5 DEF IInv, ScansAreSpaced
  <2> QED BY <2>3, <2>4, <2>5
<1>8. OneEventPerKey'
  <2>1. \A e \in Requests : req'[e].key = req[e].key /\ (e # r => event'[e] = event[e])
    OBVIOUS
  <2>2. event'[r] # None => event'[r].at = req[r].at
    OBVIOUS
  <2> SUFFICES ASSUME NEW e \in Requests, NEW f \in Requests, e # f, event'[e] # None,
                      event'[f] # None, req[e].key = req[f].key, req[e].key # None
               PROVE  event'[e].at + Ttl <= event'[f].at \/ event'[f].at + Ttl <= event'[e].at
    BY <2>1 DEF OneEventPerKey
  <2>3. CASE e = r
    BY <2>1, <2>2, <2>3, EarlierAreOver
  <2>4. CASE f = r
    BY <2>1, <2>2, <2>4, EarlierAreOver
  <2>5. CASE e # r /\ f # r
    BY <2>1, <2>5 DEF IInv, OneEventPerKey
  <2> QED BY <2>3, <2>4, <2>5
<1> QED BY <1>1, <1>2, <1>3, <1>4, <1>5, <1>6, <1>7, <1>8 DEF IInv

-----------------------------------------------------------------------------
(***************************************************************************)
(* Cancellations, workers and time.                                        *)
(***************************************************************************)
\* An event keeps what it says, and stops being active only while no request
\* has decided by it.
LEMMA EventStep ==
  ASSUME IInv, NEW e \in Requests, event[e] # None, NEW row \in Event,
         row.person = event[e].person, row.action = event[e].action, row.at = event[e].at,
         event[e].status = "canceled" => row.status = "canceled",
         event' = [event EXCEPT ![e] = row],
         row.status = "canceled" => PersonFree(event[e].person) \/ event[e].status = "canceled",
         cancel' \in [Requests -> Nat \cup {None}],
         \A f \in Requests : cancel'[f] # None => event[f] # None,
         UNCHANGED <<clock, req, record, failures>>
  PROVE  IInv'
<1>1. row # None
  BY NoRowAssumption
<1>2. \A f \in Requests : event'[f] = IF f = e THEN row ELSE event[f]
  BY DEF IInv, TypeOK
<1>3. \A f \in Requests : (event'[f] # None <=> event[f] # None)
  BY <1>1, <1>2
<1>4. \A f \in Requests :
        /\ event'[f] # None => /\ event'[f].person = event[f].person
                               /\ event'[f].action = event[f].action /\ event'[f].at = event[f].at
        /\ Active(f)' => Active(f)
        /\ Active(f) /\ ~Active(f)' => PersonFree(event[f].person)
  BY <1>1, <1>2 DEF Active
<1>5. TypeOK'
  BY DEF IInv, TypeOK, At
<1>6. ASSUME NEW s \in Requests PROVE Knows(req[s])'
  <2>0. PICK v \in Request : v = req[s]
    BY Known
  <2>1. v \in Request /\ Knows(v) /\ req'[s] = v
    BY <2>0, Known
  <2>2. v.pc = "decided" => ~PersonFree(v.person)
    BY <2>0 DEF PersonFree
  <2>3. KnowsKey(v)' /\ KnowsItself(v)
    BY <2>1 DEF Knows, KnowsKey, KeyHeld
  <2>4. KnowsAnswer(v)'
    BY <1>3, <1>4, <2>1 DEF Knows, KnowsAnswer
  <2>5. v.pc = "decided" /\ v.merged = None => NoneInWindow(v)'
    <3> SUFFICES ASSUME v.pc = "decided", v.merged = None, NEW f \in Requests,
                        Active(f)', event'[f].person = v.person
                 PROVE  event'[f].at + Window <= v.at
      BY DEF NoneInWindow
    <3>1. Active(f) /\ event[f].person = v.person /\ event'[f].at = event[f].at
      BY <1>4 DEF Active
    <3> QED BY <2>1, <3>1 DEF Knows, KnowsPerson, NoneInWindow
  <2>6. v.pc = "decided" /\ v.merged # None => v.merged \in Requests /\ Like(v.merged, v)'
    <3> SUFFICES ASSUME v.pc = "decided", v.merged # None
                 PROVE  v.merged \in Requests /\ Like(v.merged, v)'
      OBVIOUS
    <3>1. v.merged \in Requests /\ Like(v.merged, v)
      BY <2>1 DEF Knows, KnowsPerson
    <3>2. Active(v.merged)'
      BY <1>4, <2>2, <3>1 DEF Like
    <3> QED BY <1>4, <3>1, <3>2 DEF Like, Active
  <2>7. KnowsPerson(v)'
    <3>1. v.pc \notin {"decided", "answered"} => v.merged = None
      BY <2>1 DEF Knows, KnowsPerson
    <3> QED BY <2>5, <2>6, <3>1 DEF KnowsPerson, NoneInWindow, Like, Active
  <2> QED BY <2>1, <2>3, <2>4, <2>7
       DEF Knows, KnowsKey, KnowsPerson, KnowsAnswer, KnowsItself, NoneInWindow, Like, Active
<1>7. LocksExclude'
  BY DEF IInv, LocksExclude, Apart, KeyHeld
<1>8. EventsAreMade'
  BY <1>3 DEF IInv, EventsAreMade, At
<1>9. RecordsCover'
  BY <1>3, <1>4, Known DEF IInv, RecordsCover
<1>10. RecordsTell'
  <2> SUFFICES ASSUME NEW k \in Keys, record[k] # None
               PROVE  /\ event'[record[k].event] # None
                      /\ event'[record[k].event].person = record[k].person
                      /\ event'[record[k].event].action = record[k].action
    BY DEF RecordsTell
  <2>1. record[k].event \in Requests
    BY DEF IInv, TypeOK, Record
  <2> QED BY <1>3, <1>4, <2>1 DEF IInv, RecordsTell
<1>11. ScansAreSpaced'
  BY <1>4 DEF IInv, ScansAreSpaced, Active
<1>12. OneEventPerKey'
  BY <1>3, <1>4 DEF IInv, OneEventPerKey
<1> QED BY <1>5, <1>6, <1>7, <1>8, <1>9, <1>10, <1>11, <1>12 DEF IInv

\* Steps that change neither events nor requests nor records.
LEMMA SideStep ==
  ASSUME IInv, UNCHANGED <<req, event, record, failures>>, clock' \in Nat,
         cancel' \in [Requests -> Nat \cup {None}],
         \A f \in Requests : cancel'[f] # None => event[f] # None
  PROVE  IInv'
<1>1. TypeOK'
  BY DEF IInv, TypeOK, At
<1>2. \A s \in Requests : Knows(req[s])'
  BY DEF IInv, Knows, KnowsKey, KnowsPerson, KnowsAnswer, KnowsItself, KeyHeld, NoneInWindow, Like, Active
<1>3. LocksExclude' /\ EventsAreMade' /\ RecordsCover' /\ RecordsTell'
  BY DEF IInv, LocksExclude, Apart, KeyHeld, EventsAreMade, At, RecordsCover, RecordsTell
<1>4. ScansAreSpaced' /\ OneEventPerKey'
  BY DEF IInv, ScansAreSpaced, Active, OneEventPerKey
<1> QED BY <1>1, <1>2, <1>3, <1>4 DEF IInv

LEMMA CancelKept ==
  ASSUME IInv
  PROVE  /\ clock \in Nat /\ cancel \in [Requests -> Nat \cup {None}]
         /\ \A f \in Requests : cancel[f] # None => event[f] # None
BY DEF IInv, TypeOK, EventsAreMade

LEMMA CancelStep ==
  ASSUME IInv, NEW e \in Requests, BeginCancel(e) \/ FinishCancel(e) PROVE IInv'
<1>1. CASE BeginCancel(e)
  BY <1>1, CancelKept, SideStep DEF BeginCancel
<1>2. CASE FinishCancel(e)
  <2>1. /\ cancel' \in [Requests -> Nat \cup {None}]
        /\ \A f \in Requests : cancel'[f] # None => event[f] # None
    BY <1>2, CancelKept DEF FinishCancel
  <2>2. event[e] \in Event /\ event[e] # None
    BY <1>2, CancelKept, Known DEF FinishCancel
  <2>3. CASE event[e].status = "waiting" /\ cancel[e] < event[e].at + Window
    <3> DEFINE row == [event[e] EXCEPT !.status = "canceled"]
    <3>1. /\ row \in Event /\ row.person = event[e].person /\ row.action = event[e].action
          /\ row.at = event[e].at /\ row.status = "canceled"
      BY <2>2 DEF Event
    <3>2. event' = [event EXCEPT ![e] = row] /\ PersonFree(event[e].person)
      BY <1>2, <2>3 DEF FinishCancel, CancelWaits
    <3> HIDE DEF row
    <3> QED BY <1>2, <2>1, <2>2, <3>1, <3>2, EventStep DEF FinishCancel
  <2>4. CASE ~(event[e].status = "waiting" /\ cancel[e] < event[e].at + Window)
    <3>1. UNCHANGED <<clock, req, event, record, failures>>
      BY <1>2, <2>4 DEF FinishCancel
    <3> QED BY <2>1, <3>1, CancelKept, SideStep
  <2> QED BY <2>3, <2>4
<1> QED BY <1>1, <1>2

LEMMA ClaimJobStep == ASSUME IInv, NEW e \in Requests, ClaimJob(e) PROVE IInv'
<1> DEFINE row == [event[e] EXCEPT !.status = "claimed"]
<1>1. event[e] \in Event /\ event[e] # None /\ event[e].status = "waiting"
  BY Known DEF ClaimJob
<1>2. /\ row \in Event /\ row.person = event[e].person /\ row.action = event[e].action
      /\ row.at = event[e].at /\ row.status = "claimed"
  BY <1>1 DEF Event
<1>3. event' = [event EXCEPT ![e] = row] /\ UNCHANGED <<clock, req, record, cancel, failures>>
  BY DEF ClaimJob
<1> HIDE DEF row
<1> QED BY <1>1, <1>2, <1>3, CancelKept, EventStep

LEMMA TickStep == ASSUME IInv, Tick PROVE IInv'
BY CancelKept, SideStep DEF Tick

LEMMA StepKeeps == IInv /\ [Next]_vars => IInv'
<1> SUFFICES ASSUME IInv, [Next]_vars PROVE IInv'
  OBVIOUS
<1>1. CASE \E r \in Requests : Arrive(r) \/ Handle(r) \/ Lose(r)
  <2>1. PICK r \in Requests : Arrive(r) \/ Handle(r) \/ Lose(r)
    BY <1>1
  <2>2. CASE Arrive(r)
    BY <2>2, ReceiveStep DEF Arrive
  <2>3. CASE Handle(r)
    BY <2>3, FastReplayStep, AdmitStep, LockKeyStep, LockPersonStep, CommitStep DEF Handle
  <2> QED BY <2>1, <2>2, <2>3, LoseStep
<1>2. CASE \E e \in Requests : BeginCancel(e) \/ FinishCancel(e) \/ ClaimJob(e)
  BY <1>2, CancelStep, ClaimJobStep
<1>3. CASE Tick
  BY <1>3, TickStep
<1>4. CASE UNCHANGED vars
  BY <1>4, CancelKept, SideStep DEF vars
<1> QED BY <1>1, <1>2, <1>3, <1>4 DEF Next

LEMMA Inductive == Spec => []IInv
BY InitHolds, StepKeeps, PTL DEF Spec

-----------------------------------------------------------------------------
\* Requests, events, records and cancellations keep their types.
THEOREM IntakeTypes == Spec => []TypeOK
<1>1. IInv => TypeOK
  BY DEF IInv
<1> QED BY <1>1, Inductive, PTL

\* createScanEvent, however its requests race for the locks of keys and persons with
\* stamps older than the locks: the active scans of a person are a window apart.
THEOREM Spaced == Spec => []ScansAreSpaced
<1>1. IInv => ScansAreSpaced
  BY DEF IInv
<1> QED BY <1>1, Inductive, PTL

\* A key makes no second event while its record lives, though a record is looked
\* for with the stamp of a transaction that then waited.
THEOREM OnePerKey == Spec => []OneEventPerKey
<1>1. IInv => OneEventPerKey
  BY DEF IInv
<1> QED BY <1>1, Inductive, PTL

\* What a request is answered, created, merged or repeated, is a scan of its own
\* person and action.
THEOREM AnswersAreRight == Spec => []AnswersMatch
<1>1. IInv => AnswersMatch
  BY DEF IInv, AnswersMatch, At, Knows, KnowsAnswer
<1> QED BY <1>1, Inductive, PTL

\* Between its decision and its commit the scan a request is merged into is not
\* canceled: the cancellation waits for the lock of the person.
THEOREM MergesStayActive == Spec => []MergesIntoActive
<1>1. IInv => MergesIntoActive
  BY DEF IInv, MergesIntoActive, At, Knows, KnowsPerson, Like
<1> QED BY <1>1, Inductive, PTL

-----------------------------------------------------------------------------
(***************************************************************************)
(* Nobody waits for ever. A set of numbers with a bound has a greatest, so *)
(* a request that holds the lock of its person finds a latest rival.       *)
(***************************************************************************)
NatLess == {p \in Nat \X Nat : p[1] < p[2]}

LEMMA NatLessIsWF == IsWellFoundedOn(NatLess, Nat)
<1>1. OpToRel(<, Nat) = NatLess
  BY DEF OpToRel, NatLess
<1> QED BY <1>1, NatLessThanWellFounded

LEMMA Least ==
  ASSUME NEW S \in SUBSET Nat, S # {}
  PROVE  \E m \in S : \A n \in S : m <= n
<1>1. PICK m \in S : \A n \in S : ~(<<n, m>> \in NatLess)
  BY NatLessIsWF, WFMin, Zenon
<1>2. \A n \in S : n \in Nat /\ m \in Nat /\ ~(n < m)
  BY <1>1 DEF NatLess
<1> QED BY <1>1, <1>2

LEMMA Greatest ==
  ASSUME NEW S \in SUBSET Nat, S # {}, NEW b \in Nat, \A n \in S : n <= b
  PROVE  \E m \in S : \A n \in S : n <= m
<1> DEFINE U == {u \in Nat : \A n \in S : n <= u}
<1>1. PICK u \in U : \A w \in U : u <= w
  <2>1. U # {} /\ U \subseteq Nat
    OBVIOUS
  <2> HIDE DEF U
  <2> QED BY <2>1, Least
<1>2. u \in S
  <2> SUFFICES ASSUME u \notin S PROVE FALSE
    OBVIOUS
  <2>1. \A n \in S : n < u
    BY <1>1
  <2>2. u # 0
    <3>1. PICK n \in S : n < u
      BY <2>1
    <3> QED BY <3>1
  <2>3. u - 1 \in U
    BY <2>1, <2>2, <1>1
  <2> QED BY <2>3, <1>1
<1> QED BY <1>1, <1>2

\* No stamp is of a time to come.
StampsArePast ==
  \A r \in Requests : req[r].at <= clock /\ (event[r] # None => event[r].at <= clock)

\* A row takes its stamp from the clock, or keeps it, or has none.
Stamped(r, v) == v.at \in {0, clock, req[r].at}

LEMMA Clocks == IInv => clock \in Nat
BY DEF IInv, TypeOK

LEMMA StampStep ==
  ASSUME IInv, StampsArePast, NEW r \in Requests,
         \A s \in Requests \ {r} : req'[s].at = req[s].at,
         Stamped(r, req'[r]), UNCHANGED <<clock, event>>
  PROVE  StampsArePast'
<1>1. req'[r].at <= clock
  BY Clocks DEF Stamped, StampsArePast
<1> QED BY <1>1 DEF StampsArePast

LEMMA StampOf ==
  ASSUME IInv, StampsArePast, NEW r \in Requests, NEW v, Stamped(r, v),
         req' = [req EXCEPT ![r] = v], UNCHANGED <<clock, event>>
  PROVE  StampsArePast'
<1>1. \A s \in Requests : req'[s] = IF s = r THEN v ELSE req[s]
  BY DEF IInv, TypeOK
<1> QED BY <1>1, StampStep

LEMMA EndedStamp == \A r, pc : Ended(r, pc).at = 0
BY DEF Ended, NoRequest

LEMMA HandleStamps ==
  ASSUME IInv, StampsArePast, NEW r \in Requests, Arrive(r) \/ Handle(r) \/ Lose(r)
  PROVE  StampsArePast'
<1>1. req[r] \in Request /\ req[r].at \in Nat
  BY Known DEF Request
<1>2. CASE Arrive(r)
  <2>1. PICK k \in Keys \cup {None}, p \in Persons, action \in Actions, active \in BOOLEAN :
          Receive(r, k, p, action, active)
    BY <1>2 DEF Arrive
  <2> DEFINE v == IF active
                  THEN [req[r] EXCEPT !.pc = "received", !.key = k, !.person = p, !.action = action,
                                      !.received = clock]
                  ELSE Ended(r, "denied")
  <2>2. Stamped(r, v)
    BY <1>1, EndedStamp DEF Request, Stamped
  <2>3. req' = [req EXCEPT ![r] = v] /\ UNCHANGED <<clock, event>>
    BY <2>1 DEF Receive
  <2> HIDE DEF v
  <2> QED BY <2>2, <2>3, StampOf
<1>3. ASSUME Replayed(r), UNCHANGED <<clock, event>> PROVE StampsArePast'
  <2> DEFINE v == IF SameFingerprint(r)
                  THEN [req[r] EXCEPT !.pc = "answered", !.answer = record[req[r].key].event,
                                      !.done = clock]
                  ELSE Ended(r, "conflict")
  <2>1. Stamped(r, v)
    BY <1>1, EndedStamp DEF Request, Stamped
  <2>2. req' = [req EXCEPT ![r] = v]
    BY <1>3 DEF Replayed
  <2> HIDE DEF v
  <2> QED BY <1>3, <2>1, <2>2, StampOf
<1>4. ASSUME NEW pc, Advance(r, pc), UNCHANGED <<clock, event>> PROVE StampsArePast'
  <2> DEFINE v == [req[r] EXCEPT !.pc = pc]
  <2>1. Stamped(r, v)
    BY <1>1 DEF Request, Stamped
  <2>2. req' = [req EXCEPT ![r] = v]
    BY <1>4 DEF Advance
  <2> HIDE DEF v
  <2> QED BY <1>4, <2>1, <2>2, StampOf
<1>5. CASE FastReplay(r) \/ LockKey(r)
  BY <1>3, <1>4, <1>5 DEF FastReplay, LockKey
<1>6. CASE \E admitted \in BOOLEAN : Admit(r, admitted)
  <2>1. PICK admitted \in BOOLEAN : Admit(r, admitted)
    BY <1>6
  <2> DEFINE v == IF admitted THEN [req[r] EXCEPT !.pc = "begun", !.at = clock]
                  ELSE Ended(r, "denied")
  <2>2. Stamped(r, v)
    BY <1>1, EndedStamp DEF Request, Stamped
  <2>3. req' = [req EXCEPT ![r] = v] /\ UNCHANGED <<clock, event>>
    BY <2>1 DEF Admit
  <2> HIDE DEF v
  <2> QED BY <2>2, <2>3, StampOf
<1>7. CASE LockPerson(r)
  <2>1. CASE Advance(r, "decided")
    BY <1>4, <1>7, <2>1 DEF LockPerson
  <2>2. ASSUME NEW e,
               req' = [req EXCEPT ![r] =
                 IF event[e].action = req[r].action
                 THEN [req[r] EXCEPT !.pc = "decided", !.merged = e] ELSE Ended(r, "conflict")]
        PROVE  StampsArePast'
    <3> DEFINE v == IF event[e].action = req[r].action
                    THEN [req[r] EXCEPT !.pc = "decided", !.merged = e] ELSE Ended(r, "conflict")
    <3>1. Stamped(r, v)
      BY <1>1, EndedStamp DEF Request, Stamped
    <3>2. req' = [req EXCEPT ![r] = v] /\ UNCHANGED <<clock, event>>
      BY <1>7, <2>2 DEF LockPerson
    <3> HIDE DEF v
    <3> QED BY <3>1, <3>2, StampOf
  <2> QED BY <1>7, <2>1, <2>2 DEF LockPerson
<1>8. CASE Commit(r)
  <2> DEFINE v == [req[r] EXCEPT !.pc = "answered", !.answer = Result(r), !.stored = TRUE,
                                 !.done = clock]
  <2>1. v.at = req[r].at
    BY <1>1 DEF Request
  <2>2. req' = [req EXCEPT ![r] = v] /\ clock' = clock
    BY <1>8 DEF Commit
  <2> HIDE DEF v
  <2>3. \A s \in Requests : req'[s].at = req[s].at
    BY <2>1, <2>2 DEF IInv, TypeOK
  <2>4. \A s \in Requests : event'[s] = event[s] \/ event'[s].at = req[s].at
    BY <1>8 DEF Commit, IInv, TypeOK
  <2> QED BY <2>2, <2>3, <2>4 DEF StampsArePast
<1>9. CASE Lose(r)
  <2>1. Stamped(r, Ended(r, "lost"))
    BY EndedStamp DEF Stamped
  <2> QED BY <1>9, <2>1, StampOf DEF Lose
<1> QED BY <1>2, <1>5, <1>6, <1>7, <1>8, <1>9 DEF Handle

LEMMA StampsStay == IInv /\ StampsArePast /\ [Next]_vars => StampsArePast'
<1> SUFFICES ASSUME IInv, StampsArePast, [Next]_vars PROVE StampsArePast'
  OBVIOUS
<1>1. CASE \E r \in Requests : Arrive(r) \/ Handle(r) \/ Lose(r)
  BY <1>1, HandleStamps
<1>2. CASE \E e \in Requests : BeginCancel(e) \/ FinishCancel(e) \/ ClaimJob(e)
  <2>1. PICK e \in Requests : BeginCancel(e) \/ FinishCancel(e) \/ ClaimJob(e)
    BY <1>2
  <2>2. UNCHANGED <<clock, req>>
    BY <2>1 DEF BeginCancel, FinishCancel, ClaimJob
  <2>3. event[e] \in Event \cup {None}
    BY Known
  <2>4. \A f \in Requests : event'[f] # None => event[f] # None /\ event'[f].at = event[f].at
    <3>1. CASE event' = event
      BY <3>1
    <3>2. ASSUME NEW status, event[e] # None, event' = [event EXCEPT ![e].status = status]
          PROVE  \A f \in Requests : event'[f] # None => event[f] # None /\ event'[f].at = event[f].at
      BY <2>3, <3>2 DEF IInv, TypeOK, Event
    <3>3. FinishCancel(e) => event[e] # None
      BY DEF FinishCancel, IInv, EventsAreMade
    <3> QED BY <2>1, <3>1, <3>2, <3>3 DEF BeginCancel, FinishCancel, ClaimJob
  <2> QED BY <2>2, <2>4 DEF StampsArePast
<1>3. CASE Tick
  <2>1. \A r \in Requests : /\ req[r].at \in Nat
                            /\ event[r] # None => event[r].at \in Nat
    BY Known DEF Request, Event
  <2> QED BY <1>3, <2>1, Clocks DEF Tick, StampsArePast
<1>4. CASE UNCHANGED vars
  BY <1>4 DEF vars, StampsArePast
<1> QED BY <1>1, <1>2, <1>3, <1>4 DEF Next

LEMMA ALatestRival ==
  ASSUME IInv, StampsArePast, NEW r \in Requests, Rivals(r) # {} PROVE LatestRivals(r) # {}
<1> DEFINE S == {event[e].at : e \in Rivals(r)}
<1>1. \A e \in Rivals(r) : event[e].at \in Nat /\ event[e].at <= clock
  BY Known DEF Rivals, Active, Event, StampsArePast
<1>2. S \in SUBSET Nat /\ S # {} /\ \A n \in S : n <= clock
  BY <1>1
<1>3. \E m \in S : \A n \in S : n <= m
  <2> HIDE DEF S
  <2> QED BY <1>2, Clocks, Greatest
<1>4. PICK e \in Rivals(r) : \A n \in S : n <= event[e].at
  BY <1>3
<1> QED BY <1>4 DEF LatestRivals

LEMMA NobodyIsStuck == IInv /\ StampsArePast => SomeoneGoesOn
<1> SUFFICES ASSUME IInv, StampsArePast, NEW r \in Requests, Pending(r)
             PROVE  \E s \in Requests : CanGoOn(s)
  BY DEF SomeoneGoesOn
<1>1. \A s \in Requests : Rivals(s) = {} \/ LatestRivals(s) # {}
  BY ALatestRival
<1>2. CASE \E s \in Requests : At(s, "decided")
  BY <1>2 DEF CanGoOn, At
<1>3. CASE ~\E s \in Requests : At(s, "decided")
  <2>1. \A p : PersonFree(p)
    BY <1>3 DEF PersonFree, At
  <2>2. CASE \E s \in Requests : At(s, "keyed")
    BY <1>1, <2>1, <2>2 DEF CanGoOn, PersonGranted
  <2>3. CASE ~\E s \in Requests : At(s, "keyed")
    <3>1. \A k : KeyFree(k)
      BY <1>3, <2>3 DEF KeyFree, At
    <3>2. req[r].pc \in {"received", "unreplayed", "begun"}
      BY <1>3, <2>3, Known DEF Pending, Request, PC, At
    <3> QED BY <1>1, <2>1, <3>1, <3>2 DEF CanGoOn, KeyGranted, PersonGranted, At
  <2> QED BY <2>2, <2>3
<1> QED BY <1>2, <1>3

\* However requests race for the locks of keys and persons, one that has not ended
\* yet can go on: they never all wait for each other.
THEOREM NobodyWaitsForEver == Spec => []SomeoneGoesOn
<1>1. Init => IInv /\ StampsArePast
  BY InitHolds DEF Init, NoRequest, StampsArePast
<1>2. IInv /\ StampsArePast /\ [Next]_vars => IInv' /\ StampsArePast'
  BY StepKeeps, StampsStay
<1> QED BY <1>1, <1>2, NobodyIsStuck, PTL DEF Spec

-----------------------------------------------------------------------------
(***************************************************************************)
(* Repeated requests. As long as the record of an answered request is      *)
(* honoured nobody replaces it: whoever holds the lock of the key has not  *)
(* found it, and so decides with a stamp after its end.                    *)
(***************************************************************************)
\* Nobody was received in time to come, and only an answered request has stored.
Timely(v, now) == v.received <= now /\ (v.stored => v.pc = "answered")

Storer(v) == v.pc = "answered" /\ v.stored /\ v.key # None

\* The record of a request that stored it, until it has expired by the clock.
RecordStands(v) ==
  Storer(v) => \/ clock >= v.at + Ttl
               \/ /\ record[v.key] # None
                  /\ record[v.key].event = v.answer
                  /\ record[v.key].expires >= v.at + Ttl

SameAnswer(v, w) ==
  Storer(v) /\ w.pc = "answered" /\ w.key = v.key /\ w.received > v.done /\ w.done < v.at + Ttl
    => w.answer = v.answer

RepeatInv ==
  /\ \A r \in Requests : Timely(req[r], clock) /\ RecordStands(req[r])
  /\ \A r, s \in Requests : SameAnswer(req[r], req[s])

LEMMA RowTypes ==
  ASSUME IInv, NEW r \in Requests
  PROVE  /\ req[r] \in Request /\ req[r].at \in Nat /\ req[r].received \in Nat /\ req[r].done \in Nat
         /\ req[r].stored \in BOOLEAN
BY Known DEF Request

\* A row that is not answered before or after the step.
OnItsWay(v, w) == /\ v.pc # "answered" /\ w.pc # "answered"
                  /\ w.received \in {0, clock, v.received} /\ (w.stored => v.stored)

LEMMA QuietStep ==
  ASSUME IInv, RepeatInv, record' = record, clock' \in Nat, clock <= clock',
         \A r \in Requests : req'[r] = req[r] \/ OnItsWay(req[r], req'[r])
  PROVE  RepeatInv'
<1>1. ASSUME NEW r \in Requests PROVE Timely(req'[r], clock') /\ RecordStands(req[r])'
  <2>1. Timely(req[r], clock) /\ RecordStands(req[r])
    BY DEF RepeatInv
  <2>2. CASE req'[r] = req[r]
    BY <2>1, <2>2, RowTypes, Clocks, ConstantsAssumption DEF Timely, RecordStands, Storer
  <2>3. CASE OnItsWay(req[r], req'[r])
    BY <2>1, <2>3, RowTypes, Clocks DEF OnItsWay, Timely, RecordStands, Storer
  <2> QED BY <2>2, <2>3
<1>2. \A r, s \in Requests : SameAnswer(req'[r], req'[s])
  BY DEF RepeatInv, SameAnswer, Storer, OnItsWay
<1> QED BY <1>1, <1>2 DEF RepeatInv

\* One row that is on its way.
LEMMA RowOnItsWay ==
  ASSUME IInv, RepeatInv, NEW r \in Requests, NEW v, OnItsWay(req[r], v),
         req' = [req EXCEPT ![r] = v], UNCHANGED <<clock, record>>
  PROVE  RepeatInv'
<1>1. \A s \in Requests : req'[s] = req[s] \/ OnItsWay(req[s], req'[s])
  BY DEF IInv, TypeOK
<1> QED BY <1>1, Clocks, QuietStep

\* A request that is answered from the record of its key.
LEMMA ReplayIsRight ==
  ASSUME IInv, RepeatInv, NEW r \in Requests, req[r].pc # "answered", NEW v \in Request,
         req' = [req EXCEPT ![r] = v], UNCHANGED <<clock, record>>,
         v.received = req[r].received, v.stored = req[r].stored,
         v.done = clock, v.answer = record[v.key].event
  PROVE  RepeatInv'
<1>1. \A s \in Requests : req'[s] = IF s = r THEN v ELSE req[s]
  BY DEF IInv, TypeOK
<1>2. Timely(req[r], clock) /\ ~v.stored
  BY DEF RepeatInv, Timely
<1>3. ASSUME NEW s \in Requests PROVE Timely(req'[s], clock') /\ RecordStands(req[s])'
  BY <1>1, <1>2 DEF RepeatInv, Timely, RecordStands, Storer
<1>4. ASSUME NEW s \in Requests, NEW t \in Requests PROVE SameAnswer(req'[s], req'[t])
  <2>1. CASE s = r
    BY <1>1, <1>2, <2>1 DEF SameAnswer, Storer
  <2>2. CASE s # r /\ t # r
    BY <1>1, <2>2 DEF RepeatInv, SameAnswer
  <2>3. CASE s # r /\ t = r
    <3>1. RecordStands(req[s])
      BY DEF RepeatInv
    <3> QED BY <1>1, <2>3, <3>1, RowTypes, Clocks, ConstantsAssumption
            DEF SameAnswer, Storer, RecordStands
  <2> QED BY <2>1, <2>2, <2>3
<1> QED BY <1>3, <1>4 DEF RepeatInv

LEMMA CommitIsRight ==
  ASSUME IInv, StampsArePast, RepeatInv, NEW r \in Requests, Commit(r) PROVE RepeatInv'
<1>1. /\ Answered(r).at = req[r].at /\ Answered(r).received = req[r].received
      /\ Answered(r).done = clock
  BY RowTypes DEF Answered, Request
<1> USE Committing, Committed, Written
<1>2. clock \in Nat /\ req[r].at <= clock /\ req[r].received <= clock
  BY Clocks DEF StampsArePast, RepeatInv, Timely
<1>3. req[r].key # None => record[req[r].key] = None \/ record[req[r].key].expires <= req[r].at
  BY DEF Knows, KnowsKey, KeyHeld
\* What another has stored under its key is over.
<1>4. ASSUME NEW s \in Requests \ {r}, Storer(req[s]), req[s].key = req[r].key
      PROVE  clock >= req[s].at + Ttl
  <2> DEFINE row == record[req[r].key]
  <2>1. clock >= req[s].at + Ttl \/ (row # None /\ row.expires >= req[s].at + Ttl)
    BY <1>4 DEF RepeatInv, RecordStands
  <2>2. req[r].key \in Keys
    BY <1>4 DEF Storer
  <2>3. row \in Record \cup {None}
    BY <2>2 DEF IInv, TypeOK
  <2>4. row # None => row.expires \in Nat /\ row.expires <= req[r].at
    BY <1>3, <2>2, <2>3, ConstantsAssumption DEF Record
  <2> HIDE DEF row
  <2> QED BY <1>2, <2>1, <2>4, RowTypes, ConstantsAssumption
<1>5. ASSUME NEW s \in Requests PROVE Timely(req'[s], clock') /\ RecordStands(req[s])'
  <2>1. CASE s = r
    <3>1. RecordStands(req[s])'
      BY <1>1, <2>1, ConstantsAssumption DEF RecordStands, Storer
    <3> QED BY <1>1, <1>2, <2>1, <3>1 DEF Timely
  <2>2. CASE s # r
    <3>1. Timely(req[s], clock) /\ RecordStands(req[s]) /\ req'[s] = req[s]
      BY <2>2 DEF RepeatInv
    <3>2. Storer(req[s]) => req[s].key \in Keys
      BY RowTypes DEF Storer, Request
    <3>3. CASE req[s].key = req[r].key
      BY <1>4, <2>2, <3>1, <3>3 DEF RecordStands, Storer, Timely
    <3>4. CASE req[s].key # req[r].key
      BY <3>1, <3>2, <3>4 DEF RecordStands, Storer, Timely
    <3> QED BY <3>3, <3>4
  <2> QED BY <2>1, <2>2
<1>6. ASSUME NEW s \in Requests, NEW t \in Requests PROVE SameAnswer(req'[s], req'[t])
  <2>1. \A u \in Requests : req'[u].received <= clock
    BY <1>5 DEF Timely
  <2>2. CASE s = r
    <3>1. ~(req'[t].received > clock)
      BY <1>2, <2>1, Committed, RowTypes DEF Request
    <3> QED BY <1>1, <2>2, <3>1 DEF SameAnswer
  <2>3. CASE s # r /\ t = r
    <3>1. req[s].at \in Nat
      BY RowTypes
    <3> QED BY <1>1, <1>2, <1>4, <2>3, <3>1, ConstantsAssumption DEF SameAnswer, Storer
  <2>4. CASE s # r /\ t # r
    BY <2>4 DEF RepeatInv, SameAnswer
  <2> QED BY <2>2, <2>3, <2>4
<1> QED BY <1>5, <1>6 DEF RepeatInv

LEMMA EndedFields ==
  \A r, pc : Ended(r, pc).pc = pc /\ Ended(r, pc).received = 0 /\ Ended(r, pc).stored = FALSE
BY DEF Ended, NoRequest

LEMMA HandleRepeats ==
  ASSUME IInv, StampsArePast, RepeatInv, NEW r \in Requests, Arrive(r) \/ Handle(r) \/ Lose(r)
  PROVE  RepeatInv'
<1> USE RowTypes
<1>1. ASSUME NEW pc, pc # "answered", req[r].pc # "answered",
             req' = [req EXCEPT ![r] = Ended(r, pc)], UNCHANGED <<clock, record>>
      PROVE  RepeatInv'
  <2>1. OnItsWay(req[r], Ended(r, pc))
    BY <1>1, EndedFields DEF OnItsWay
  <2> QED BY <1>1, <2>1, RowOnItsWay
<1>2. ASSUME NEW pc, pc # "answered", req[r].pc # "answered", Advance(r, pc), UNCHANGED <<clock, record>>
      PROVE  RepeatInv'
  <2> DEFINE v == [req[r] EXCEPT !.pc = pc]
  <2>1. OnItsWay(req[r], v)
    BY <1>2 DEF OnItsWay, Request
  <2>2. req' = [req EXCEPT ![r] = v]
    BY <1>2 DEF Advance
  <2> HIDE DEF v
  <2> QED BY <1>2, <2>1, <2>2, RowOnItsWay
<1>3. ASSUME NEW now, Recorded(r, now), Replayed(r), req[r].pc # "answered", UNCHANGED <<clock, record>>
      PROVE  RepeatInv'
  <2>1. CASE ~SameFingerprint(r)
    BY <1>1, <1>3, <2>1 DEF Replayed
  <2>2. CASE SameFingerprint(r)
    <3> DEFINE v == [req[r] EXCEPT !.pc = "answered", !.answer = record[req[r].key].event,
                                   !.done = clock]
    <3>1. /\ v.received = req[r].received /\ v.stored = req[r].stored /\ v.done = clock
          /\ v.key = req[r].key /\ v.answer = record[req[r].key].event
      BY DEF Request
    <3>2. req' = [req EXCEPT ![r] = v]
      BY <1>3, <2>2 DEF Replayed
    <3>3. v \in Request
      <4>1. IInv'
        BY StepKeeps DEF Next
      <4>2. req'[r] = v
        BY <3>2 DEF IInv, TypeOK
      <4> HIDE DEF v
      <4> QED BY <4>1, <4>2 DEF IInv, TypeOK
    <3> HIDE DEF v
    <3> QED BY <1>3, <3>1, <3>2, <3>3, ReplayIsRight
  <2> QED BY <2>1, <2>2
<1>4. CASE Arrive(r)
  <2>1. PICK k \in Keys \cup {None}, p \in Persons, action \in Actions, active \in BOOLEAN :
          Receive(r, k, p, action, active)
    BY <1>4 DEF Arrive
  <2>2. CASE ~active
    BY <1>1, <2>1, <2>2 DEF Receive, At
  <2>3. CASE active
    <3> DEFINE v == [req[r] EXCEPT !.pc = "received", !.key = k, !.person = p, !.action = action,
                                   !.received = clock]
    <3>1. OnItsWay(req[r], v)
      BY <2>1 DEF Receive, At, OnItsWay, Request
    <3>2. req' = [req EXCEPT ![r] = v] /\ UNCHANGED <<clock, record>>
      BY <2>1, <2>3 DEF Receive
    <3> HIDE DEF v
    <3> QED BY <3>1, <3>2, RowOnItsWay
  <2> QED BY <2>2, <2>3
<1>5. CASE FastReplay(r)
  BY <1>2, <1>3, <1>5 DEF FastReplay, At
<1>6. CASE \E admitted \in BOOLEAN : Admit(r, admitted)
  <2>1. PICK admitted \in BOOLEAN : Admit(r, admitted)
    BY <1>6
  <2>2. CASE ~admitted
    BY <1>1, <2>1, <2>2 DEF Admit, At
  <2>3. CASE admitted
    <3> DEFINE v == [req[r] EXCEPT !.pc = "begun", !.at = clock]
    <3>1. OnItsWay(req[r], v)
      BY <2>1 DEF Admit, At, OnItsWay, Request
    <3>2. req' = [req EXCEPT ![r] = v] /\ UNCHANGED <<clock, record>>
      BY <2>1, <2>3 DEF Admit
    <3> HIDE DEF v
    <3> QED BY <3>1, <3>2, RowOnItsWay
  <2> QED BY <2>2, <2>3
<1>7. CASE LockKey(r)
  BY <1>2, <1>3, <1>7 DEF LockKey, KeyGranted, At
<1>8. CASE LockPerson(r)
  <2>1. req[r].pc \in {"keyed", "begun"} /\ UNCHANGED <<clock, record>>
    BY <1>8 DEF LockPerson, PersonGranted, At
  <2>2. CASE Advance(r, "decided")
    BY <1>2, <2>1, <2>2
  <2>3. ASSUME NEW e, req' = [req EXCEPT ![r] = [req[r] EXCEPT !.pc = "decided", !.merged = e]]
        PROVE  RepeatInv'
    <3> DEFINE v == [req[r] EXCEPT !.pc = "decided", !.merged = e]
    <3>1. OnItsWay(req[r], v)
      BY <2>1 DEF OnItsWay, Request
    <3>2. req' = [req EXCEPT ![r] = v]
      BY <2>3
    <3> HIDE DEF v
    <3> QED BY <2>1, <3>1, <3>2, RowOnItsWay
  <2>4. CASE req' = [req EXCEPT ![r] = Ended(r, "conflict")]
    BY <1>1, <2>1, <2>4
  <2> QED BY <1>8, <2>2, <2>3, <2>4 DEF LockPerson
<1>9. CASE Lose(r)
  BY <1>1, <1>9 DEF Lose, Finished
<1> QED BY <1>4, <1>5, <1>6, <1>7, <1>8, <1>9, CommitIsRight DEF Handle

LEMMA RepeatsStay == IInv /\ StampsArePast /\ RepeatInv /\ [Next]_vars => RepeatInv'
<1> SUFFICES ASSUME IInv, StampsArePast, RepeatInv, [Next]_vars PROVE RepeatInv'
  OBVIOUS
<1>1. CASE \E r \in Requests : Arrive(r) \/ Handle(r) \/ Lose(r)
  BY <1>1, HandleRepeats
<1>2. CASE (\E e \in Requests : BeginCancel(e) \/ FinishCancel(e) \/ ClaimJob(e)) \/ Tick \/ UNCHANGED vars
  <2>1. UNCHANGED <<req, record>> /\ (clock' = clock \/ clock' = clock + 1)
    BY <1>2 DEF BeginCancel, FinishCancel, ClaimJob, Tick, vars
  <2> QED BY <2>1, Clocks, QuietStep
<1> QED BY <1>1, <1>2 DEF Next

\* Whoever repeats a request while its record lives is told of the same scan, also
\* when that scan was merged or canceled since.
THEOREM RepeatsAgree == Spec => []RepeatGetsSameScan
<1>1. Init => IInv /\ StampsArePast /\ RepeatInv
  BY InitHolds DEF Init, NoRequest, StampsArePast, RepeatInv, Timely, RecordStands, SameAnswer, Storer
<1>2. IInv /\ StampsArePast /\ RepeatInv /\ [Next]_vars => IInv' /\ StampsArePast' /\ RepeatInv'
  BY StepKeeps, StampsStay, RepeatsStay
<1>3. RepeatInv => RepeatGetsSameScan
  BY DEF RepeatInv, SameAnswer, Storer, RepeatGetsSameScan, Repeats, At
<1> QED BY <1>1, <1>2, <1>3, PTL DEF Spec
=============================================================================
