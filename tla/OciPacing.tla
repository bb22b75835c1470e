------------------------------ MODULE OciPacing ------------------------------
(***************************************************************************)
(* The application pacing of OCI submissions: each attempt, in a           *)
(* transaction under one advisory lock, reads the reservations of the last *)
(* second and is admitted or deferred. Module MailDelivery leaves the      *)
(* decision open (actions Invoke and Defer); this module is the decision.  *)
(*                                                                         *)
(* CURRENT_TIMESTAMP is the start of a transaction, so an attempt may wait *)
(* for the lock, and then decide, with an old stamp. The call follows the  *)
(* commit at any later time.                                               *)
(***************************************************************************)
EXTENDS Naturals, FiniteSets

CONSTANTS
  Attempts,      \* delivery attempts, of all jobs and backends
  Pace,          \* ticks between reservations (50 ms)
  Second,        \* ticks of the window that is counted (1 s)
  MaxPerSecond,  \* reservations in a window (20)
  MaxTime,       \* bound: the last tick
  None           \* null

ASSUME ConstantsAssumption ==
  /\ Pace \in Nat \ {0} /\ Second \in Nat /\ MaxPerSecond \in Nat \ {0} /\ MaxTime \in Nat
  /\ Pace <= Second
  /\ None \notin Nat

\* The two limits of the code agree: 20 reservations 50 ms apart fill the second.
ASSUME PaceAssumption == Second <= MaxPerSecond * Pace

VARIABLES
  clock,
  attempt   \* the attempts' rows

vars == <<clock, attempt>>

PC == {"cleared", "begun", "invoked", "deferred"}
Row == [pc : PC, now : Nat, invokedAt : Nat \cup {None}, scheduledAt : Nat \cup {None}]

Init ==
  /\ clock = 0
  /\ attempt = [a \in Attempts |->
       [pc |-> "cleared", now |-> 0, invokedAt |-> None, scheduledAt |-> None]]

Begin(a) ==
  /\ attempt[a].pc = "cleared"
  /\ attempt' = [attempt EXCEPT ![a].pc = "begun", ![a].now = clock]
  /\ UNCHANGED clock

Invoked == {a \in Attempts : attempt[a].invokedAt # None}
\* The reservations the query finds: no upper bound, so later stamps count too.
InWindow(now) == {a \in Invoked : attempt[a].invokedAt + Second > now}

\* The times the attempt has to wait for: the pace after the latest reservation,
\* and, in a full window, just after the oldest has left it.
NotBefore(now) ==
  LET window == InWindow(now) IN
  {attempt[a].invokedAt + Pace : a \in window} \cup
  (IF Cardinality(window) >= MaxPerSecond
   THEN {attempt[a].invokedAt + Second + 1 :
           a \in {b \in window : \A c \in window : attempt[b].invokedAt <= attempt[c].invokedAt}}
   ELSE {})

AdmittedEarly(now) == \A t \in NotBefore(now) : t <= now + 1
Admitted(now) == \A t \in NotBefore(now) : t <= now

InvokedRow(r) == [r EXCEPT !.pc = "invoked", !.invokedAt = r.now]

\* Under the lock, which the transaction holds to its commit.
Admit(a) ==
  /\ attempt[a].pc = "begun"
  /\ Admitted(attempt[a].now)
  /\ attempt' = [attempt EXCEPT ![a] = InvokedRow(@)]
  /\ UNCHANGED clock

TooSoon(now) == now + 1
NextAt(now) == CHOOSE t \in NotBefore(now) : \A u \in NotBefore(now) : u <= t

Defer(a) ==
  /\ attempt[a].pc = "begun"
  /\ ~Admitted(attempt[a].now)
  /\ attempt' = [attempt EXCEPT ![a].pc = "deferred", ![a].scheduledAt = NextAt(attempt[a].now)]
  /\ UNCHANGED clock

Tick ==
  /\ clock < MaxTime
  /\ clock' = clock + 1
  /\ UNCHANGED attempt

Next ==
  \/ \E a \in Attempts : Begin(a) \/ Admit(a) \/ Defer(a)
  \/ Tick

Spec == Init /\ [][Next]_vars

-----------------------------------------------------------------------------
(***************************************************************************)
(* Properties.                                                             *)
(***************************************************************************)
\* The variables keep their types, and a row is stamped exactly when it is
\* admitted and scheduled exactly when it is deferred.
TypeOK ==
  /\ clock \in Nat
  /\ attempt \in [Attempts -> Row]
  /\ \A a \in Attempts : /\ attempt[a].invokedAt # None <=> attempt[a].pc = "invoked"
                         /\ attempt[a].scheduledAt # None <=> attempt[a].pc = "deferred"

\* Any two reservations are a pace apart, although a transaction may start
\* before and decide after another: its old stamp is never squeezed in.
ReservationsSpaced ==
  \A a, b \in Invoked :
    a # b => \/ attempt[a].invokedAt + Pace <= attempt[b].invokedAt
             \/ attempt[b].invokedAt + Pace <= attempt[a].invokedAt

\* No window of a second that ends at any time holds more reservations than the limit.
ReservationRate ==
  \A t \in 0..MaxTime :
    Cardinality({a \in Invoked : attempt[a].invokedAt <= t /\ t < attempt[a].invokedAt + Second})
      <= MaxPerSecond

\* A retry that begins at the scheduled time is admitted unless others reserve
\* in between: the deferral has waited for every reservation, late ones too. It
\* takes the pace for it: of later stamps, only so many fit into the window then.
DeferralIsEnough == [][\A a \in Attempts : Defer(a) => Admitted(attempt'[a].scheduledAt)]_vars
=============================================================================
