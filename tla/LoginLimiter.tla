---------------------------- MODULE LoginLimiter ----------------------------
(***************************************************************************)
(* The limiter of login attempts, of tenants and of the platform, in the   *)
(* memory of one backend process. An attempt counts under four keys, by    *)
(* address, tenant, identifier and all three; each key has a fixed window  *)
(* that starts with its first attempt. The table of counters is bounded,   *)
(* and is pruned only when an attempt finds it full.                       *)
(***************************************************************************)
EXTENDS Naturals, FiniteSets, Sequences

CONSTANTS
  Ips, LookupKeys, Identifiers,  \* a platform login looks up the key "platform"
  Limit,         \* attempts of each dimension in a window (60, 100, 10, 8)
  Window,        \* ticks of a window (15 min)
  MaxCounters,   \* counters in the table (20000)
  MaxLogins,     \* bound: attempts
  LastTime       \* bound: the last tick

ASSUME LimiterAssumption ==
  /\ Limit \in [{"ip", "tenant", "identifier", "composite"} -> Nat \ {0}]
  /\ Window \in Nat \ {0} /\ MaxCounters \in Nat /\ MaxLogins \in Nat /\ LastTime \in Nat

VARIABLES
  time,
  counter,   \* the table: a counter or none for each key
  logins,    \* attempts so far
  tried,     \* history since the process started: the times of each key's attempts,
  passed     \* and of those that were let through

limiterVars == <<time, counter, logins, tried, passed>>

Attempt == Ips \X LookupKeys \X Identifiers

\* The keys of an attempt, in the order they are counted.
KeysOf(a) == << <<"ip", a[1]>>, <<"tenant", a[2]>>, <<"identifier", a[3]>>, <<"composite", a>> >>
KeySet(a) == {KeysOf(a)[i] : i \in 1..4}
Keys == UNION {KeySet(a) : a \in Attempt}

Counter == [count : Nat \ {0}, resetAt : Nat]
NoCounter == [count |-> 0, resetAt |-> 0]
Live(c) == c # NoCounter /\ c.resetAt > time
Size(table) == Cardinality({k \in Keys : table[k] # NoCounter})

InitLimiter ==
  /\ time = 0 /\ logins = 0
  /\ counter = [k \in Keys |-> NoCounter]
  /\ tried = [k \in Keys |-> <<>>] /\ passed = [k \in Keys |-> <<>>]

Full(table) == Size(table) >= MaxCounters

Pruned ==
  IF Full(counter) THEN [k \in Keys |-> IF Live(counter[k]) THEN counter[k] ELSE NoCounter]
  ELSE counter

CountedAnew(c) == [count |-> c.count + 1, resetAt |-> time + Window]
Counted(c) == [c EXCEPT !.count = @ + 1]

OnceTooOften(count, dimension) == count <= Limit[dimension] + 1
Within(count, dimension) == count <= Limit[dimension]

\* One key of an attempt: the table and the verdict so far are carried along.
Increment(sofar, k) ==
  LET c == sofar.table[k]
      set(counted, allowed) ==
        [table |-> [sofar.table EXCEPT ![k] = counted], allowed |-> sofar.allowed /\ allowed]
  IN IF Live(c) THEN set(Counted(c), Within(Counted(c).count, k[1]))
     ELSE IF c = NoCounter /\ Full(sofar.table) THEN set(c, FALSE)
     ELSE set([count |-> 1, resetAt |-> time + Window], TRUE)

\* Every key is counted, also once the attempt is refused.
Decision(a) ==
  LET k == KeysOf(a) IN
  Increment(Increment(Increment(Increment(
    [table |-> Pruned, allowed |-> TRUE], k[1]), k[2]), k[3]), k[4])

Noted(history, a) ==
  [k \in Keys |-> IF k \in KeySet(a) THEN Append(history[k], time) ELSE history[k]]

\* The call runs to its end in one turn of the event loop.
Login(a) ==
  /\ logins < MaxLogins
  /\ logins' = logins + 1
  /\ LET decision == Decision(a) IN
       /\ counter' = decision.table
       /\ tried' = Noted(tried, a)
       /\ passed' = IF decision.allowed THEN Noted(passed, a) ELSE passed
  /\ UNCHANGED time

\* Nothing of the table is kept.
RestartLimiter ==
  /\ counter' = [k \in Keys |-> NoCounter]
  /\ tried' = [k \in Keys |-> <<>>] /\ passed' = [k \in Keys |-> <<>>]
  /\ UNCHANGED <<time, logins>>

Wait ==
  /\ time < LastTime
  /\ time' = time + 1
  /\ UNCHANGED <<counter, logins, tried, passed>>

NextLimiter ==
  \/ \E a \in Attempt : Login(a)
  \/ RestartLimiter
  \/ Wait

LimiterSpec == InitLimiter /\ [][NextLimiter]_limiterVars

-----------------------------------------------------------------------------
(***************************************************************************)
(* Properties.                                                             *)
(***************************************************************************)
\* The variables keep their types, and the table its bound, although an attempt
\* adds up to four counters and finds the table full or not only between them.
LimiterTypeOK ==
  /\ time \in 0..LastTime /\ logins \in 0..MaxLogins
  /\ counter \in [Keys -> Counter \cup {NoCounter}]
  /\ Size(counter) <= MaxCounters
  /\ tried \in [Keys -> Seq(0..LastTime)] /\ passed \in [Keys -> Seq(0..LastTime)]

\* However the attempts fall, a key never lets more than twice its limit through
\* in any time as long as a window while the process lives: one that passes comes
\* a window after the one that many before it. Pruning loses no counter that
\* still counts, and a window starts only when one is over.
SlidingBound ==
  \A k \in Keys : \A i, j \in 1..Len(passed[k]) :
    j = i + 2 * Limit[k[1]] => passed[k][j] >= passed[k][i] + Window

\* The limit-th last attempt of the key is less than a window ago.
TriedUpToLimit(k) ==
  \E i \in 1..Len(tried[k]) :
    i + Limit[k[1]] = Len(tried[k]) + 1 /\ time < tried[k][i] + Window

\* An attempt is refused only for a cause: one of its keys was tried up to its
\* limit within the last window, or the table has no room for its new keys. No
\* refusal makes a later one, and nobody stays out longer than a window.
RefusedForACause ==
  [][\A a \in Attempt :
       Login(a) /\ passed' = passed =>
         \/ \E k \in KeySet(a) : TriedUpToLimit(k)
         \/ Size(Pruned) + Cardinality({k \in KeySet(a) : Pruned[k] = NoCounter}) > MaxCounters
    ]_limiterVars
=============================================================================
