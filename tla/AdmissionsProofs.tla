--------------------------- MODULE AdmissionsProofs ---------------------------
(***************************************************************************)
(* Proofs about the three components that admit: OciPacing, for any number *)
(* of attempts, any pace and any stamps; LoginLimiter, for any keys,       *)
(* limits, window and table; Provisioning, for any requests, keys, bodies, *)
(* codes and number of tenants. They share nothing but the module.         *)
(***************************************************************************)
EXTENDS OciPacing, LoginLimiter, Provisioning, Integers, FiniteSetTheorems, SequenceTheorems,
        WellFoundedInduction, TLAPS

(***************************************************************************)
(* That reservations are spaced. An admission reads only the window of the *)
(* last second; a reservation outside it is a pace away all the same,      *)
(* because the pace is at most a second. The time a deferral schedules     *)
(* plays no part, so the invariant leaves its type open.                   *)
(***************************************************************************)
\* What the argument needs of the rows: their shape and the types of the stamps.
RowShape ==
  /\ DOMAIN attempt = Attempts
  /\ \A a \in Attempts : DOMAIN attempt[a] = {"pc", "now", "invokedAt", "scheduledAt"}
StampTypes ==
  /\ clock \in Nat
  /\ \A a \in Attempts : attempt[a].now \in Nat /\ attempt[a].invokedAt \in Nat \cup {None}

SpacingInv == RowShape /\ StampTypes /\ ReservationsSpaced

\* An admitted attempt is a pace after every reservation there is, counted or not.
LEMMA AdmittedIsSpaced ==
  ASSUME SpacingInv, NEW now \in Nat, Admitted(now), NEW b \in Invoked
  PROVE  attempt[b].invokedAt \in Nat /\ attempt[b].invokedAt + Pace <= now
<1> DEFINE t == attempt[b].invokedAt
<1>1. t \in Nat
  BY DEF SpacingInv, StampTypes, Invoked
<1>2. CASE t + Second > now
  <2>1. b \in InWindow(now)
    BY <1>2 DEF InWindow
  <2>2. t + Pace \in NotBefore(now)
    BY <2>1, Zenon DEF NotBefore
  <2> QED
    BY <1>1, <2>2 DEF Admitted
<1>3. CASE ~(t + Second > now)
  BY <1>1, <1>3, ConstantsAssumption
<1> QED
  BY <1>2, <1>3

LEMMA SpacingInit == Init => SpacingInv
BY ConstantsAssumption DEF Init, SpacingInv, RowShape, StampTypes, ReservationsSpaced, Invoked

\* A step that touches no stamp and keeps the rows' shape keeps the spacing.
LEMMA SameStamps ==
  ASSUME SpacingInv, RowShape', \A a \in Attempts : attempt'[a].invokedAt = attempt[a].invokedAt
  PROVE  ReservationsSpaced'
BY DEF SpacingInv, ReservationsSpaced, Invoked

LEMMA BeginKeeps == ASSUME SpacingInv, NEW a \in Attempts, Begin(a) PROVE SpacingInv'
<1>1. RowShape'
  BY DEF SpacingInv, RowShape, Begin
<1>2. \A b \in Attempts : attempt'[b].invokedAt = attempt[b].invokedAt
  BY DEF SpacingInv, RowShape, Begin
<1>3. StampTypes'
  BY <1>2 DEF SpacingInv, RowShape, StampTypes, Begin
<1> QED
  BY <1>1, <1>2, <1>3, SameStamps DEF SpacingInv

LEMMA DeferKeeps == ASSUME SpacingInv, NEW a \in Attempts, Defer(a) PROVE SpacingInv'
<1> DEFINE at == NextAt(attempt[a].now)
<1>1. attempt' = [attempt EXCEPT ![a].pc = "deferred", ![a].scheduledAt = at] /\ clock' = clock
  BY DEF Defer
<1> HIDE DEF at
<1>2. RowShape'
  BY <1>1 DEF SpacingInv, RowShape
<1>3. \A b \in Attempts : attempt'[b].invokedAt = attempt[b].invokedAt
                          /\ attempt'[b].now = attempt[b].now
  BY <1>1 DEF SpacingInv, RowShape
<1>4. StampTypes'
  BY <1>1, <1>3 DEF SpacingInv, StampTypes
<1> QED
  BY <1>2, <1>3, <1>4, SameStamps DEF SpacingInv

LEMMA AdmitKeeps == ASSUME SpacingInv, NEW a \in Attempts, Admit(a) PROVE SpacingInv'
<1> DEFINE now == attempt[a].now
<1>1. now \in Nat
  BY DEF SpacingInv, StampTypes
<1>2. \A b \in Invoked : attempt[b].invokedAt \in Nat /\ attempt[b].invokedAt + Pace <= now
  BY <1>1, AdmittedIsSpaced DEF Admit
<1>3. /\ RowShape'
      /\ clock' = clock
      /\ attempt'[a].now = now /\ attempt'[a].invokedAt = now
      /\ \A b \in Attempts \ {a} : attempt'[b] = attempt[b]
  BY DEF SpacingInv, RowShape, Admit, InvokedRow
<1>4. StampTypes'
  BY <1>1, <1>3 DEF SpacingInv, StampTypes
<1>5. ReservationsSpaced'
  BY <1>2, <1>3, Zenon DEF SpacingInv, ReservationsSpaced, Invoked
<1> QED
  BY <1>3, <1>4, <1>5 DEF SpacingInv

LEMMA SpacingNext == SpacingInv /\ [Next]_vars => SpacingInv'
<1> SUFFICES ASSUME SpacingInv, [Next]_vars PROVE SpacingInv'
  OBVIOUS
<1>1. ASSUME NEW a \in Attempts, Begin(a) \/ Admit(a) \/ Defer(a) PROVE SpacingInv'
  BY <1>1, BeginKeeps, AdmitKeeps, DeferKeeps
<1>2. CASE Tick
  BY <1>2 DEF Tick, SpacingInv, RowShape, StampTypes, ReservationsSpaced, Invoked
<1>3. CASE UNCHANGED vars
  BY <1>3 DEF vars, SpacingInv, RowShape, StampTypes, ReservationsSpaced, Invoked
<1> QED
  BY <1>1, <1>2, <1>3 DEF Next

\* Any two reservations are a pace apart, whatever order the transactions
\* started in and however long each waited for the lock.
THEOREM SpacingHolds == Spec => []ReservationsSpaced
<1>1. SpacingInv => ReservationsSpaced
  BY DEF SpacingInv
<1> QED
  BY SpacingInit, SpacingNext, <1>1, PTL DEF Spec
-----------------------------------------------------------------------------
(***************************************************************************)
(* Least and greatest elements of sets of numbers.                         *)
(***************************************************************************)
NatLess == {p \in Nat \X Nat : p[1] < p[2]}

LEMMA NatLessIsWF == IsWellFoundedOn(NatLess, Nat)
<1>1. OpToRel(<, Nat) = NatLess
  BY DEF OpToRel, NatLess
<1> QED BY <1>1, NatLessThanWellFounded

LEMMA Least ==
  ASSUME NEW S \in SUBSET Nat, S # {}
  PROVE  \E m \in S : \A n \in S : m <= n
<1>1. PICK m \in S : \A n \in S : ~(<<n, m>> \in NatLess)
  BY NatLessIsWF, WFMin, Zenon
<1>2. \A n \in S : n \in Nat /\ m \in Nat /\ ~(n < m)
  BY <1>1 DEF NatLess
<1> QED BY <1>1, <1>2

LEMMA Greatest ==
  ASSUME NEW S \in SUBSET Nat, S # {}, NEW b \in Nat, \A n \in S : n <= b
  PROVE  \E m \in S : \A n \in S : n <= m
<1> DEFINE U == {u \in Nat : \A n \in S : n <= u}
<1>1. PICK u \in U : \A w \in U : u <= w
  <2>1. U # {} /\ U \subseteq Nat
    OBVIOUS
  <2> HIDE DEF U
  <2> QED BY <2>1, Least
<1>2. u \in S
  <2> SUFFICES ASSUME u \notin S PROVE FALSE
    OBVIOUS
  <2>1. \A n \in S : n < u
    BY <1>1
  <2>2. u # 0
    <3>1. PICK n \in S : n < u
      BY <2>1
    <3> QED BY <3>1
  <2>3. u - 1 \in U
    BY <2>1, <2>2, <1>1
  <2> QED BY <2>3, <1>1
<1> QED BY <1>1, <1>2

-----------------------------------------------------------------------------
(***************************************************************************)
(* The rate. A stamp that is older than the attempt's own time may still   *)
(* be followed by later ones, so the window an attempt reads has no upper  *)
(* bound; but what any window of a second holds when the attempt joins it  *)
(* is among what the attempt has read.                                     *)
(***************************************************************************)
Past ==
  /\ IsFiniteSet(Invoked)
  /\ \A a \in Attempts : attempt[a].now <= clock
  /\ \A a \in Invoked : attempt[a].invokedAt <= clock

PacingInv == SpacingInv /\ Past /\ ReservationRate

LEMMA InvokedIsStamped ==
  ASSUME SpacingInv, NEW a \in Invoked PROVE a \in Attempts /\ attempt[a].invokedAt \in Nat
BY DEF SpacingInv, StampTypes, Invoked

\* A window that is full delays whoever finds it.
LEMMA FullWindowDelays ==
  ASSUME SpacingInv, Past, NEW now \in Nat, Admitted(now)
  PROVE  /\ IsFiniteSet(InWindow(now))
         /\ Cardinality(InWindow(now)) \in Nat
         /\ Cardinality(InWindow(now)) < MaxPerSecond
<1> DEFINE W == InWindow(now)
           stamps == {attempt[a].invokedAt : a \in W}
<1>1. W \subseteq Invoked
  BY DEF InWindow
<1>2. IsFiniteSet(W) /\ Cardinality(W) \in Nat
  BY <1>1, FS_Subset, FS_CardinalityType DEF Past
<1>3. ASSUME Cardinality(W) >= MaxPerSecond PROVE FALSE
  <2>1. W # {}
    <3>1. ASSUME W = {} PROVE FALSE
      <4>1. Cardinality(W) = 0
        BY <3>1, FS_EmptySet
      <4> QED BY <1>3, <4>1, ConstantsAssumption
    <3> QED BY <3>1
  <2>2. stamps \subseteq Nat /\ stamps # {}
    BY <1>1, <2>1, InvokedIsStamped
  <2>3. PICK m \in stamps : \A n \in stamps : m <= n
    BY <2>2, Least
  <2>4. PICK a \in W : attempt[a].invokedAt = m
    BY <2>3
  <2>5. \A c \in W : attempt[a].invokedAt <= attempt[c].invokedAt
    BY <2>3, <2>4
  <2>6. attempt[a].invokedAt + Second + 1 \in NotBefore(now)
    BY <1>3, <2>5, <2>4 DEF NotBefore
  <2>7. attempt[a].invokedAt \in Nat /\ attempt[a].invokedAt + Second > now
    BY <1>1, InvokedIsStamped DEF InWindow
  <2>8. attempt[a].invokedAt + Second + 1 <= now
    BY <2>6 DEF Admitted
  <2> QED BY <2>7, <2>8, ConstantsAssumption
<1> QED BY <1>2, <1>3, ConstantsAssumption

LEMMA RateInit == Init => Past /\ ReservationRate
<1> SUFFICES ASSUME Init PROVE Past /\ ReservationRate
  OBVIOUS
<1>1. Invoked = {}
  BY DEF Init, Invoked
<1>2. \A t \in 0..MaxTime :
        {a \in Invoked : attempt[a].invokedAt <= t /\ t < attempt[a].invokedAt + Second} = {}
  BY <1>1
<1> QED BY <1>1, <1>2, FS_EmptySet, ConstantsAssumption DEF Init, Past, ReservationRate

\* A step that touches no stamp.
LEMMA RateStays ==
  ASSUME PacingInv, RowShape', clock' \in Nat, clock <= clock',
         \A a \in Attempts : attempt'[a].invokedAt = attempt[a].invokedAt,
         \A a \in Attempts : attempt'[a].now = attempt[a].now \/ attempt'[a].now = clock
  PROVE  Past' /\ ReservationRate'
<1>1. Invoked' = Invoked
  BY DEF Invoked
<1>2. \A a \in Invoked : attempt'[a].invokedAt = attempt[a].invokedAt
  BY DEF Invoked
<1>3. Past'
  <2>1. \A a \in Invoked : attempt[a].invokedAt \in Nat /\ attempt[a].invokedAt <= clock
    BY InvokedIsStamped DEF PacingInv, Past
  <2>2. \A a \in Attempts : attempt[a].now \in Nat /\ attempt[a].now <= clock
    BY DEF PacingInv, Past, SpacingInv, StampTypes
  <2>3. clock \in Nat
    BY DEF PacingInv, SpacingInv, StampTypes
  <2> QED BY <1>1, <1>2, <2>1, <2>2, <2>3 DEF PacingInv, Past
<1>4. \A t \in 0..MaxTime :
        {a \in Invoked' : attempt'[a].invokedAt <= t /\ t < attempt'[a].invokedAt + Second}
          = {a \in Invoked : attempt[a].invokedAt <= t /\ t < attempt[a].invokedAt + Second}
  BY <1>1, <1>2
<1>5. ReservationRate'
  BY <1>4, Zenon DEF PacingInv, ReservationRate
<1> QED BY <1>3, <1>5

LEMMA RateAdmit == ASSUME PacingInv, NEW a \in Attempts, Admit(a) PROVE Past' /\ ReservationRate'
<1> DEFINE now == attempt[a].now
           W == InWindow(now)
<1>1. now \in Nat /\ now <= clock /\ clock \in Nat /\ clock' = clock
  BY DEF PacingInv, Past, SpacingInv, StampTypes, Admit
<1>2. IsFiniteSet(W) /\ Cardinality(W) \in Nat /\ Cardinality(W) < MaxPerSecond
  BY <1>1, FullWindowDelays DEF PacingInv, Admit
<1>3. /\ attempt'[a].now = now /\ attempt'[a].invokedAt = now
      /\ \A b \in Attempts \ {a} : attempt'[b] = attempt[b]
  BY DEF PacingInv, SpacingInv, RowShape, Admit, InvokedRow
<1>4. Invoked' = Invoked \cup {a}
  BY <1>1, <1>3, ConstantsAssumption DEF Invoked
<1>5. Past'
  <2>1. IsFiniteSet(Invoked')
    BY <1>4, FS_AddElement DEF PacingInv, Past
  <2> QED BY <1>1, <1>3, <1>4, <2>1 DEF PacingInv, Past, Invoked
<1>6. ASSUME NEW t \in 0..MaxTime
      PROVE  Cardinality({b \in Invoked' : attempt'[b].invokedAt <= t /\ t < attempt'[b].invokedAt + Second})
               <= MaxPerSecond
  <2> DEFINE S == {b \in Invoked : attempt[b].invokedAt <= t /\ t < attempt[b].invokedAt + Second}
             T == {b \in Invoked' : attempt'[b].invokedAt <= t /\ t < attempt'[b].invokedAt + Second}
  <2>1. t \in Nat
    BY ConstantsAssumption
  <2>2. IsFiniteSet(S) /\ Cardinality(S) \in Nat /\ Cardinality(S) <= MaxPerSecond
    BY FS_Subset, FS_CardinalityType DEF PacingInv, Past, ReservationRate
  <2>3. CASE now <= t
    <3>1. T \subseteq W \cup {a}
      <4> SUFFICES ASSUME NEW b \in T, b # a PROVE b \in W
        OBVIOUS
      <4>1. b \in Invoked /\ attempt'[b].invokedAt = attempt[b].invokedAt
        BY <1>3, <1>4 DEF Invoked
      <4>2. t < attempt[b].invokedAt + Second
        BY <4>1
      <4>3. attempt[b].invokedAt \in Nat
        BY <4>1, InvokedIsStamped DEF PacingInv
      <4> QED BY <1>1, <2>1, <2>3, <4>1, <4>2, <4>3, ConstantsAssumption DEF InWindow
    <3>2. IsFiniteSet(W \cup {a}) /\ Cardinality(W \cup {a}) <= Cardinality(W) + 1
      <4>1. IsFiniteSet(W) /\ Cardinality(W) \in Nat
        BY <1>2
      <4> HIDE DEF W
      <4>2. /\ IsFiniteSet(W \cup {a})
            /\ \/ Cardinality(W \cup {a}) = Cardinality(W)
               \/ Cardinality(W \cup {a}) = Cardinality(W) + 1
        BY <4>1, FS_AddElement
      <4> QED BY <4>1, <4>2
    <3>3. IsFiniteSet(T) /\ Cardinality(T) <= Cardinality(W \cup {a})
      BY <3>1, <3>2, FS_Subset
    <3>4. Cardinality(T) \in Nat /\ Cardinality(W \cup {a}) \in Nat
      BY <3>2, <3>3, FS_CardinalityType
    <3> HIDE DEF W, T
    <3>5. Cardinality(T) <= MaxPerSecond
      BY <1>2, <3>2, <3>3, <3>4, ConstantsAssumption
    <3> QED BY <3>5 DEF T
  <2>4. CASE ~(now <= t)
    <3>1. T \subseteq S
      <4> SUFFICES ASSUME NEW b \in T PROVE b \in S
        OBVIOUS
      <4>1. b # a
        BY <1>1, <1>3, <2>1, <2>4
      <4> QED BY <1>3, <1>4, <4>1 DEF Invoked
    <3>2. Cardinality(T) <= Cardinality(S)
      BY <2>2, <3>1, FS_Subset
    <3>3. Cardinality(T) \in Nat
      BY <2>2, <3>1, FS_Subset, FS_CardinalityType
    <3> HIDE DEF S, T
    <3>4. Cardinality(T) <= MaxPerSecond
      BY <2>2, <3>2, <3>3, ConstantsAssumption
    <3> QED BY <3>4 DEF T
  <2> QED BY <2>3, <2>4
<1> QED BY <1>5, <1>6 DEF ReservationRate

LEMMA PacingInit == Init => PacingInv
BY SpacingInit, RateInit DEF PacingInv

LEMMA PacingNext == PacingInv /\ [Next]_vars => PacingInv'
<1> SUFFICES ASSUME PacingInv, [Next]_vars PROVE PacingInv'
  OBVIOUS
<1>1. SpacingInv'
  BY SpacingNext DEF PacingInv
<1>2. RowShape' /\ clock \in Nat
  BY <1>1 DEF SpacingInv, PacingInv, StampTypes
<1>3. ASSUME NEW a \in Attempts, Begin(a) PROVE Past' /\ ReservationRate'
  <2>1. clock' = clock
        /\ \A b \in Attempts : /\ attempt'[b].invokedAt = attempt[b].invokedAt
                               /\ attempt'[b].now = attempt[b].now \/ attempt'[b].now = clock
    BY <1>3 DEF PacingInv, SpacingInv, RowShape, Begin
  <2> QED BY <1>2, <2>1, RateStays
<1>4. ASSUME NEW a \in Attempts, Defer(a) PROVE Past' /\ ReservationRate'
  <2> DEFINE at == NextAt(attempt[a].now)
  <2>1. attempt' = [attempt EXCEPT ![a].pc = "deferred", ![a].scheduledAt = at] /\ clock' = clock
    BY <1>4 DEF Defer
  <2> HIDE DEF at
  <2>2. \A b \in Attempts : attempt'[b].invokedAt = attempt[b].invokedAt
                            /\ attempt'[b].now = attempt[b].now
    BY <2>1 DEF PacingInv, SpacingInv, RowShape
  <2>3. clock' \in Nat /\ clock <= clock'
    BY <1>2, <2>1
  <2>4. \A b \in Attempts : attempt'[b].now = attempt[b].now \/ attempt'[b].now = clock
    BY <2>2
  <2> QED BY <1>2, <2>2, <2>3, <2>4, RateStays
<1>5. ASSUME Tick PROVE Past' /\ ReservationRate'
  <2>1. clock' \in Nat /\ clock <= clock' /\ attempt' = attempt
    BY <1>2, <1>5 DEF Tick
  <2>2. \A a \in Attempts : attempt'[a].invokedAt = attempt[a].invokedAt
    BY <2>1
  <2>3. \A a \in Attempts : attempt'[a].now = attempt[a].now \/ attempt'[a].now = clock
    BY <2>1
  <2> QED BY <1>2, <2>1, <2>2, <2>3, RateStays
<1>6. ASSUME UNCHANGED vars PROVE Past' /\ ReservationRate'
  <2>1. clock' \in Nat /\ clock <= clock' /\ attempt' = attempt
    BY <1>2, <1>6 DEF vars
  <2>2. \A a \in Attempts : attempt'[a].invokedAt = attempt[a].invokedAt
    BY <2>1
  <2>3. \A a \in Attempts : attempt'[a].now = attempt[a].now \/ attempt'[a].now = clock
    BY <2>1
  <2> QED BY <1>2, <2>1, <2>2, <2>3, RateStays
<1>7. ASSUME NEW a \in Attempts, Admit(a) PROVE Past' /\ ReservationRate'
  BY <1>7, RateAdmit
<1>8. Past' /\ ReservationRate'
  <2>1. CASE \E a \in Attempts : Begin(a) \/ Admit(a) \/ Defer(a)
    BY <1>3, <1>4, <1>7, <2>1
  <2> QED BY <1>5, <1>6, <2>1 DEF Next
<1> QED BY <1>1, <1>8 DEF PacingInv

LEMMA PacingInvariant == Spec => []PacingInv
BY PacingInit, PacingNext, PTL DEF Spec

\* However old the stamps of the attempts that reserve admits, no second holds more
\* of them than the limit.
THEOREM RateHolds == Spec => []ReservationRate
BY PacingInvariant, PTL DEF PacingInv
-----------------------------------------------------------------------------
(***************************************************************************)
(* Quotients: stamps a pace apart fall into different paces.               *)
(***************************************************************************)
LEMMA Quotient ==
  ASSUME NEW x \in Nat, NEW p \in Nat \ {0}
  PROVE  x \div p \in Nat /\ p * (x \div p) <= x /\ x < p * (x \div p) + p
OBVIOUS

LEMMA QuotientsDiffer ==
  ASSUME NEW p \in Nat \ {0}, NEW x \in Nat, NEW y \in Nat, x + p <= y
  PROVE  x \div p # y \div p
<1> DEFINE q == x \div p
           r == y \div p
<1>1. q \in Nat /\ x < p * q + p
  BY Quotient
<1>2. r \in Nat /\ p * r <= y
  BY Quotient
<1> HIDE DEF q, r
<1> QED BY <1>1, <1>2

LEMMA QuotientIsLess ==
  ASSUME NEW p \in Nat \ {0}, NEW x \in Nat, NEW m \in Nat, x < m * p
  PROVE  x \div p < m
<1> DEFINE q == x \div p
<1>1. q \in Nat /\ p * q <= x /\ x < p * q + p
  BY Quotient
<1> HIDE DEF q
<1>2. ASSUME q >= m PROVE FALSE
  <2>1. PICK d \in Nat : q = m + d
    BY <1>1, <1>2
  <2>2. p * q = m * p + p * d
    BY <1>1, <2>1
  <2>3. p * d \in Nat /\ m * p \in Nat
    OBVIOUS
  <2> HIDE <2>1
  <2> QED BY <1>1, <2>2, <2>3
<1> QED BY <1>1, <1>2 DEF q

\* Stamps a pace apart, of less than a second that ends a pace ago: fewer than the limit.
LEMMA SpacedAreFew ==
  ASSUME PacingInv, NEW at \in Nat, \A a \in InWindow(at) : attempt[a].invokedAt + Pace <= at
  PROVE  /\ Cardinality(InWindow(at)) \in Nat
         /\ Cardinality(InWindow(at)) < MaxPerSecond
<1> DEFINE W == InWindow(at)
           age(a) == at - (attempt[a].invokedAt + Pace)
           f == [a \in W |-> age(a) \div Pace]
<1>1. W \subseteq Invoked
  BY DEF InWindow
<1>2. Pace \in Nat \ {0} /\ Second \in Nat /\ MaxPerSecond \in Nat \ {0} /\ Pace <= Second
      /\ Second <= MaxPerSecond * Pace
  BY ConstantsAssumption, PaceAssumption
<1>3. ASSUME NEW a \in W
      PROVE  age(a) \in Nat /\ age(a) < (MaxPerSecond - 1) * Pace
  <2>1. attempt[a].invokedAt \in Nat /\ attempt[a].invokedAt + Second > at
        /\ attempt[a].invokedAt + Pace <= at
    BY <1>1, InvokedIsStamped DEF PacingInv, InWindow
  <2>2. (MaxPerSecond - 1) * Pace = MaxPerSecond * Pace - Pace /\ MaxPerSecond * Pace \in Nat
    BY <1>2
  <2> QED BY <1>2, <2>1, <2>2
<1>4. \A a \in W : age(a) \div Pace \in 0..(MaxPerSecond - 2)
  <2> TAKE a \in W
  <2>1. age(a) \in Nat /\ age(a) < (MaxPerSecond - 1) * Pace
    BY <1>3
  <2> HIDE DEF age
  <2>2. age(a) \div Pace \in Nat /\ age(a) \div Pace < MaxPerSecond - 1
    BY <1>2, <2>1, Quotient, QuotientIsLess
  <2> QED BY <1>2, <2>2
<1>5. ASSUME NEW a \in W, NEW b \in W, a # b PROVE age(a) \div Pace # age(b) \div Pace
  <2>1. age(a) \in Nat /\ age(b) \in Nat
    BY <1>3
  <2>2. attempt[a].invokedAt \in Nat /\ attempt[b].invokedAt \in Nat
    BY <1>1, InvokedIsStamped DEF PacingInv
  <2>3. \/ attempt[a].invokedAt + Pace <= attempt[b].invokedAt
        \/ attempt[b].invokedAt + Pace <= attempt[a].invokedAt
    BY <1>1, <1>5 DEF PacingInv, SpacingInv, ReservationsSpaced
  <2>4. age(a) + Pace <= age(b) \/ age(b) + Pace <= age(a)
    BY <1>2, <2>2, <2>3
  <2> HIDE DEF age
  <2> QED BY <1>2, <2>1, <2>4, QuotientsDiffer
<1>6. f \in Injection(W, 0..(MaxPerSecond - 2))
  <2> HIDE DEF age
  <2>1. f \in [W -> 0..(MaxPerSecond - 2)]
    BY <1>4
  <2>2. \A a, b \in W : f[a] = f[b] => a = b
    BY <1>5
  <2> QED BY <2>1, <2>2 DEF Injection, IsInjective
<1>7. IsFiniteSet(0..(MaxPerSecond - 2)) /\ Cardinality(0..(MaxPerSecond - 2)) = MaxPerSecond - 1
  <2> DEFINE last == MaxPerSecond - 2
  <2>1. last \in Int /\ (0 > last => MaxPerSecond - 1 = 0) /\ last - 0 + 1 = MaxPerSecond - 1
    BY <1>2
  <2> HIDE DEF last
  <2>2. IsFiniteSet(0..last) /\ Cardinality(0..last) = IF 0 > last THEN 0 ELSE last - 0 + 1
    BY <2>1, FS_Interval
  <2>3. IsFiniteSet(0..last) /\ Cardinality(0..last) = MaxPerSecond - 1
    BY <2>1, <2>2
  <2> QED BY <2>3 DEF last
<1>8. IsFiniteSet(W) /\ Cardinality(W) <= MaxPerSecond - 1
  <2> HIDE DEF W, f
  <2> QED BY <1>6, <1>7, FS_Injection
<1>9. Cardinality(W) \in Nat
  BY <1>8, FS_CardinalityType
<1> QED BY <1>2, <1>8, <1>9

\* The time of a deferral is the last of those that are waited for.
LEMMA NextAtIsLast ==
  ASSUME PacingInv, NEW now \in Nat, ~Admitted(now)
  PROVE  /\ NextAt(now) \in NotBefore(now)
         /\ NextAt(now) \in Nat /\ NextAt(now) > now
         /\ \A t \in NotBefore(now) : t <= NextAt(now)
<1>1. NotBefore(now) \subseteq Nat
      /\ \A t \in NotBefore(now) : t <= clock + Second + 1
  <2>1. \A a \in InWindow(now) : attempt[a].invokedAt \in Nat /\ attempt[a].invokedAt <= clock
    BY InvokedIsStamped DEF PacingInv, Past, InWindow
  <2>2. clock \in Nat
    BY DEF PacingInv, SpacingInv, StampTypes
  <2>3. ASSUME NEW t \in NotBefore(now)
        PROVE  \E a \in InWindow(now) : t = attempt[a].invokedAt + Pace
                                        \/ t = attempt[a].invokedAt + Second + 1
    BY DEF NotBefore
  <2> QED BY <2>1, <2>2, <2>3, ConstantsAssumption
<1>2. PICK t \in NotBefore(now) : ~(t <= now)
  BY DEF Admitted
<1>3. \E m \in NotBefore(now) : \A u \in NotBefore(now) : u <= m
  <2>1. clock + Second + 1 \in Nat
    BY ConstantsAssumption DEF PacingInv, SpacingInv, StampTypes
  <2> QED BY <1>1, <1>2, <2>1, Greatest
<1>4. NextAt(now) \in NotBefore(now) /\ \A u \in NotBefore(now) : u <= NextAt(now)
  BY <1>3 DEF NextAt
<1>5. NextAt(now) \in Nat /\ t \in Nat /\ t <= NextAt(now)
  BY <1>1, <1>2, <1>4
<1> QED BY <1>2, <1>4, <1>5

LEMMA DeferralWaits ==
  ASSUME PacingInv, NEW a \in Attempts, Defer(a)
  PROVE  Admitted(attempt'[a].scheduledAt)
<1> DEFINE now == attempt[a].now
           at == NextAt(now)
<1>1. now \in Nat /\ attempt'[a].scheduledAt = at
  BY DEF Defer, PacingInv, SpacingInv, StampTypes, RowShape
<1>2. ~Admitted(now)
  BY DEF Defer
<1>3. at \in Nat /\ at > now /\ \A t \in NotBefore(now) : t <= at
  BY <1>1, <1>2, NextAtIsLast
<1> HIDE DEF at, now
<1>4. InWindow(at) \subseteq InWindow(now)
  <2> SUFFICES ASSUME NEW b \in InWindow(at) PROVE b \in InWindow(now)
    OBVIOUS
  <2>1. b \in Invoked /\ attempt[b].invokedAt + Second > at
    BY DEF InWindow
  <2>2. attempt[b].invokedAt \in Nat
    BY <2>1, InvokedIsStamped DEF PacingInv
  <2> QED BY <1>1, <1>3, <2>1, <2>2, ConstantsAssumption DEF InWindow
<1>5. \A b \in InWindow(at) : attempt[b].invokedAt + Pace <= at
  BY <1>3, <1>4, Zenon DEF NotBefore
<1>6. Cardinality(InWindow(at)) \in Nat /\ Cardinality(InWindow(at)) < MaxPerSecond
  BY <1>3, <1>5, SpacedAreFew
<1>7. ~(Cardinality(InWindow(at)) >= MaxPerSecond)
  BY <1>6, ConstantsAssumption
<1>8. NotBefore(at) = {attempt[b].invokedAt + Pace : b \in InWindow(at)}
  BY <1>7, Zenon DEF NotBefore
<1> QED BY <1>1, <1>5, <1>8 DEF Admitted

\* What DeferralIsEnough says of a step.
Waited == \A a \in Attempts : Defer(a) => Admitted(attempt'[a].scheduledAt)

\* The time reserve schedules a deferred job for is late enough for all that was
\* reserved when it was computed.
THEOREM DeferralSuffices == Spec => DeferralIsEnough
<1>1. PacingInv /\ [Next]_vars => [Waited]_vars
  BY DeferralWaits DEF Waited
<1> QED BY <1>1, PacingInvariant, PTL DEF Spec, DeferralIsEnough, Waited

\* A step that TypeOK depends on leaves each row one of its type.
LEMMA RowsTyped ==
  ASSUME TypeOK, NEW a \in Attempts, NEW r \in Row,
         r.invokedAt # None <=> r.pc = "invoked", r.scheduledAt # None <=> r.pc = "deferred",
         attempt' = [attempt EXCEPT ![a] = r], clock' = clock
  PROVE  TypeOK'
BY DEF TypeOK

LEMMA TypesNext == TypeOK /\ PacingInv /\ [Next]_vars => TypeOK'
<1> SUFFICES ASSUME TypeOK, PacingInv, [Next]_vars PROVE TypeOK'
  OBVIOUS
<1>1. ASSUME NEW a \in Attempts, Begin(a) PROVE TypeOK'
  <2> DEFINE r == [attempt[a] EXCEPT !.pc = "begun", !.now = clock]
  <2>1. r \in Row /\ r.pc = "begun" /\ r.invokedAt = None /\ r.scheduledAt = None
    BY <1>1 DEF TypeOK, Row, PC, Begin
  <2>2. attempt' = [attempt EXCEPT ![a] = r] /\ clock' = clock
    BY <1>1 DEF Begin, TypeOK, Row
  <2> HIDE DEF r
  <2> QED BY <2>1, <2>2, RowsTyped
<1>2. ASSUME NEW a \in Attempts, Admit(a) PROVE TypeOK'
  <2> DEFINE r == InvokedRow(attempt[a])
  <2>1. r \in Row /\ r.pc = "invoked" /\ r.invokedAt \in Nat /\ r.scheduledAt = None
    BY <1>2 DEF TypeOK, Row, PC, Admit, InvokedRow
  <2>2. attempt' = [attempt EXCEPT ![a] = r] /\ clock' = clock
    BY <1>2 DEF Admit
  <2> HIDE DEF r
  <2> QED BY <2>1, <2>2, RowsTyped, ConstantsAssumption
<1>3. ASSUME NEW a \in Attempts, Defer(a) PROVE TypeOK'
  <2> DEFINE at == NextAt(attempt[a].now)
             r == [attempt[a] EXCEPT !.pc = "deferred", !.scheduledAt = at]
  <2>1. at \in Nat
    BY <1>3, NextAtIsLast DEF Defer, TypeOK, Row
  <2>2. attempt' = [attempt EXCEPT ![a].pc = "deferred", ![a].scheduledAt = at] /\ clock' = clock
    BY <1>3 DEF Defer
  <2> HIDE DEF at
  <2>3. r \in Row /\ r.pc = "deferred" /\ r.invokedAt = None /\ r.scheduledAt = at
    BY <1>3, <2>1 DEF TypeOK, Row, PC, Defer
  <2>4. attempt' = [attempt EXCEPT ![a] = r]
    BY <2>2 DEF TypeOK, Row
  <2> HIDE DEF r
  <2> QED BY <2>1, <2>2, <2>3, <2>4, RowsTyped, ConstantsAssumption
<1>4. ASSUME Tick PROVE TypeOK'
  BY <1>4 DEF Tick, TypeOK
<1>5. ASSUME UNCHANGED vars PROVE TypeOK'
  BY <1>5 DEF vars, TypeOK
<1> QED BY <1>1, <1>2, <1>3, <1>4, <1>5 DEF Next

\* The attempts' rows keep their types, and the stamps agree with their states.
THEOREM PacingTypes == Spec => []TypeOK
<1>1. Init => TypeOK
  BY ConstantsAssumption DEF Init, TypeOK, Row, PC
<1> QED BY <1>1, TypesNext, PacingInvariant, PTL DEF Spec


-----------------------------------------------------------------------------
(***************************************************************************)
(* The login limiter, one key at a time: its counter, the times it let     *)
(* through and the times it was tried. Of a window that started s ticks    *)
(* before its end, at most as many passed as were counted, and at most the *)
(* limit; so what passed a limit ago is older than the window, and what    *)
(* passed a limit before that is a window older.                           *)
(***************************************************************************)
Times(s, now) ==
  /\ s \in Seq(Nat)
  /\ \A i \in 1..Len(s) : s[i] <= now
  /\ \A i, j \in 1..Len(s) : i <= j => s[i] <= s[j]

\* A key without a counter: what has passed is over.
NoneCounted(limit, passes, now) ==
  \A i \in 1..Len(passes) :
    /\ passes[i] < now
    /\ i + limit <= Len(passes) => passes[i] + Window <= now

\* A key with a counter: what passed before its window began, or at latest before it ends.
PassesCounted(c, limit, passes) ==
  \A i \in 1..Len(passes) :
    /\ passes[i] < c.resetAt
    /\ i + c.count <= Len(passes) \/ i + limit <= Len(passes) => passes[i] + Window < c.resetAt
    /\ i + limit <= Len(passes) /\ passes[i + limit] + Window < c.resetAt
         => passes[i] + 2 * Window <= c.resetAt

\* The counter counts tries of its own window.
TriesCounted(c, tries) ==
  /\ c.count <= Len(tries)
  /\ \A i \in 1..Len(tries) : i + c.count > Len(tries) => tries[i] + Window >= c.resetAt

Slides(limit, passes) ==
  \A i, j \in 1..Len(passes) : j = i + 2 * limit => passes[j] >= passes[i] + Window

Accounted(c, limit, passes, tries, now) ==
  /\ c = NoCounter => NoneCounted(limit, passes, now)
  /\ c # NoCounter =>
       /\ c.resetAt <= now + Window
       /\ PassesCounted(c, limit, passes)
       /\ TriesCounted(c, tries)
  /\ Slides(limit, passes)

LEMMA AppendTime ==
  ASSUME NEW now \in Nat, NEW s, Times(s, now)
  PROVE  /\ Times(Append(s, now), now)
         /\ Len(Append(s, now)) = Len(s) + 1
         /\ Append(s, now)[Len(s) + 1] = now
         /\ \A i \in 1..Len(s) : Append(s, now)[i] = s[i]
<1> DEFINE t == Append(s, now)
<1>1. /\ t \in Seq(Nat) /\ Len(t) = Len(s) + 1 /\ t[Len(s) + 1] = now
      /\ \A i \in 1..Len(s) : t[i] = s[i]
  BY DEF Times
<1>2. Len(s) \in Nat /\ \A i \in 1..Len(s) : s[i] \in Nat
  BY DEF Times
<1>3. \A i \in 1..Len(t) : i \in 1..Len(s) \/ i = Len(s) + 1
  BY <1>1, <1>2
<1>4. \A i \in 1..Len(t) : t[i] <= now
  BY <1>1, <1>2, <1>3 DEF Times
<1>5. \A i, j \in 1..Len(t) : i <= j => t[i] <= t[j]
  BY <1>1, <1>2, <1>3 DEF Times
<1> QED BY <1>1, <1>4, <1>5 DEF Times

LEMMA CounterFields ==
  ASSUME NEW c \in Counter \cup {NoCounter}
  PROVE  /\ c.count \in Nat /\ c.resetAt \in Nat
         /\ c # NoCounter => c \in Counter /\ c.count # 0
         /\ c = NoCounter => ~Live(c)
BY DEF Counter, NoCounter, Live

\* A pruned counter.
LEMMA PrunedIsAccounted ==
  ASSUME NEW now \in Nat, NEW limit \in Nat \ {0}, NEW passes, NEW tries,
         NEW c \in Counter, c # NoCounter, c.resetAt <= now,
         Times(passes, now), Accounted(c, limit, passes, tries, now)
  PROVE  Accounted(NoCounter, limit, passes, tries, now)
<1>1. c.count \in Nat /\ c.resetAt \in Nat /\ Window \in Nat
  BY LimiterAssumption DEF Counter
<1>2. Len(passes) \in Nat /\ \A i \in 1..Len(passes) : passes[i] \in Nat
  BY DEF Times
<1>3. NoneCounted(limit, passes, now)
  BY <1>1, <1>2 DEF NoneCounted, Accounted, PassesCounted
<1> QED BY <1>3 DEF Accounted

\* A tick.
LEMMA LaterIsAccounted ==
  ASSUME NEW now \in Nat, NEW limit \in Nat \ {0}, NEW passes, NEW tries,
         NEW c \in Counter \cup {NoCounter},
         Times(passes, now), Accounted(c, limit, passes, tries, now)
  PROVE  Accounted(c, limit, passes, tries, now + 1)
<1>1. c.count \in Nat /\ c.resetAt \in Nat /\ Window \in Nat
  BY LimiterAssumption, CounterFields
<1>2. Len(passes) \in Nat /\ \A i \in 1..Len(passes) : passes[i] \in Nat
  BY DEF Times
<1>3. NoneCounted(limit, passes, now) => NoneCounted(limit, passes, now + 1)
  BY <1>1, <1>2 DEF NoneCounted
<1> QED BY <1>1, <1>3 DEF Accounted

\* An attempt of a key that has a window; it may pass while it is within the limit.
LEMMA CountedIsAccounted ==
  ASSUME NEW now \in Nat, NEW limit \in Nat \ {0}, NEW passes, NEW tries,
         NEW c \in Counter, c # NoCounter, now < c.resetAt,
         Times(passes, now), Times(tries, now), Accounted(c, limit, passes, tries, now)
  PROVE  /\ Counted(c) \in Counter /\ Counted(c) # NoCounter
         /\ Accounted(Counted(c), limit, passes, Append(tries, now), now)
         /\ c.count + 1 <= limit
              => Accounted(Counted(c), limit, Append(passes, now), Append(tries, now), now)
<1> DEFINE d == Counted(c)
           y == Append(tries, now)
           p == Append(passes, now)
           n == Len(passes)
<1>1. c.count \in Nat \ {0} /\ c.resetAt \in Nat /\ Window \in Nat /\ Window # 0
  BY LimiterAssumption DEF Counter
<1>2. n \in Nat /\ \A i \in 1..n : passes[i] \in Nat
  BY DEF Times
<1>3. Len(tries) \in Nat /\ \A i \in 1..Len(tries) : tries[i] \in Nat
  BY DEF Times
<1>4. d.count = c.count + 1 /\ d.resetAt = c.resetAt /\ d \in Counter
  BY <1>1 DEF Counted, Counter
<1>5. d # NoCounter
  BY <1>1, <1>4 DEF NoCounter
<1>6. c.resetAt <= now + Window /\ PassesCounted(c, limit, passes) /\ TriesCounted(c, tries)
      /\ Slides(limit, passes)
  BY DEF Accounted
<1> HIDE DEF d
<1>7. TriesCounted(d, y)
  <2>1. Len(y) = Len(tries) + 1 /\ y[Len(tries) + 1] = now
        /\ \A i \in 1..Len(tries) : y[i] = tries[i]
    BY AppendTime
  <2> HIDE DEF y
  <2>2. \A i \in 1..Len(y) : i \in 1..Len(tries) \/ i = Len(tries) + 1
    BY <1>3, <2>1
  <2>3. d.count <= Len(y)
    BY <1>1, <1>3, <1>4, <1>6, <2>1 DEF TriesCounted
  <2>4. ASSUME NEW i \in 1..Len(y), i + d.count > Len(y) PROVE y[i] + Window >= d.resetAt
    <3>1. CASE i = Len(tries) + 1
      BY <1>4, <1>6, <2>1, <3>1
    <3>2. CASE i \in 1..Len(tries)
      <4>1. i + c.count > Len(tries)
        BY <1>1, <1>3, <1>4, <2>1, <2>4, <3>2
      <4> QED BY <1>4, <1>6, <2>1, <3>2, <4>1 DEF TriesCounted
    <3> QED BY <2>2, <3>1, <3>2
  <2> QED BY <2>3, <2>4 DEF TriesCounted
<1>8. PassesCounted(d, limit, passes)
  BY <1>1, <1>2, <1>4, <1>6 DEF PassesCounted
<1>9. Accounted(d, limit, passes, y, now)
  BY <1>4, <1>5, <1>6, <1>7, <1>8 DEF Accounted
<1>10. ASSUME c.count + 1 <= limit PROVE Accounted(d, limit, p, y, now)
  <2>1. Len(p) = n + 1 /\ p[n + 1] = now /\ \A i \in 1..n : p[i] = passes[i]
    BY AppendTime
  <2> HIDE DEF p, n, y
  <2>2. \A i \in 1..Len(p) : i \in 1..n \/ i = n + 1
    BY <1>2, <2>1
  <2>3. \A i \in 1..n : (i + c.count <= n \/ i + limit <= n) => passes[i] + Window < c.resetAt
    BY <1>6 DEF PassesCounted, n
  <2>4. \A i \in 1..n : i + limit <= n + 1 => i + c.count <= n
    BY <1>1, <1>2, <1>10
  <2>5. \A i \in 1..n : i + limit <= n + 1 => passes[i] + Window < c.resetAt
    BY <2>3, <2>4
  <2>6. ASSUME NEW i \in 1..Len(p)
        PROVE  /\ p[i] < d.resetAt
               /\ i + d.count <= Len(p) \/ i + limit <= Len(p) => p[i] + Window < d.resetAt
               /\ i + limit <= Len(p) /\ p[i + limit] + Window < d.resetAt
                    => p[i] + 2 * Window <= d.resetAt
    <3>1. CASE i = n + 1
      BY <1>1, <1>2, <1>4, <2>1, <3>1
    <3>2. CASE i \in 1..n
      <4>1. p[i] < d.resetAt
        BY <1>4, <1>6, <2>1, <3>2 DEF PassesCounted, n
      <4>2. i + d.count <= Len(p) \/ i + limit <= Len(p) => p[i] + Window < d.resetAt
        <5>1. i + d.count <= Len(p) => i + c.count <= n
          BY <1>1, <1>2, <1>4, <2>1, <3>2
        <5>2. i + limit <= Len(p) => i + limit <= n + 1
          BY <2>1
        <5>3. p[i] = passes[i] /\ d.resetAt = c.resetAt
          BY <1>4, <2>1, <3>2
        <5> QED BY <2>3, <2>5, <3>2, <5>1, <5>2, <5>3
      <4>3. ASSUME i + limit <= Len(p), p[i + limit] + Window < d.resetAt
            PROVE  p[i] + 2 * Window <= d.resetAt
        <5>1. CASE i + limit = n + 1
          BY <1>1, <1>4, <1>6, <2>1, <4>3, <5>1
        <5>2. CASE i + limit <= n
          <6>1. i + limit \in 1..n
            BY <1>2, <3>2, <5>2
          <6>2. passes[i + limit] + Window < c.resetAt
            BY <1>4, <2>1, <4>3, <6>1
          <6> QED BY <1>4, <1>6, <2>1, <3>2, <5>2, <6>2 DEF PassesCounted, n
        <5>3. i + limit <= n + 1
          BY <2>1, <4>3
        <5>4. i + limit = n + 1 \/ i + limit <= n
          BY <1>2, <3>2, <5>3
        <5> QED BY <5>1, <5>2, <5>4
      <4> QED BY <4>1, <4>2, <4>3
    <3> QED BY <2>2, <3>1, <3>2
  <2>7. PassesCounted(d, limit, p)
    BY <2>6 DEF PassesCounted
  <2>8. ASSUME NEW i \in 1..Len(p), NEW j \in 1..Len(p), j = i + 2 * limit
        PROVE  p[j] >= p[i] + Window
    <3>1. CASE j \in 1..n
      <4>1. i \in 1..n
        BY <1>2, <2>8, <3>1
      <4> QED BY <1>6, <2>1, <2>8, <3>1, <4>1 DEF Slides, n
    <3>2. CASE j = n + 1
      <4>1. i \in 1..n /\ i + limit \in 1..n /\ i + limit <= n
        BY <1>2, <2>8, <3>2
      <4>2. passes[i + limit] + Window < c.resetAt
        BY <1>2, <2>5, <2>8, <3>2, <4>1
      <4>3. passes[i] + 2 * Window <= c.resetAt
        BY <1>6, <4>1, <4>2 DEF PassesCounted, n
      <4>4. passes[i] \in Nat
        BY <1>2, <4>1
      <4> QED BY <1>1, <1>6, <2>1, <3>2, <4>1, <4>3, <4>4
    <3> QED BY <2>2, <3>1, <3>2
  <2>9. Slides(limit, p)
    BY <2>8 DEF Slides
  <2> QED BY <1>4, <1>5, <1>6, <1>7, <2>7, <2>9 DEF Accounted
<1> QED BY <1>4, <1>5, <1>9, <1>10 DEF d

NewCounter(now) == [count |-> 1, resetAt |-> now + Window]

\* An attempt of a key that has none, or a window that is over.
LEMMA NewIsAccounted ==
  ASSUME NEW now \in Nat, NEW limit \in Nat \ {0}, NEW passes, NEW tries,
         NEW c \in Counter \cup {NoCounter}, ~(c # NoCounter /\ now < c.resetAt),
         Times(passes, now), Times(tries, now), Accounted(c, limit, passes, tries, now)
  PROVE  /\ NewCounter(now) \in Counter /\ NewCounter(now) # NoCounter
         /\ Accounted(NewCounter(now), limit, passes, Append(tries, now), now)
         /\ Accounted(NewCounter(now), limit, Append(passes, now), Append(tries, now), now)
<1> DEFINE d == NewCounter(now)
           y == Append(tries, now)
           p == Append(passes, now)
           n == Len(passes)
<1>1. c.count \in Nat /\ c.resetAt \in Nat /\ Window \in Nat /\ Window # 0
  BY LimiterAssumption, CounterFields
<1>2. n \in Nat /\ \A i \in 1..n : passes[i] \in Nat
  BY DEF Times
<1>3. Len(tries) \in Nat /\ \A i \in 1..Len(tries) : tries[i] \in Nat
  BY DEF Times
<1>4. d.count = 1 /\ d.resetAt = now + Window /\ d \in Counter
  BY <1>1 DEF NewCounter, Counter
<1>5. d # NoCounter
  BY <1>1, <1>4 DEF NoCounter
<1>6. NoneCounted(limit, passes, now)
  <2>1. CASE c = NoCounter
    BY <2>1 DEF Accounted
  <2>2. CASE c # NoCounter
    BY <2>2, PrunedIsAccounted, <1>1, CounterFields DEF Accounted
  <2> QED BY <2>1, <2>2
<1>7. Slides(limit, passes)
  BY DEF Accounted
<1> HIDE DEF d
<1>8. TriesCounted(d, y)
  <2>1. Len(y) = Len(tries) + 1 /\ y[Len(tries) + 1] = now
    BY AppendTime
  <2> HIDE DEF y
  <2>2. \A i \in 1..Len(y) : i + 1 > Len(y) => i = Len(tries) + 1
    BY <1>3, <2>1
  <2> QED BY <1>1, <1>3, <1>4, <2>1, <2>2 DEF TriesCounted
<1>9. PassesCounted(d, limit, passes)
  BY <1>1, <1>2, <1>4, <1>6 DEF PassesCounted, NoneCounted
<1>10. Accounted(d, limit, passes, y, now)
  BY <1>1, <1>4, <1>5, <1>7, <1>8, <1>9 DEF Accounted
<1>11. Accounted(d, limit, p, y, now)
  <2>1. Len(p) = n + 1 /\ p[n + 1] = now /\ \A i \in 1..n : p[i] = passes[i]
    BY AppendTime
  <2>2. \A i \in 1..n : passes[i] < now /\ (i + limit <= n => passes[i] + Window <= now)
    BY <1>6 DEF NoneCounted
  <2> HIDE DEF p, n, y
  <2>3. \A i \in 1..Len(p) : i \in 1..n \/ i = n + 1
    BY <1>2, <2>1
  <2>4. ASSUME NEW i \in 1..Len(p)
        PROVE  /\ p[i] < d.resetAt
               /\ i + d.count <= Len(p) \/ i + limit <= Len(p) => p[i] + Window < d.resetAt
               /\ i + limit <= Len(p) /\ p[i + limit] + Window < d.resetAt
                    => p[i] + 2 * Window <= d.resetAt
    <3>1. CASE i = n + 1
      BY <1>1, <1>2, <1>4, <2>1, <3>1
    <3>2. CASE i \in 1..n
      <4>1. p[i] \in Nat /\ p[i] < now
        BY <1>2, <2>1, <2>2, <3>2
      <4>2. ASSUME i + limit <= Len(p), p[i + limit] + Window < d.resetAt
            PROVE  i + limit <= n
        BY <1>1, <1>2, <1>4, <2>1, <3>2, <4>2
      <4>3. i + limit <= n => p[i] + Window <= now
        BY <2>1, <2>2, <3>2
      <4> QED BY <1>1, <1>4, <4>1, <4>2, <4>3
    <3> QED BY <2>3, <3>1, <3>2
  <2>5. PassesCounted(d, limit, p)
    BY <2>4 DEF PassesCounted
  <2>6. ASSUME NEW i \in 1..Len(p), NEW j \in 1..Len(p), j = i + 2 * limit
        PROVE  p[j] >= p[i] + Window
    <3>1. CASE j \in 1..n
      <4>1. i \in 1..n
        BY <1>2, <2>6, <3>1
      <4> QED BY <1>7, <2>1, <2>6, <3>1, <4>1 DEF Slides, n
    <3>2. CASE j = n + 1
      <4>1. i \in 1..n /\ i + limit <= n
        BY <1>2, <2>6, <3>2
      <4> QED BY <2>1, <2>2, <3>2, <4>1
    <3> QED BY <2>3, <3>1, <3>2
  <2>7. Slides(limit, p)
    BY <2>6 DEF Slides
  <2> QED BY <1>1, <1>4, <1>5, <1>8, <2>5, <2>7 DEF Accounted
<1> QED BY <1>4, <1>5, <1>10, <1>11 DEF d

-----------------------------------------------------------------------------
(***************************************************************************)
(* An attempt: its four keys, one after the other.                         *)
(***************************************************************************)
HeldKeys(table) == {k \in Keys : table[k] # NoCounter}
Missing(a) == {k \in KeySet(a) : Pruned[k] = NoCounter}

TableOK(table) ==
  /\ table \in [Keys -> Counter \cup {NoCounter}]
  /\ IsFiniteSet(HeldKeys(table))
  /\ Size(table) <= MaxCounters

\* What is counted of a key, from what the table held of it.
Entered(c, d, limit, allowed) ==
  \/ Live(c) /\ d = Counted(c) /\ (allowed => c.count + 1 <= limit)
  \/ ~Live(c) /\ d = NewCounter(time)
  \/ c = NoCounter /\ d = NoCounter /\ ~allowed

\* Why an attempt may be refused.
Cause(a) ==
  \/ \E k \in KeySet(a) : Live(Pruned[k]) /\ Pruned[k].count >= Limit[k[1]]
  \/ Size(Pruned) + Cardinality(Missing(a)) > MaxCounters

\* How far the counting of an attempt has come.
SoFar(s, a, done) ==
  /\ DOMAIN s = {"table", "allowed"}
  /\ s.allowed \in BOOLEAN
  /\ TableOK(s.table)
  /\ HeldKeys(s.table) \subseteq HeldKeys(Pruned) \cup (done \cap Missing(a))
  /\ \A k \in Keys \ done : s.table[k] = Pruned[k]
  /\ \A k \in done : Entered(Pruned[k], s.table[k], Limit[k[1]], s.allowed)
  /\ ~s.allowed => Cause(a)

LEMMA KeysOfAttempt ==
  ASSUME NEW a \in Attempt
  PROVE  /\ KeySet(a) = {KeysOf(a)[1], KeysOf(a)[2], KeysOf(a)[3], KeysOf(a)[4]}
         /\ KeySet(a) \subseteq Keys
         /\ \A i, j \in 1..4 : i # j => KeysOf(a)[i] # KeysOf(a)[j]
         /\ IsFiniteSet(KeySet(a))
         /\ \A k \in KeySet(a) : Limit[k[1]] \in Nat \ {0}
<1>1. 1..4 = {1, 2, 3, 4}
  OBVIOUS
<1>2. KeySet(a) = {KeysOf(a)[1], KeysOf(a)[2], KeysOf(a)[3], KeysOf(a)[4]}
  BY <1>1, Zenon DEF KeySet
<1>3. KeySet(a) \subseteq Keys
  BY DEF Keys
<1>4. \A i \in 1..4 : KeysOf(a)[i][1] = (CASE i = 1 -> "ip" [] i = 2 -> "tenant"
                                           [] i = 3 -> "identifier" [] OTHER -> "composite")
  BY DEF KeysOf
<1>5. \A i, j \in 1..4 : i # j => KeysOf(a)[i] # KeysOf(a)[j]
  BY <1>1, <1>4
<1>6. IsFiniteSet(KeySet(a))
  <2>1. \A x : IsFiniteSet({x})
    BY FS_Singleton
  <2>2. KeySet(a) = ({KeysOf(a)[1]} \cup {KeysOf(a)[2]}) \cup ({KeysOf(a)[3]} \cup {KeysOf(a)[4]})
    BY <1>2
  <2>3. \A x, y : IsFiniteSet({x} \cup {y})
    BY <2>1, FS_Union
  <2> DEFINE S == {KeysOf(a)[1]} \cup {KeysOf(a)[2]}
             T == {KeysOf(a)[3]} \cup {KeysOf(a)[4]}
  <2>4. IsFiniteSet(S) /\ IsFiniteSet(T)
    BY <2>3
  <2>5. KeySet(a) = S \cup T
    BY <2>2
  <2> HIDE DEF S, T
  <2> QED BY <2>4, <2>5, FS_Union
<1>7. \A k \in KeySet(a) : Limit[k[1]] \in Nat \ {0}
  BY <1>4, LimiterAssumption DEF KeySet
<1> QED BY <1>2, <1>3, <1>5, <1>6, <1>7

LEMMA SizeIsOfHeld == \A table : Size(table) = Cardinality(HeldKeys(table))
BY DEF Size, HeldKeys

\* The counting of one more key.
LEMMA IncrementCounts ==
  ASSUME time \in Nat, TableOK(Pruned), NEW a \in Attempt, NEW s, NEW done,
         NEW k \in KeySet(a), done \subseteq KeySet(a), k \notin done, SoFar(s, a, done)
  PROVE  SoFar(Increment(s, k), a, done \cup {k})
<1> DEFINE c == s.table[k]
           limit == Limit[k[1]]
           d == IF Live(c) THEN Counted(c)
                ELSE IF c = NoCounter /\ Full(s.table) THEN c ELSE NewCounter(time)
           ok == IF Live(c) THEN Within(Counted(c).count, k[1])
                 ELSE ~(c = NoCounter /\ Full(s.table))
           r == Increment(s, k)
           table == [s.table EXCEPT ![k] = d]
<1>1. k \in Keys /\ limit \in Nat \ {0} /\ KeySet(a) \subseteq Keys /\ IsFiniteSet(KeySet(a))
  BY KeysOfAttempt
<1>2. c = Pruned[k] /\ c \in Counter \cup {NoCounter}
  BY <1>1 DEF SoFar, TableOK
<1>3. DOMAIN r = {"table", "allowed"} /\ r.table = table /\ r.allowed = (s.allowed /\ ok)
  BY DEF Increment, NewCounter
<1>4. Window \in Nat \ {0} /\ MaxCounters \in Nat /\ c.count \in Nat
  BY LimiterAssumption, <1>2, CounterFields
<1>5. Live(c) => Counted(c) \in Counter /\ Counted(c).count = c.count + 1
  BY <1>2, CounterFields DEF Counted, Counter
<1>6. NewCounter(time) \in Counter
  BY <1>4 DEF NewCounter, Counter
<1>7. d \in Counter \cup {NoCounter}
  BY <1>2, <1>5, <1>6
<1>8. table \in [Keys -> Counter \cup {NoCounter}]
  BY <1>7 DEF SoFar, TableOK
<1>9. /\ table[k] = d
      /\ \A j \in Keys \ {k} : table[j] = s.table[j]
  BY <1>1 DEF SoFar, TableOK
<1>10. \A j \in Keys \ (done \cup {k}) : table[j] = Pruned[j]
  BY <1>9 DEF SoFar
<1>11. Entered(c, d, limit, s.allowed /\ ok)
  <2>1. CASE Live(c)
    BY <2>1, <1>5 DEF Entered, Within
  <2>2. CASE ~Live(c) /\ c = NoCounter /\ Full(s.table)
    BY <2>2 DEF Entered
  <2>3. CASE ~Live(c) /\ ~(c = NoCounter /\ Full(s.table))
    BY <2>3 DEF Entered
  <2> QED BY <2>1, <2>2, <2>3
<1>12. \A j \in done \cup {k} : Entered(Pruned[j], table[j], Limit[j[1]], s.allowed /\ ok)
  <2>1. ASSUME NEW j \in done PROVE Entered(Pruned[j], table[j], Limit[j[1]], s.allowed /\ ok)
    <3>1. Entered(Pruned[j], s.table[j], Limit[j[1]], s.allowed)
      BY DEF SoFar
    <3>2. table[j] = s.table[j]
      BY <1>1, <1>9
    <3> HIDE DEF table, ok
    <3> QED BY <3>1, <3>2 DEF Entered
  <2> QED BY <1>2, <1>9, <1>11, <2>1
<1>13. HeldKeys(table) \subseteq HeldKeys(s.table) \cup {k}
  BY <1>9 DEF HeldKeys
<1>14. c # NoCounter => HeldKeys(table) \subseteq HeldKeys(s.table)
  BY <1>1, <1>9 DEF HeldKeys
<1>15. IsFiniteSet(HeldKeys(s.table)) /\ Cardinality(HeldKeys(s.table)) \in Nat
       /\ Cardinality(HeldKeys(s.table)) <= MaxCounters
  BY FS_CardinalityType, SizeIsOfHeld DEF SoFar, TableOK
<1>16. HeldKeys(table) \subseteq HeldKeys(Pruned) \cup ((done \cup {k}) \cap Missing(a))
  <2>1. c = NoCounter => k \in Missing(a)
    BY <1>2 DEF Missing
  <2> QED BY <1>13, <1>14, <2>1 DEF SoFar
<1>17. IsFiniteSet(HeldKeys(table)) /\ Size(table) <= MaxCounters
  <2>1. CASE c # NoCounter
    BY <1>4, <1>14, <1>15, <2>1, FS_Subset, FS_CardinalityType, SizeIsOfHeld
  <2>2. CASE c = NoCounter /\ Full(s.table)
    <3>1. HeldKeys(table) \subseteq HeldKeys(s.table)
      BY <1>9, <2>2, CounterFields DEF HeldKeys
    <3> QED BY <1>4, <1>15, <3>1, FS_Subset, FS_CardinalityType, SizeIsOfHeld
  <2>3. CASE c = NoCounter /\ ~Full(s.table)
    <3>1. Cardinality(HeldKeys(s.table)) < MaxCounters
      BY <1>4, <1>15, <2>3, SizeIsOfHeld DEF Full
    <3>2. k \notin HeldKeys(s.table)
      BY <2>3 DEF HeldKeys
    <3>3. IsFiniteSet(HeldKeys(s.table) \cup {k})
          /\ Cardinality(HeldKeys(s.table) \cup {k}) = Cardinality(HeldKeys(s.table)) + 1
      BY <1>15, <3>2, FS_AddElement
    <3>4. IsFiniteSet(HeldKeys(table))
          /\ Cardinality(HeldKeys(table)) <= Cardinality(HeldKeys(s.table) \cup {k})
      BY <1>13, <3>3, FS_Subset
    <3>5. Cardinality(HeldKeys(table)) \in Nat
      BY <3>4, FS_CardinalityType
    <3> QED BY <1>4, <1>15, <3>1, <3>3, <3>4, <3>5, SizeIsOfHeld
  <2> QED BY <2>1, <2>2, <2>3
<1>18. ~(s.allowed /\ ok) => Cause(a)
  <2>1. CASE ~s.allowed
    BY <2>1 DEF SoFar
  <2>2. CASE Live(c) /\ ~ok
    BY <1>1, <1>2, <1>4, <1>5, <2>2 DEF Cause, Within
  <2>3. CASE ~Live(c) /\ c = NoCounter /\ Full(s.table)
    <3>1. Cardinality(HeldKeys(s.table)) >= MaxCounters
      BY <2>3, SizeIsOfHeld DEF Full
    <3>2. k \in Missing(a) /\ Missing(a) \subseteq KeySet(a)
      BY <1>2, <2>3 DEF Missing
    <3>3. IsFiniteSet(Missing(a))
      BY <1>1, <3>2, FS_Subset
    <3>4. IsFiniteSet(Missing(a) \ {k})
          /\ Cardinality(Missing(a) \ {k}) = Cardinality(Missing(a)) - 1
      BY <3>2, <3>3, FS_RemoveElement
    <3>5. IsFiniteSet(HeldKeys(Pruned)) /\ Cardinality(HeldKeys(Pruned)) \in Nat
      BY FS_CardinalityType DEF TableOK
    <3>6. HeldKeys(s.table) \subseteq HeldKeys(Pruned) \cup (Missing(a) \ {k})
      BY DEF SoFar
    <3> DEFINE both == HeldKeys(Pruned) \cup (Missing(a) \ {k})
               over == HeldKeys(Pruned) \cap (Missing(a) \ {k})
    <3>7. IsFiniteSet(both)
          /\ Cardinality(both)
               = Cardinality(HeldKeys(Pruned)) + Cardinality(Missing(a) \ {k}) - Cardinality(over)
      BY <3>4, <3>5, FS_Union
    <3>8. Cardinality(over) \in Nat
      BY <3>5, FS_Subset, FS_CardinalityType
    <3>9. Cardinality(HeldKeys(s.table)) <= Cardinality(both)
      BY <3>6, <3>7, FS_Subset
    <3>10. Cardinality(Missing(a)) \in Nat /\ Cardinality(both) \in Nat
      BY <3>3, <3>7, FS_CardinalityType
    <3> HIDE DEF both, over
    <3>11. Cardinality(HeldKeys(Pruned)) + Cardinality(Missing(a)) > MaxCounters
      BY <1>4, <1>15, <3>1, <3>4, <3>5, <3>7, <3>8, <3>9, <3>10
    <3> QED BY <3>11, SizeIsOfHeld DEF Cause
  <2> QED BY <2>1, <2>2, <2>3
<1> HIDE DEF table, r, d, ok
<1>19. r.allowed \in BOOLEAN
  BY <1>3
<1>20. SoFar(r, a, done \cup {k})
  BY <1>3, <1>8, <1>10, <1>12, <1>16, <1>17, <1>18, <1>19 DEF SoFar, TableOK
<1> QED BY <1>20 DEF r

LEMMA PrunedIsOK == ASSUME TableOK(counter) PROVE TableOK(Pruned)
<1>1. Pruned \in [Keys -> Counter \cup {NoCounter}]
  BY DEF TableOK, Pruned
<1>2. HeldKeys(Pruned) \subseteq HeldKeys(counter)
  BY DEF TableOK, HeldKeys, Pruned
<1>3. MaxCounters \in Nat /\ Cardinality(HeldKeys(counter)) <= MaxCounters
  BY LimiterAssumption, SizeIsOfHeld DEF TableOK
<1>4. IsFiniteSet(HeldKeys(Pruned)) /\ Cardinality(HeldKeys(Pruned)) <= Cardinality(HeldKeys(counter))
  BY <1>2, FS_Subset DEF TableOK
<1>5. Cardinality(HeldKeys(counter)) \in Nat /\ Cardinality(HeldKeys(Pruned)) \in Nat
  BY <1>4, FS_CardinalityType DEF TableOK
<1> QED BY <1>1, <1>3, <1>4, <1>5, SizeIsOfHeld DEF TableOK

\* All four keys are counted.
LEMMA DecisionCounts ==
  ASSUME time \in Nat, TableOK(counter), NEW a \in Attempt
  PROVE  SoFar(Decision(a), a, KeySet(a))
<1> DEFINE k == KeysOf(a)
           s0 == [table |-> Pruned, allowed |-> TRUE]
           s1 == Increment(s0, k[1])
           s2 == Increment(s1, k[2])
           s3 == Increment(s2, k[3])
           s4 == Increment(s3, k[4])
<1>1. TableOK(Pruned)
  BY PrunedIsOK
<1>2. Decision(a) = s4
  BY DEF Decision
<1>3. KeySet(a) = {k[1], k[2], k[3], k[4]} /\ \A i, j \in 1..4 : i # j => k[i] # k[j]
  BY KeysOfAttempt
<1>4. SoFar(s0, a, {})
  BY <1>1 DEF SoFar
<1> HIDE DEF s0, k
<1>5. SoFar(s1, a, {k[1]})
  <2>1. SoFar(s1, a, {} \cup {k[1]})
    BY <1>1, <1>3, <1>4, IncrementCounts
  <2>2. {} \cup {k[1]} = {k[1]}
    OBVIOUS
  <2> QED BY <2>1, <2>2
<1> HIDE DEF s1
<1>6. SoFar(s2, a, {k[1]} \cup {k[2]})
  BY <1>1, <1>3, <1>5, IncrementCounts
<1> HIDE DEF s2
<1>7. SoFar(s3, a, {k[1]} \cup {k[2]} \cup {k[3]})
  BY <1>1, <1>3, <1>6, IncrementCounts
<1> HIDE DEF s3
<1>8. SoFar(s4, a, {k[1]} \cup {k[2]} \cup {k[3]} \cup {k[4]})
  BY <1>1, <1>3, <1>7, IncrementCounts
<1>9. {k[1]} \cup {k[2]} \cup {k[3]} \cup {k[4]} = KeySet(a)
  BY <1>3
<1> QED BY <1>2, <1>8, <1>9
-----------------------------------------------------------------------------
(***************************************************************************)
(* The inductive invariant of the limiter.                                 *)
(***************************************************************************)
KeyRow(k) == Accounted(counter[k], Limit[k[1]], passed[k], tried[k], time)

LimiterInv ==
  /\ time \in 0..LastTime /\ logins \in 0..MaxLogins
  /\ TableOK(counter)
  /\ tried \in [Keys -> Seq(Nat)] /\ passed \in [Keys -> Seq(Nat)]
  /\ \A k \in Keys : Times(tried[k], time) /\ Times(passed[k], time) /\ KeyRow(k)

LEMMA KeyLimit == ASSUME NEW k \in Keys PROVE Limit[k[1]] \in Nat \ {0}
BY KeysOfAttempt DEF Keys

LEMMA TimeIsNat == LimiterInv => time \in Nat
BY LimiterAssumption DEF LimiterInv

LEMMA EmptyIsAccounted ==
  ASSUME NEW limit, NEW now \in Nat
  PROVE  Times(<<>>, now) /\ Accounted(NoCounter, limit, <<>>, <<>>, now)
<1>1. Len(<<>>) = 0 /\ 1..0 = {} /\ <<>> \in Seq(Nat)
  OBVIOUS
<1> QED BY <1>1 DEF Times, Accounted, NoneCounted, Slides

LEMMA EmptyTable ==
  ASSUME NEW table, table = [k \in Keys |-> NoCounter]
  PROVE  TableOK(table)
<1>1. HeldKeys(table) = {}
  BY DEF HeldKeys
<1>2. IsFiniteSet(HeldKeys(table)) /\ Cardinality(HeldKeys(table)) = 0
  BY <1>1, FS_EmptySet
<1> QED BY <1>2, SizeIsOfHeld, LimiterAssumption DEF TableOK

LEMMA LimiterInit == InitLimiter => LimiterInv
<1> SUFFICES ASSUME InitLimiter PROVE LimiterInv
  OBVIOUS
<1>1. TableOK(counter)
  BY EmptyTable DEF InitLimiter
<1>2. \A k \in Keys : Times(tried[k], time) /\ Times(passed[k], time) /\ KeyRow(k)
  BY EmptyIsAccounted DEF InitLimiter, KeyRow
<1> QED BY <1>1, <1>2, LimiterAssumption DEF InitLimiter, LimiterInv

LEMMA RestartKeeps == LimiterInv /\ RestartLimiter => LimiterInv'
<1> SUFFICES ASSUME LimiterInv, RestartLimiter PROVE LimiterInv'
  OBVIOUS
<1>1. TableOK(counter')
  BY EmptyTable DEF RestartLimiter
<1>2. time' \in Nat
  BY TimeIsNat DEF RestartLimiter
<1>3. \A k \in Keys : /\ Times(tried'[k], time') /\ Times(passed'[k], time')
                      /\ Accounted(counter'[k], Limit[k[1]], passed'[k], tried'[k], time')
  BY <1>2, EmptyIsAccounted DEF RestartLimiter
<1> QED BY <1>1, <1>3 DEF RestartLimiter, LimiterInv, KeyRow, TableOK, HeldKeys, Size

LEMMA LaterTimes ==
  ASSUME NEW now \in Nat, NEW s, Times(s, now) PROVE Times(s, now + 1)
<1>1. Len(s) \in Nat /\ \A i \in 1..Len(s) : s[i] \in Nat
  BY DEF Times
<1> QED BY <1>1 DEF Times

LEMMA WaitKeeps == LimiterInv /\ Wait => LimiterInv'
<1> SUFFICES ASSUME LimiterInv, Wait PROVE LimiterInv'
  OBVIOUS
<1>1. time \in Nat /\ time' = time + 1 /\ time' \in 0..LastTime
  BY TimeIsNat, LimiterAssumption DEF Wait, LimiterInv
<1>2. \A k \in Keys : /\ Times(tried[k], time + 1) /\ Times(passed[k], time + 1)
                      /\ Accounted(counter[k], Limit[k[1]], passed[k], tried[k], time + 1)
  BY <1>1, LaterTimes, LaterIsAccounted, KeyLimit DEF LimiterInv, KeyRow, TableOK
<1> QED
  BY <1>1, <1>2 DEF Wait, LimiterInv, KeyRow, TableOK, HeldKeys, Size

\* What an attempt does to one of its keys.
LEMMA EnteredIsAccounted ==
  ASSUME NEW now \in Nat, now = time, NEW limit \in Nat \ {0}, NEW passes, NEW tries,
         NEW c \in Counter \cup {NoCounter}, NEW d, NEW allowed \in BOOLEAN,
         Entered(c, d, limit, allowed),
         Times(passes, now), Times(tries, now), Accounted(c, limit, passes, tries, now)
  PROVE  /\ Accounted(d, limit, passes, Append(tries, now), now)
         /\ allowed => Accounted(d, limit, Append(passes, now), Append(tries, now), now)
<1>1. CASE Live(c) /\ d = Counted(c) /\ (allowed => c.count + 1 <= limit)
  <2>1. c \in Counter /\ c # NoCounter /\ now < c.resetAt
    BY <1>1, CounterFields DEF Live
  <2> QED BY <1>1, <2>1, CountedIsAccounted
<1>2. CASE ~Live(c) /\ d = NewCounter(time)
  <2>1. ~(c # NoCounter /\ now < c.resetAt)
    BY <1>2, CounterFields DEF Live
  <2> QED BY <1>2, <2>1, NewIsAccounted
<1>3. CASE c = NoCounter /\ d = NoCounter /\ ~allowed
  BY <1>3 DEF Accounted
<1> QED BY <1>1, <1>2, <1>3 DEF Entered

LEMMA PrunedRow ==
  ASSUME LimiterInv, NEW k \in Keys
  PROVE  /\ Pruned[k] \in Counter \cup {NoCounter}
         /\ Accounted(Pruned[k], Limit[k[1]], passed[k], tried[k], time)
<1>1. time \in Nat /\ Limit[k[1]] \in Nat \ {0}
  BY TimeIsNat, KeyLimit
<1>2. counter[k] \in Counter \cup {NoCounter}
  BY DEF LimiterInv, TableOK
<1>3. Times(passed[k], time) /\ Accounted(counter[k], Limit[k[1]], passed[k], tried[k], time)
  BY DEF LimiterInv, KeyRow
<1>4. Pruned[k] = counter[k] \/ (Pruned[k] = NoCounter /\ ~Live(counter[k]))
  BY DEF Pruned
<1>5. CASE Pruned[k] = counter[k]
  BY <1>2, <1>3, <1>5
<1>6. CASE Pruned[k] = NoCounter /\ ~Live(counter[k]) /\ counter[k] # NoCounter
  <2>1. counter[k].resetAt <= time
    BY <1>1, <1>2, <1>6, CounterFields DEF Live
  <2> QED BY <1>1, <1>2, <1>3, <1>6, <2>1, PrunedIsAccounted
<1> QED BY <1>4, <1>5, <1>6

LEMMA SequencesAppend == \A s \in Seq(Nat), x \in Nat : Append(s, x) \in Seq(Nat)
OBVIOUS

LEMMA LoginKeeps == ASSUME LimiterInv, NEW a \in Attempt, Login(a) PROVE LimiterInv'
<1> DEFINE decision == Decision(a)
<1>1. time \in Nat /\ TableOK(counter)
  BY TimeIsNat DEF LimiterInv
<1>2. SoFar(decision, a, KeySet(a))
  BY <1>1, DecisionCounts
<1>3. /\ time' = time /\ logins' \in 0..MaxLogins
      /\ counter' = decision.table
      /\ tried' = Noted(tried, a)
      /\ passed' = IF decision.allowed THEN Noted(passed, a) ELSE passed
  BY LimiterAssumption DEF Login, LimiterInv
<1> HIDE DEF decision
<1>4. TableOK(counter') /\ decision.allowed \in BOOLEAN
  BY <1>2, <1>3 DEF SoFar
<1>5. tried' \in [Keys -> Seq(Nat)] /\ passed' \in [Keys -> Seq(Nat)]
  <2>1. Noted(tried, a) \in [Keys -> Seq(Nat)] /\ Noted(passed, a) \in [Keys -> Seq(Nat)]
    BY <1>1, SequencesAppend DEF LimiterInv, Noted
  <2> QED BY <1>3, <2>1 DEF LimiterInv
<1>6. KeySet(a) \subseteq Keys
  BY KeysOfAttempt
<1>7. ASSUME NEW k \in Keys
      PROVE  /\ Times(tried'[k], time) /\ Times(passed'[k], time)
             /\ Accounted(counter'[k], Limit[k[1]], passed'[k], tried'[k], time)
  <2>1. Times(tried[k], time) /\ Times(passed[k], time)
    BY DEF LimiterInv
  <2>2. Pruned[k] \in Counter \cup {NoCounter}
        /\ Accounted(Pruned[k], Limit[k[1]], passed[k], tried[k], time)
    BY PrunedRow
  <2>3. CASE k \notin KeySet(a)
    <3>1. tried'[k] = tried[k] /\ passed'[k] = passed[k] /\ counter'[k] = Pruned[k]
      BY <1>2, <1>3, <2>3 DEF Noted, SoFar
    <3> QED BY <2>1, <2>2, <3>1
  <2>4. CASE k \in KeySet(a)
    <3>1. tried'[k] = Append(tried[k], time)
          /\ passed'[k] = IF decision.allowed THEN Append(passed[k], time) ELSE passed[k]
      BY <1>3, <2>4 DEF Noted
    <3>2. Entered(Pruned[k], counter'[k], Limit[k[1]], decision.allowed)
      BY <1>2, <1>3, <2>4 DEF SoFar
    <3>3. Limit[k[1]] \in Nat \ {0}
      BY KeyLimit
    <3>4. /\ Accounted(counter'[k], Limit[k[1]], passed[k], Append(tried[k], time), time)
          /\ decision.allowed => Accounted(counter'[k], Limit[k[1]], Append(passed[k], time),
                                           Append(tried[k], time), time)
      BY <1>1, <1>4, <2>1, <2>2, <3>2, <3>3, EnteredIsAccounted
    <3>5. Times(Append(tried[k], time), time) /\ Times(Append(passed[k], time), time)
      BY <1>1, <2>1, AppendTime
    <3> QED BY <2>1, <3>1, <3>4, <3>5
  <2> QED BY <2>3, <2>4
<1> QED
  BY <1>1, <1>3, <1>4, <1>5, <1>7 DEF LimiterInv, KeyRow, TableOK, HeldKeys, Size

LEMMA LimiterStutters == LimiterInv /\ UNCHANGED limiterVars => LimiterInv'
BY DEF LimiterInv, limiterVars, KeyRow, TableOK, HeldKeys, Size

LEMMA LimiterNext == LimiterInv /\ [NextLimiter]_limiterVars => LimiterInv'
BY LoginKeeps, RestartKeeps, WaitKeeps, LimiterStutters DEF NextLimiter

LEMMA LimiterInvariant == LimiterSpec => []LimiterInv
BY LimiterInit, LimiterNext, PTL DEF LimiterSpec

\* In any time as long as a window, allow lets at most twice the limit of a key
\* through, pruning and the bound of the table included.
THEOREM SlidingHolds == LimiterSpec => []SlidingBound
<1>1. LimiterInv => SlidingBound
  BY DEF LimiterInv, KeyRow, Accounted, Slides, SlidingBound
<1> QED BY <1>1, LimiterInvariant, PTL

LEMMA BoundedTimes ==
  ASSUME NEW last \in Nat, NEW now \in 0..last, NEW s, Times(s, now)
  PROVE  s \in Seq(0..last)
<1>1. Len(s) \in Nat /\ \A i \in 1..Len(s) : s[i] \in 0..last
  BY DEF Times
<1>2. s = [i \in 1..Len(s) |-> s[i]]
  BY DEF Times
<1> QED BY <1>1, <1>2, SMT

\* The counters of the limiter keep their types, and the table never exceeds its
\* bound, although allow checks it key by key.
THEOREM LimiterTypes == LimiterSpec => []LimiterTypeOK
<1>1. ASSUME LimiterInv PROVE LimiterTypeOK
  <2>1. \A k \in Keys : tried[k] \in Seq(0..LastTime) /\ passed[k] \in Seq(0..LastTime)
    BY <1>1, BoundedTimes, LimiterAssumption DEF LimiterInv
  <2>2. tried \in [Keys -> Seq(0..LastTime)] /\ passed \in [Keys -> Seq(0..LastTime)]
    BY <1>1, <2>1 DEF LimiterInv
  <2> QED BY <1>1, <2>2 DEF LimiterInv, LimiterTypeOK, TableOK
<1> QED BY <1>1, LimiterInvariant, PTL

LEMMA AppendDiffers ==
  ASSUME NEW s \in Seq(Nat), NEW x \in Nat PROVE Append(s, x) # s
BY LenProperties, AppendProperties

\* A counter that is live and full has the tries of its window behind it.
LEMMA LimitWasTried ==
  ASSUME LimiterInv, NEW k \in Keys, Live(Pruned[k]), Pruned[k].count >= Limit[k[1]]
  PROVE  TriedUpToLimit(k)
<1> DEFINE c == Pruned[k]
           limit == Limit[k[1]]
           n == Len(tried[k])
<1>1. time \in Nat /\ limit \in Nat \ {0} /\ Window \in Nat
  BY TimeIsNat, KeyLimit, LimiterAssumption
<1>2. c \in Counter \cup {NoCounter} /\ Accounted(c, limit, passed[k], tried[k], time)
  BY PrunedRow
<1>3. c.count \in Nat /\ c.resetAt \in Nat /\ c # NoCounter /\ c.resetAt > time
  BY <1>2, CounterFields DEF Live
<1>4. TriesCounted(c, tried[k])
  BY <1>2, <1>3 DEF Accounted
<1>5. n \in Nat /\ \A i \in 1..n : tried[k][i] \in Nat
  BY DEF LimiterInv, Times
<1> DEFINE i == n + 1 - limit
<1>6. c.count >= limit /\ c.count <= n
  BY <1>4 DEF TriesCounted
<1> HIDE DEF c, limit
<1>7. i \in 1..n /\ i + c.count > n /\ i + limit = n + 1
  BY <1>1, <1>3, <1>5, <1>6
<1>8. tried[k][i] + Window >= c.resetAt
  BY <1>4, <1>7 DEF TriesCounted
<1>9. time < tried[k][i] + Window
  <2>1. tried[k][i] \in Nat
    BY <1>5, <1>7
  <2> QED BY <1>1, <1>3, <1>8, <2>1
<1> QED BY <1>7, <1>9 DEF TriedUpToLimit, limit

\* What RefusedForACause says of a step.
Refusal ==
  \A a \in Attempt :
    Login(a) /\ passed' = passed =>
      \/ \E k \in KeySet(a) : TriedUpToLimit(k)
      \/ Size(Pruned) + Cardinality({k \in KeySet(a) : Pruned[k] = NoCounter}) > MaxCounters

LEMMA RefusalHasCause ==
  ASSUME LimiterInv, NEW a \in Attempt, Login(a), passed' = passed
  PROVE  \/ \E k \in KeySet(a) : TriedUpToLimit(k)
         \/ Size(Pruned) + Cardinality({k \in KeySet(a) : Pruned[k] = NoCounter}) > MaxCounters
<1> DEFINE decision == Decision(a)
<1>1. time \in Nat /\ TableOK(counter)
  BY TimeIsNat DEF LimiterInv
<1>2. SoFar(decision, a, KeySet(a))
  BY <1>1, DecisionCounts
<1>3. passed' = IF decision.allowed THEN Noted(passed, a) ELSE passed
  BY DEF Login
<1> HIDE DEF decision
<1>4. KeySet(a) \subseteq Keys /\ KeysOf(a)[1] \in KeySet(a)
  BY KeysOfAttempt
<1>5. ~decision.allowed
  <2> DEFINE k == KeysOf(a)[1]
  <2> SUFFICES ASSUME decision.allowed PROVE FALSE
    OBVIOUS
  <2>1. passed'[k] = Append(passed[k], time)
    BY <1>3, <1>4 DEF Noted
  <2>2. passed[k] \in Seq(Nat)
    BY <1>4 DEF LimiterInv, Times
  <2> QED BY <1>1, <2>1, <2>2, AppendDiffers
<1>6. Cause(a)
  BY <1>2, <1>5 DEF SoFar
<1> QED BY <1>4, <1>6, LimitWasTried DEF Cause, Missing

\* What allow refuses was tried too often in the last window, or finds no room.
THEOREM RefusalsHaveCauses == LimiterSpec => RefusedForACause
<1>1. LimiterInv /\ [NextLimiter]_limiterVars => [Refusal]_limiterVars
  BY RefusalHasCause DEF Refusal
<1> QED BY <1>1, LimiterInvariant, PTL DEF LimiterSpec, RefusedForACause, Refusal

-----------------------------------------------------------------------------
(***************************************************************************)
(* Provisioning: one key has one living tenant, and an answer tells the    *)
(* password that opens it.                                                 *)
(***************************************************************************)
\* The record of a living tenant's key names it, and the password is the one that
\* is derived from them, or has been changed.
TenantsAreRecorded ==
  \A t \in Tenants : tenant[t].state = "live" =>
    LET k == tenant[t].key IN
    /\ record[k] \in RecordRow
    /\ record[k].tenant = t
    /\ tenant[t].password \in {<<k, record[k].body>>, NoOne}

\* A record names a living tenant of its key.
RecordsAreAlive ==
  \A k \in ProvisionKeys : record[k] # NoOne =>
    /\ tenant[record[k].tenant].state = "live"
    /\ tenant[record[k].tenant].key = k

Done(r) == request[r].pc \in {"committed", "answered"}

\* What a request was done with is a tenant that was there, and while it lives
\* the request's own password opens it.
DoneMatches ==
  \A r \in Requests : Done(r) =>
    /\ request[r].tenant \in Tenants
    /\ tenant[request[r].tenant] # NoTenant
    /\ tenant[request[r].tenant].state = "live"
         => tenant[request[r].tenant].password \in {TemporaryPassword(request[r]), NoOne}

ProvisioningInv == ProvisioningTypeOK /\ TenantsAreRecorded /\ RecordsAreAlive /\ DoneMatches

-----------------------------------------------------------------------------
USE DEF Tenants

LEMMA NoTenantIsNotLive == NoTenant.state # "live"
BY DEF NoTenant

LEMMA InitHolds == InitProvisioning => ProvisioningInv
BY DEF InitProvisioning, ProvisioningInv, ProvisioningTypeOK, TenantsAreRecorded, RecordsAreAlive,
       DoneMatches, Done, NotAsked, NoTenant

\* A request that changes nothing but its own row, and is not done by it.
LEMMA RequestMoves ==
  ASSUME ProvisioningInv, NEW r \in Requests, NEW row \in Asked,
         row.pc \notin {"committed", "answered"},
         request' = [request EXCEPT ![r] = row], UNCHANGED <<tenant, record>>
  PROVE  ProvisioningInv'
<1>1. ProvisioningTypeOK'
  BY DEF ProvisioningInv, ProvisioningTypeOK
<1>2. TenantsAreRecorded' /\ RecordsAreAlive'
  BY DEF ProvisioningInv, TenantsAreRecorded, RecordsAreAlive
<1>3. DoneMatches'
  <2> SUFFICES ASSUME NEW q \in Requests, Done(q)'
               PROVE  q # r /\ request'[q] = request[q] /\ Done(q)
    BY DEF ProvisioningInv, DoneMatches
  <2> QED BY DEF ProvisioningInv, ProvisioningTypeOK, Done
<1> QED BY <1>1, <1>2, <1>3 DEF ProvisioningInv

LEMMA AskStep == ASSUME ProvisioningInv, NEW r \in Requests, Ask(r) PROVE ProvisioningInv'
<1>1. PICK row \in Asked : request' = [request EXCEPT ![r] = row] /\ row.pc = "waiting"
  <2>1. PICK k \in ProvisionKeys, b \in Bodies, a \in PlatformAdmins, c \in TenantCodes :
          request' = [request EXCEPT ![r] = [key |-> k, body |-> b, admin |-> a, pc |-> "waiting",
                                             draw |-> 1, code |-> c, tenant |-> NoOne]]
    BY DEF Ask
  <2> DEFINE asked == [key |-> k, body |-> b, admin |-> a, pc |-> "waiting",
                       draw |-> 1, code |-> c, tenant |-> NoOne]
  <2>2. 1 \in 1..CodeAttempts
    BY ProvisioningAssumption
  <2>3. asked \in Asked /\ asked.pc = "waiting"
    BY <2>2 DEF Asked
  <2>4. request' = [request EXCEPT ![r] = asked]
    BY <2>1
  <2> HIDE DEF asked
  <2> QED BY <2>3, <2>4
<1> QED BY <1>1, RequestMoves DEF Ask

\* Of a request under way the row is known.
LEMMA UnderWay ==
  ASSUME ProvisioningInv, NEW r \in Requests, request[r].pc \in {"waiting", "locked", "committed"}
  PROVE  request[r] \in Asked
BY DEF ProvisioningInv, ProvisioningTypeOK, NotAsked

LEMMA LockStep == ASSUME ProvisioningInv, NEW r \in Requests, LockKey(r) PROVE ProvisioningInv'
<1> DEFINE row == [request[r] EXCEPT !.pc = "locked"]
<1>1. row \in Asked /\ row.pc = "locked"
  BY UnderWay DEF LockKey, Asked
<1>2. request' = [request EXCEPT ![r] = row]
  BY DEF LockKey
<1> HIDE DEF row
<1> QED BY <1>1, <1>2, RequestMoves DEF LockKey

LEMMA RefuseStep == ASSUME ProvisioningInv, NEW r \in Requests, RefuseKey(r) PROVE ProvisioningInv'
<1> DEFINE row == [request[r] EXCEPT !.pc = "failed"]
<1>1. row \in Asked /\ row.pc = "failed"
  BY UnderWay DEF RefuseKey, Asked
<1>2. request' = [request EXCEPT ![r] = row]
  BY DEF RefuseKey
<1> HIDE DEF row
<1> QED BY <1>1, <1>2, RequestMoves DEF RefuseKey

LEMMA DrawStep == ASSUME ProvisioningInv, NEW r \in Requests, DrawAgain(r) PROVE ProvisioningInv'
<1>0. request[r] \in Asked
  BY UnderWay DEF DrawAgain
<1>1. CASE request[r].draw < CodeAttempts
  <2>1. PICK c \in TenantCodes :
          request' = [request EXCEPT ![r].pc = "waiting", ![r].draw = @ + 1, ![r].code = c]
    BY <1>1 DEF DrawAgain
  <2> DEFINE row == [request[r] EXCEPT !.pc = "waiting", !.draw = @ + 1, !.code = c]
  <2>2. request[r].draw + 1 \in 1..CodeAttempts
    BY <1>0, <1>1, ProvisioningAssumption DEF Asked
  <2>4. row \in Asked /\ row.pc = "waiting"
    BY <1>0, <2>2 DEF Asked
  <2>3. request' = [request EXCEPT ![r] = row]
    BY <2>1, <1>0 DEF ProvisioningInv, ProvisioningTypeOK, Asked
  <2> HIDE DEF row
  <2> QED BY <2>4, <2>3, RequestMoves DEF DrawAgain
<1>2. CASE ~(request[r].draw < CodeAttempts)
  <2> DEFINE row == [request[r] EXCEPT !.pc = "failed"]
  <2>1. row \in Asked /\ row.pc = "failed"
    BY <1>0 DEF Asked
  <2>2. request' = [request EXCEPT ![r] = row]
    BY <1>2 DEF DrawAgain
  <2> HIDE DEF row
  <2> QED BY <2>1, <2>2, RequestMoves DEF DrawAgain
<1> QED BY <1>1, <1>2

LEMMA ReplayStep == ASSUME ProvisioningInv, NEW r \in Requests, Replay(r) PROVE ProvisioningInv'
<1> DEFINE t == record[request[r].key].tenant
           row == [request[r] EXCEPT !.pc = "committed", !.tenant = t]
<1>1. request[r] \in Asked /\ record[request[r].key] \in RecordRow
  BY UnderWay DEF Replay, Existing, ProvisioningInv, ProvisioningTypeOK, Asked
<1>2. t \in Tenants
  BY <1>1 DEF RecordRow
<1>3. row \in Asked /\ TemporaryPassword(row) = TemporaryPassword(request[r]) /\ row.tenant = t
  BY <1>1, <1>2 DEF Asked, TemporaryPassword
<1>4. request' = [request EXCEPT ![r] = row]
  BY <1>1 DEF Replay, Existing, ProvisioningInv, ProvisioningTypeOK, Asked
<1>5. tenant[t].state = "live" /\ tenant[t].key = request[r].key
  BY <1>1 DEF Replay, Existing, ProvisioningInv, RecordsAreAlive, Asked
<1>6. tenant[t].password \in {TemporaryPassword(request[r]), NoOne}
  BY <1>2, <1>5 DEF ProvisioningInv, TenantsAreRecorded, Replay, SameRequest, Existing, TemporaryPassword
<1>7. tenant[t] # NoTenant
  BY <1>5, NoTenantIsNotLive
<1> UNCHANGED <<tenant, record>>
  BY DEF Replay
<1> HIDE DEF t, row
<1>8. ProvisioningTypeOK'
  BY <1>3, <1>4 DEF ProvisioningInv, ProvisioningTypeOK
<1>9. TenantsAreRecorded' /\ RecordsAreAlive'
  BY DEF ProvisioningInv, TenantsAreRecorded, RecordsAreAlive
<1>10. DoneMatches'
  <2> SUFFICES ASSUME NEW q \in Requests, Done(q)'
               PROVE  /\ request'[q].tenant \in Tenants
                      /\ tenant[request'[q].tenant] # NoTenant
                      /\ tenant[request'[q].tenant].state = "live"
                           => tenant[request'[q].tenant].password \in {TemporaryPassword(request'[q]), NoOne}
    BY DEF DoneMatches
  <2>1. CASE q = r
    BY <2>1, <1>2, <1>3, <1>4, <1>6, <1>7 DEF ProvisioningInv, ProvisioningTypeOK
  <2>2. CASE q # r
    <3>1. request'[q] = request[q] /\ Done(q)
      BY <2>2, <1>4 DEF Done, ProvisioningInv, ProvisioningTypeOK
    <3> QED BY <3>1 DEF ProvisioningInv, DoneMatches
  <2> QED BY <2>1, <2>2
<1> QED BY <1>8, <1>9, <1>10 DEF ProvisioningInv

LEMMA AnswerStep == ASSUME ProvisioningInv, NEW r \in Requests, AnswerRequest(r) PROVE ProvisioningInv'
<1>1. PICK pc \in {"answered", "failed"} : request' = [request EXCEPT ![r].pc = pc]
  BY DEF AnswerRequest
<1> DEFINE row == [request[r] EXCEPT !.pc = pc]
<1>2. request[r] \in Asked /\ Done(r)
  BY UnderWay DEF AnswerRequest, Done
<1>3. /\ row \in Asked /\ row.tenant = request[r].tenant
      /\ TemporaryPassword(row) = TemporaryPassword(request[r])
  BY <1>2 DEF Asked, TemporaryPassword
<1>4. request' = [request EXCEPT ![r] = row]
  BY <1>1
<1> UNCHANGED <<tenant, record>>
  BY DEF AnswerRequest
<1> HIDE DEF row
<1>5. ProvisioningTypeOK'
  BY <1>3, <1>4 DEF ProvisioningInv, ProvisioningTypeOK
<1>6. TenantsAreRecorded' /\ RecordsAreAlive'
  BY DEF ProvisioningInv, TenantsAreRecorded, RecordsAreAlive
<1>7. DoneMatches'
  <2> SUFFICES ASSUME NEW q \in Requests, Done(q)'
               PROVE  /\ Done(q) /\ request'[q].tenant = request[q].tenant
                      /\ TemporaryPassword(request'[q]) = TemporaryPassword(request[q])
    BY DEF ProvisioningInv, DoneMatches
  <2> QED BY <1>2, <1>3, <1>4 DEF Done, ProvisioningInv, ProvisioningTypeOK
<1> QED BY <1>5, <1>6, <1>7 DEF ProvisioningInv

LEMMA CreateStep == ASSUME ProvisioningInv, NEW r \in Requests, CreateTenant(r) PROVE ProvisioningInv'
<1> DEFINE k == request[r].key
           b == request[r].body
           made == [state |-> "live", code |-> request[r].code, key |-> k, password |-> <<k, b>>]
<1>1. request[r] \in Asked /\ record[k] = NoOne
  BY UnderWay DEF CreateTenant, Existing
<1>2. k \in ProvisionKeys /\ b \in Bodies /\ request[r].admin \in PlatformAdmins /\ made \in TenantRow
  BY <1>1 DEF Asked, TenantRow, Password
<1>3. PICK t \in Tenants :
        /\ tenant[t] = NoTenant
        /\ tenant' = [tenant EXCEPT ![t] = made]
        /\ record' = [record EXCEPT ![k] = [body |-> b, admin |-> request[r].admin, tenant |-> t]]
        /\ request' = [request EXCEPT ![r].pc = "committed", ![r].tenant = t]
  BY DEF CreateTenant, RecordOf, TemporaryPassword
<1> DEFINE row == [request[r] EXCEPT !.pc = "committed", !.tenant = t]
           noted == [body |-> b, admin |-> request[r].admin, tenant |-> t]
<1>4. row \in Asked /\ TemporaryPassword(row) = <<k, b>> /\ row.tenant = t
  BY <1>1, <1>3 DEF Asked, TemporaryPassword
<1>5. request' = [request EXCEPT ![r] = row]
  BY <1>1, <1>3 DEF ProvisioningInv, ProvisioningTypeOK, Asked
<1>6. noted \in RecordRow /\ noted.tenant = t /\ noted.body = b
  BY <1>2, <1>3 DEF RecordRow
<1>7. made.state = "live" /\ made.key = k /\ made.password = <<k, b>> /\ made # NoTenant
  BY DEF NoTenant
<1>8. tenant' = [tenant EXCEPT ![t] = made] /\ record' = [record EXCEPT ![k] = noted]
  BY <1>3
<1>9. tenant[t] = NoTenant
  BY <1>3
<1> HIDE DEF made, noted, row
<1>10. ProvisioningTypeOK'
  BY <1>2, <1>4, <1>5, <1>6, <1>8 DEF ProvisioningInv, ProvisioningTypeOK
<1> HIDE DEF k, b
<1>11. TenantsAreRecorded'
  <2> SUFFICES ASSUME NEW u \in Tenants, tenant'[u].state = "live"
               PROVE  /\ record'[tenant'[u].key] \in RecordRow
                      /\ record'[tenant'[u].key].tenant = u
                      /\ tenant'[u].password \in {<<tenant'[u].key, record'[tenant'[u].key].body>>, NoOne}
    BY DEF TenantsAreRecorded
  <2>1. CASE u = t
    <3>1. tenant'[u] = made /\ record'[k] = noted
      BY <2>1, <1>2, <1>8 DEF ProvisioningInv, ProvisioningTypeOK
    <3> QED BY <3>1, <2>1, <1>6, <1>7
  <2>2. CASE u # t
    <3>1. tenant'[u] = tenant[u]
      BY <2>2, <1>8 DEF ProvisioningInv, ProvisioningTypeOK
    <3>2. record[tenant[u].key] \in RecordRow
      BY <3>1 DEF ProvisioningInv, TenantsAreRecorded
    <3>3. tenant[u].key # k
      BY <3>2, <1>1, NoRecordAssumption
    <3>4. record'[tenant[u].key] = record[tenant[u].key]
      <4>1. tenant[u].key \in ProvisionKeys
        BY <3>1 DEF ProvisioningInv, ProvisioningTypeOK, TenantRow, NoTenant
      <4> QED BY <4>1, <3>3, <1>8 DEF ProvisioningInv, ProvisioningTypeOK
    <3> QED BY <3>1, <3>4 DEF ProvisioningInv, TenantsAreRecorded
  <2> QED BY <2>1, <2>2
<1>12. RecordsAreAlive'
  <2> SUFFICES ASSUME NEW i \in ProvisionKeys, record'[i] # NoOne
               PROVE  /\ tenant'[record'[i].tenant].state = "live"
                      /\ tenant'[record'[i].tenant].key = i
    BY DEF RecordsAreAlive
  <2>1. CASE i = k
    BY <2>1, <1>2, <1>6, <1>7, <1>8 DEF ProvisioningInv, ProvisioningTypeOK
  <2>2. CASE i # k
    <3>1. record'[i] = record[i] /\ record[i] \in RecordRow
      BY <2>2, <1>8 DEF ProvisioningInv, ProvisioningTypeOK
    <3>2. tenant[record[i].tenant].state = "live" /\ tenant[record[i].tenant].key = i
      BY <3>1 DEF ProvisioningInv, RecordsAreAlive
    <3>3. record[i].tenant # t
      BY <3>2, <1>9, NoTenantIsNotLive
    <3>4. tenant'[record[i].tenant] = tenant[record[i].tenant]
      BY <3>1, <3>3, <1>8 DEF ProvisioningInv, ProvisioningTypeOK, RecordRow
    <3> QED BY <3>1, <3>2, <3>4
  <2> QED BY <2>1, <2>2
<1>13. DoneMatches'
  <2> SUFFICES ASSUME NEW q \in Requests, Done(q)'
               PROVE  /\ request'[q].tenant \in Tenants
                      /\ tenant'[request'[q].tenant] # NoTenant
                      /\ tenant'[request'[q].tenant].state = "live"
                           => tenant'[request'[q].tenant].password \in {TemporaryPassword(request'[q]), NoOne}
    BY DEF DoneMatches
  <2>1. CASE q = r
    <3>1. request'[q] = row /\ tenant'[t] = made
      BY <2>1, <1>5, <1>8 DEF ProvisioningInv, ProvisioningTypeOK
    <3> QED BY <3>1, <1>4, <1>7
  <2>2. CASE q # r
    <3>1. request'[q] = request[q] /\ Done(q)
      BY <2>2, <1>5 DEF Done, ProvisioningInv, ProvisioningTypeOK
    <3>2. request[q].tenant \in Tenants /\ request[q].tenant # t
      BY <3>1, <1>9 DEF ProvisioningInv, DoneMatches
    <3>3. tenant'[request[q].tenant] = tenant[request[q].tenant]
      BY <3>2, <1>8 DEF ProvisioningInv, ProvisioningTypeOK
    <3> QED BY <3>1, <3>3 DEF ProvisioningInv, DoneMatches
  <2> QED BY <2>1, <2>2
<1> QED BY <1>10, <1>11, <1>12, <1>13 DEF ProvisioningInv

LEMMA ChangeStep == ASSUME ProvisioningInv, NEW t \in Tenants, ChangePassword(t) PROVE ProvisioningInv'
<1> DEFINE row == [tenant[t] EXCEPT !.password = NoOne]
<1>1. /\ row \in TenantRow /\ row.state = "live" /\ row.key = tenant[t].key /\ row.password = NoOne
      /\ row # NoTenant
  BY DEF ChangePassword, ProvisioningInv, ProvisioningTypeOK, TenantRow, NoTenant
<1>2. tenant' = [tenant EXCEPT ![t] = row] /\ UNCHANGED <<request, record>> /\ tenant[t].state = "live"
  BY DEF ChangePassword
<1> HIDE DEF row
<1>3. ProvisioningTypeOK'
  BY <1>1, <1>2 DEF ProvisioningInv, ProvisioningTypeOK
<1>4. \A u \in Tenants : tenant'[u] = IF u = t THEN row ELSE tenant[u]
  BY <1>2 DEF ProvisioningInv, ProvisioningTypeOK
<1>5. TenantsAreRecorded'
  BY <1>1, <1>2, <1>4 DEF ProvisioningInv, TenantsAreRecorded
<1>6. RecordsAreAlive'
  BY <1>1, <1>2, <1>4 DEF ProvisioningInv, ProvisioningTypeOK, RecordRow, RecordsAreAlive
<1>7. DoneMatches'
  BY <1>1, <1>2, <1>4 DEF ProvisioningInv, DoneMatches, Done
<1> QED BY <1>3, <1>5, <1>6, <1>7 DEF ProvisioningInv

LEMMA EndStep == ASSUME ProvisioningInv, NEW t \in Tenants, EndTenant(t) PROVE ProvisioningInv'
<1>1. PICK state \in {"purged", "deleted"} :
        tenant' = [tenant EXCEPT ![t].state = state, ![t].password = NoOne]
  BY DEF EndTenant
<1> DEFINE row == [tenant[t] EXCEPT !.state = state, !.password = NoOne]
<1>0. tenant[t] \in TenantRow
  BY DEF EndTenant, ProvisioningInv, ProvisioningTypeOK, NoTenant
<1>2. row \in TenantRow /\ row.state # "live" /\ row # NoTenant
  <2>1. row.state = state
    BY <1>0 DEF TenantRow
  <2>2. row \in TenantRow
    BY <1>0 DEF TenantRow
  <2> HIDE DEF row
  <2> QED BY <2>1, <2>2 DEF NoTenant
<1>3. tenant' = [tenant EXCEPT ![t] = row]
  BY <1>1 DEF EndTenant, ProvisioningInv, ProvisioningTypeOK, TenantRow, NoTenant
<1> HIDE DEF row
<1>4. /\ \A u \in Tenants : tenant'[u] = IF u = t THEN row ELSE tenant[u]
      /\ \A k \in ProvisionKeys :
           record'[k] = IF record[k] # NoOne /\ record[k].tenant = t THEN NoOne ELSE record[k]
      /\ UNCHANGED request
  BY <1>3 DEF EndTenant, ProvisioningInv, ProvisioningTypeOK
<1>5. ProvisioningTypeOK'
  BY <1>2, <1>3, <1>4 DEF EndTenant, ProvisioningInv, ProvisioningTypeOK
<1>6. TenantsAreRecorded'
  <2> SUFFICES ASSUME NEW u \in Tenants, tenant'[u].state = "live"
               PROVE  tenant'[u] = tenant[u] /\ record'[tenant[u].key] = record[tenant[u].key]
    BY DEF ProvisioningInv, TenantsAreRecorded
  <2>1. u # t /\ tenant'[u] = tenant[u]
    BY <1>2, <1>4
  <2>2. record[tenant[u].key].tenant = u
    BY <2>1 DEF ProvisioningInv, TenantsAreRecorded
  <2>3. tenant[u].key \in ProvisionKeys
    BY <2>1 DEF ProvisioningInv, ProvisioningTypeOK, TenantRow, NoTenant
  <2> QED BY <2>1, <2>2, <2>3, <1>4
<1>7. RecordsAreAlive'
  BY <1>4 DEF ProvisioningInv, ProvisioningTypeOK, RecordRow, RecordsAreAlive
<1>8. DoneMatches'
  BY <1>2, <1>4 DEF ProvisioningInv, DoneMatches, Done
<1> QED BY <1>5, <1>6, <1>7, <1>8 DEF ProvisioningInv

LEMMA StepKeeps == ProvisioningInv /\ [NextProvisioning]_provisioningVars => ProvisioningInv'
<1> SUFFICES ASSUME ProvisioningInv, [NextProvisioning]_provisioningVars PROVE ProvisioningInv'
  OBVIOUS
<1>1. CASE UNCHANGED provisioningVars
  BY <1>1 DEF provisioningVars, ProvisioningInv, ProvisioningTypeOK, TenantsAreRecorded, RecordsAreAlive,
              DoneMatches, Done
<1>2. CASE NextProvisioning
  BY <1>2, AskStep, LockStep, RefuseStep, ReplayStep, CreateStep, DrawStep, AnswerStep,
     ChangeStep, EndStep DEF NextProvisioning
<1> QED BY <1>1, <1>2

LEMMA Inductive == ProvisioningSpec => []ProvisioningInv
BY InitHolds, StepKeeps, PTL DEF ProvisioningSpec

\* The tenants, their records and the requests keep their types.
THEOREM ProvisioningTypes == ProvisioningSpec => []ProvisioningTypeOK
<1>1. ProvisioningInv => ProvisioningTypeOK
  BY DEF ProvisioningInv
<1> QED BY <1>1, Inductive, PTL

\* Requests of createTenant under one key, at once or one after another, never leave
\* two living tenants.
THEOREM OneTenant == ProvisioningSpec => []OneTenantPerKey
<1>1. ProvisioningInv => OneTenantPerKey
  BY DEF ProvisioningInv, TenantsAreRecorded, OneTenantPerKey
<1> QED BY <1>1, Inductive, PTL

\* The password createTenant derives for its answer, a repeated one included, is
\* that of the tenant's first manager until it is changed.
THEOREM AnswerOpens == ProvisioningSpec => []AnswerOpensTenant
<1>1. ProvisioningInv => AnswerOpensTenant
  BY DEF ProvisioningInv, DoneMatches, Done, AnswerOpensTenant
<1> QED BY <1>1, Inductive, PTL
=============================================================================
