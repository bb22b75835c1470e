------------------------ MODULE RecordRetentionProofs -----------------------
(***************************************************************************)
(* Proofs about what a year ends: of RecordRetention, for any number of    *)
(* jobs, attempts, pollers and requests, any delays and any failures, as   *)
(* long as a live worker finishes before its claim is stale; and of        *)
(* Records, for any rows, tables, page and batch sizes.                    *)
(***************************************************************************)
EXTENDS MailDeliveryProofs, RecordRetention, Records, WellFoundedInduction

(***************************************************************************)
(* A destroyed family is never written again. The delivery keeps its own   *)
(* invariant beside the destruction; of it one needs that a live worker's  *)
(* job is processing and that a recovery acts on an attempt of the job its *)
(* claim names, so that neither holds a family that has ended.             *)
(***************************************************************************)
\* A destroyed family has ended, and no call of it is open.
ClosedFamily(j) == job[j].status \in Terminal /\ \A a \in AttemptsOf(j) : CallIsOver(a)

RetentionInv ==
  /\ IInv
  /\ destroyed \subseteq Jobs
  /\ \A j \in destroyed : ClosedFamily(j)

\* The rows of a family that is settled are left alone.
FamilyStays(j) ==
  /\ job'[j].status = job[j].status
  /\ \A a \in Attempts : attempt'[a] # attempt[a] => attempt'[a].job # j
  /\ \A a \in AttemptsOf(j) : a \in calls' => a \in calls

\* A worker writes only to the attempt it holds, whose job is processing.
LEMMA HeldIsProcessing ==
  ASSUME IInv, NEW w \in Workers, Live(w)
  PROVE  /\ worker[w].attempt \in Attempts
         /\ attempt[worker[w].attempt].job = worker[w].job
         /\ job[worker[w].job].status = "processing"
BY LiveFacts

LEMMA AttemptRows == ASSUME TypeOK PROVE attempt \in [Attempts -> AttemptRow]
BY DEF TypeOK

LEMMA ProcessingIsOpen == "processing" \notin Terminal
BY DEF Terminal

\* No step of a handler writes to, or calls for, a family that has ended, ...
LEMMA HandlingSpares ==
  ASSUME IInv, NEW w \in Workers, Handling(w), NEW j \in Jobs, job[j].status \in Terminal
  PROVE  /\ \A a \in Attempts : attempt'[a] # attempt[a] => attempt'[a].job # j
         /\ \A a \in AttemptsOf(j) : a \in calls' => a \in calls
<1>1. Live(w)
  BY DEF Handling, CheckGates, BlockClaimed, Defer, Invoke, CallProvider, Answer, RecordAccepted,
         RecordFinal, RecordRetry, At, Live
<1> DEFINE h == worker[w].attempt
<1>2. h \in Attempts /\ attempt[h].job # j /\ attempt \in [Attempts -> AttemptRow]
  BY <1>1, HeldIsProcessing, ProcessingIsOpen, AttemptRows DEF IInv
<1>3. /\ \A a \in Attempts \ {h} : attempt'[a] = attempt[a]
      /\ attempt'[h].job = attempt[h].job
      /\ calls' \subseteq calls \cup {h}
  <2>1. CASE CheckGates(w) \/ (\E outcome \in Outcomes : Answer(w, outcome))
    BY <2>1 DEF CheckGates, Answer
  <2>2. CASE \E accepted \in BOOLEAN : CallProvider(w, accepted)
    BY <2>2 DEF CallProvider
  <2>3. CASE BlockClaimed(w)
    BY <1>2, <2>3 DEF BlockClaimed, AttemptRow
  <2>4. CASE Defer(w)
    BY <1>2, <2>4 DEF Defer, AttemptRow
  <2>5. CASE Invoke(w)
    BY <1>2, <2>5 DEF Invoke, InvokedRow, AttemptRow
  <2>6. CASE RecordAccepted(w)
    BY <1>2, <2>6 DEF RecordAccepted, AttemptRow
  <2>7. CASE RecordFinal(w)
    BY <1>2, <2>7 DEF RecordFinal, AttemptRow
  <2>8. CASE RecordRetry(w)
    BY <1>2, <2>8 DEF RecordRetry, AttemptRow
  <2> QED BY <2>1, <2>2, <2>3, <2>4, <2>5, <2>6, <2>7, <2>8 DEF Handling
<1> HIDE DEF h
<1>4. \A a \in AttemptsOf(j) : a # h
  BY <1>2 DEF AttemptsOf
<1> QED BY <1>2, <1>3, <1>4

\* ... nor does a recovery that finds its rows, ...
LEMMA RecoverySpares ==
  ASSUME IInv, NEW p \in Pollers, Recovery(p), FindsRows(p), NEW j \in destroyed
  PROVE  /\ \A a \in Attempts : attempt'[a] # attempt[a] => attempt'[a].job # j
         /\ calls' = calls
<1>1. CASE CloseRecovered(p)
  <2> DEFINE s == poll[p].current
             h == s.attempt
  <2>1. poll[p].phase \in Acting
    BY <1>1 DEF CloseRecovered, Acting
  <2>2. s \in Snapshot /\ Abandoned(s)
    BY <2>1 DEF IInv, RecoveryInv
  <2>3. OnClaim(p)
    BY <1>1 DEF CloseRecovered, OnClaim
  <2>4. s.job # j
    BY <1>1, <2>3 DEF FindsRows
  <2>5. h \in Attempts /\ attempt[h].job = s.job
    BY <2>2 DEF Abandoned
  <2>6. attempt \in [Attempts -> AttemptRow]
    BY AttemptRows DEF IInv
  <2>7. /\ \A a \in Attempts \ {h} : attempt'[a] = attempt[a]
        /\ attempt'[h].job = attempt[h].job
        /\ calls' = calls
    BY <1>1, <2>5, <2>6 DEF CloseRecovered, AttemptRow
  <2> HIDE DEF s, h
  <2> QED BY <2>4, <2>5, <2>7
<1>2. CASE ~CloseRecovered(p)
  BY <1>2 DEF Recovery, BeginPoll, InspectClaim, MarkUnknown, Requeue, ReadDue, EndPoll
<1> QED BY <1>1, <1>2

\* ... nor a claim.
LEMMA ClaimingSpares ==
  ASSUME IInv, NEW w \in Workers, Claiming(w), NEW j \in Jobs, job[j].status \in Terminal
  PROVE  /\ \A a \in Attempts : attempt'[a] # attempt[a] => attempt'[a].job # j
         /\ calls' = calls
<1>1. PICK i \in Jobs, h \in FreshAttempts : Claim(w, i, h)
  BY DEF Claiming
<1>2. i # j
  BY <1>1 DEF Claim, Claimable, WindowOver, RetryDue, LegacyDue, Terminal
<1>3. h \in Attempts
  BY DEF FreshAttempts
<1>4. attempt \in [Attempts -> AttemptRow]
  BY AttemptRows DEF IInv
<1>5. /\ \A a \in Attempts \ {h} : attempt'[a] = attempt[a]
      /\ attempt'[h].job = i
      /\ calls' = calls
  BY <1>1, <1>3, <1>4 DEF Claim, AttemptRow
<1> QED BY <1>2, <1>5

LEMMA FamiliesStay ==
  ASSUME Prompt, RetentionInv, RetentionNext, NEW j \in destroyed
  PROVE  FamilyStays(j)
<1>1. IInv /\ j \in Jobs /\ job[j].status \in Terminal
  BY DEF RetentionInv, ClosedFamily
<1>2. CASE Deliver
  <2>1. Next /\ \A p \in Pollers : FindsRows(p)
    BY <1>2 DEF Deliver
  <2>2. job'[j].status = job[j].status
    <3>1. IInv'
      BY <1>1, <2>1, NextKeepsInv
    <3> QED BY <1>1, <2>1, <3>1, TerminalStep
  <2>3. /\ \A a \in Attempts : attempt'[a] # attempt[a] => attempt'[a].job # j
        /\ \A a \in AttemptsOf(j) : a \in calls' => a \in calls
    <3>1. CASE \E p \in Pollers : Recovery(p)
      BY <1>1, <2>1, <3>1, RecoverySpares
    <3>2. CASE \E w \in Workers : Claiming(w)
      BY <1>1, <3>2, ClaimingSpares
    <3>3. CASE \E w \in Workers : Handling(w)
      BY <1>1, <3>3, HandlingSpares
    <3>4. CASE UNCHANGED <<attempt, calls>>
      BY <3>4
    <3>5. CASE \/ \E p \in Pollers : Skipping(p)
               \/ \E w \in Workers : Fail(w)
               \/ Environment \/ Tick
      BY <3>4, <3>5 DEF Skipping, NotClaimed, Fail, Environment, BeginCancel, FinishCancel,
                        CloseLocation, ReopenLocation, Tick
    <3> QED BY <2>1, <3>1, <3>2, <3>3, <3>5 DEF Next
  <2> QED BY <2>2, <2>3 DEF FamilyStays
<1>3. CASE (\E p \in Pollers : LosePoll(p)) \/ (\E i \in Jobs : Age(i) \/ DestroyFamily(i)) \/ Freeze
  <2>1. UNCHANGED <<job, attempt, calls>>
    BY <1>3 DEF LosePoll, Age, DestroyFamily, Freeze, vars
  <2> QED BY <2>1 DEF FamilyStays
<1> QED BY <1>2, <1>3 DEF RetentionNext

\* A poll that does not find its rows forgets them.
LEMMA LosePollKeeps == ASSUME IInv, NEW p \in Pollers, LosePoll(p) PROVE IInv'
<1>1. UNCHANGED <<job, attempt, worker, calls, mailed, deferrals, rest>>
      /\ poll' = [poll EXCEPT ![p] = NoPoll]
  BY DEF LosePoll
<1>2. NoPoll \in PollState
  BY DEF NoPoll, PollState, PollPhase
<1>3. TypeOK'
  BY <1>1, <1>2 DEF IInv, TypeOK, Assigned, rest
<1>4. \A q \in Pollers : poll'[q] = poll[q] \/ (poll'[q].stale = {} /\ poll'[q].phase = "idle")
  BY <1>1 DEF IInv, TypeOK, NoPoll
<1>5. \A c : (Abandoned(c)' <=> Abandoned(c)) /\ (ClaimedBy(c)' <=> ClaimedBy(c))
  BY <1>1 DEF Abandoned, ClaimedBy, Live
<1>6. RecoveryInv'
  BY <1>1, <1>4, <1>5 DEF IInv, RecoveryInv, Acting
<1> QED BY <1>1, <1>3, <1>6, PollingKeeps DEF rest

LEMMA RetentionStep ==
  ASSUME Prompt, RetentionInv, [RetentionNext]_allVars PROVE RetentionInv'
<1>1. IInv
  BY DEF RetentionInv
<1>2. IInv'
  <2>1. CASE Next \/ UNCHANGED vars
    BY <1>1, <2>1, NextKeepsInv
  <2>2. CASE \E p \in Pollers : LosePoll(p)
    BY <1>1, <2>2, LosePollKeeps
  <2> QED BY <2>1, <2>2
          DEF RetentionNext, Deliver, Age, DestroyFamily, Freeze, allVars
<1>3. \A j \in destroyed : FamilyStays(j)
  <2>1. CASE RetentionNext
    BY <2>1, FamiliesStay
  <2>2. CASE UNCHANGED allVars
    BY <2>2 DEF FamilyStays, allVars, vars
  <2> QED BY <2>1, <2>2
<1>4. \A j \in destroyed : ClosedFamily(j)'
  <2> SUFFICES ASSUME NEW j \in destroyed PROVE ClosedFamily(j)'
    OBVIOUS
  <2>1. ClosedFamily(j) /\ FamilyStays(j)
    BY <1>3 DEF RetentionInv
  <2>2. \A a \in Attempts : attempt'[a].job = j => attempt'[a] = attempt[a]
    BY <2>1 DEF FamilyStays
  <2> QED BY <2>1, <2>2 DEF ClosedFamily, FamilyStays, AttemptsOf, CallIsOver
<1>5. destroyed' = destroyed \/ \E j \in Jobs : DestroyFamily(j)
  BY DEF RetentionNext, Deliver, LosePoll, Age, Freeze, allVars, retentionVars
<1>6. ASSUME NEW j \in Jobs, DestroyFamily(j) PROVE ClosedFamily(j)'
  BY <1>6 DEF DestroyFamily, Destroyable, HasEnded, ClosedFamily, AttemptsOf, CallIsOver, vars
<1>7. ASSUME NEW j \in Jobs, DestroyFamily(j) PROVE destroyed' = destroyed \cup {j}
  BY <1>7 DEF DestroyFamily
<1> QED BY <1>2, <1>4, <1>5, <1>6, <1>7 DEF RetentionInv

LEMMA RetentionStarts == ASSUME RetentionInit PROVE RetentionInv
BY InitInv DEF RetentionInit, RetentionInv

\* Beside the destruction of families the delivery keeps its invariant, and what
\* was destroyed stays as the purge transaction found it: ended, no call open.
THEOREM RetentionSafe == ASSUME Prompt PROVE RetentionSpec => []RetentionInv
<1>1. RetentionInit => RetentionInv
  BY RetentionStarts
<1>2. RetentionInv /\ [RetentionNext]_allVars => RetentionInv'
  BY RetentionStep
<1> QED BY <1>1, <1>2, PTL DEF RetentionSpec

\* The rows of a destroyed family are never written, and no call is made for it.
THEOREM DestroyedStays == ASSUME Prompt PROVE RetentionSpec => DestroyedStaysGone
<1>1. RetentionInv /\ [RetentionNext]_allVars
        => [\A j \in destroyed :
              /\ job'[j].status = job[j].status
              /\ \A a \in Attempts : attempt'[a] # attempt[a] => attempt'[a].job # j
              /\ \A a \in AttemptsOf(j) : a \in calls' => a \in calls]_allVars
  BY FamiliesStay DEF FamilyStays
<1> QED BY <1>1, RetentionSafe, PTL DEF RetentionSpec, DestroyedStaysGone

-----------------------------------------------------------------------------
(***************************************************************************)
(* Records. The least element of a set of numbers.                         *)
(***************************************************************************)
NatLess == {p \in Nat \X Nat : p[1] < p[2]}

LEMMA NatLessIsWF == IsWellFoundedOn(NatLess, Nat)
<1>1. OpToRel(<, Nat) = NatLess
  BY DEF OpToRel, NatLess
<1> QED BY <1>1, NatLessThanWellFounded

LEMMA Least ==
  ASSUME NEW S \in SUBSET Nat, S # {}
  PROVE  \E m \in S : \A n \in S : m <= n
<1>1. PICK m \in S : \A n \in S : ~(<<n, m>> \in NatLess)
  BY NatLessIsWF, WFMin, Zenon
<1>2. \A n \in S : n \in Nat /\ m \in Nat /\ ~(n < m)
  BY <1>1 DEF NatLess
<1> QED BY <1>1, <1>2

\* The types of the rows, of time and of the layout, which stays.
RecordTypes ==
  /\ record \in [Rows -> [at : 0..LastTick, state : {"none", "open", "there", "gone"}]]
  /\ tick \in 0..LastTick
  /\ layout \in Layouts

LEMMA OwnRows == ASSUME RecordTypes PROVE Own \subseteq Rows
BY RecordsAssumption DEF RecordTypes, Own

-----------------------------------------------------------------------------
(***************************************************************************)
(* The order of the rows, newest first: it is total, and of a finite set   *)
(* there is a newest and an oldest row, the one with the fewest rows ahead *)
(* of it or behind it.                                                     *)
(***************************************************************************)
Before(r, s) == Newer(Key(r), Key(s))

LEMMA BeforeIs ==
  ASSUME RecordTypes, NEW r \in Rows, NEW s \in Rows
  PROVE  /\ record[r].at \in Nat /\ record[s].at \in Nat /\ r \in Nat /\ s \in Nat
         /\ Before(r, s) <=> record[r].at > record[s].at
                              \/ (record[r].at = record[s].at /\ r > s)
BY RecordsAssumption DEF RecordTypes, Before, Newer, Key

LEMMA BeforeOrders ==
  ASSUME RecordTypes, NEW r \in Rows, NEW s \in Rows, NEW t \in Rows
  PROVE  /\ ~Before(r, r)
         /\ Before(r, s) => ~Before(s, r)
         /\ r # s => Before(r, s) \/ Before(s, r)
         /\ Before(r, s) /\ Before(s, t) => Before(r, t)
BY BeforeIs

Ahead(S, r) == {s \in S : Before(s, r)}
Behind(S, r) == {s \in S : Before(r, s)}

LEMMA FiniteRows == ASSUME NEW S \in SUBSET Rows
                    PROVE  IsFiniteSet(S) /\ Cardinality(S) \in Nat
BY RecordsAssumption, FS_Subset, FS_CardinalityType

LEMMA FewerAhead ==
  ASSUME RecordTypes, NEW S \in SUBSET Rows, NEW r \in S, NEW s \in S, Before(s, r)
  PROVE  Cardinality(Ahead(S, s)) < Cardinality(Ahead(S, r))
<1>1. Ahead(S, r) \in SUBSET Rows /\ Ahead(S, s) \subseteq Ahead(S, r) \ {s}
  BY BeforeOrders DEF Ahead
<1>2. s \in Ahead(S, r)
  BY DEF Ahead
<1>3. IsFiniteSet(Ahead(S, r)) /\ Cardinality(Ahead(S, r)) \in Nat
  BY <1>1, FiniteRows
<1>4. /\ IsFiniteSet(Ahead(S, r) \ {s})
      /\ Cardinality(Ahead(S, r) \ {s}) = Cardinality(Ahead(S, r)) - 1
  BY <1>2, <1>3, FS_RemoveElement
<1>5. /\ Cardinality(Ahead(S, s)) <= Cardinality(Ahead(S, r) \ {s})
      /\ Cardinality(Ahead(S, s)) \in Nat
  BY <1>1, <1>4, FS_Subset, FS_CardinalityType
<1> QED BY <1>3, <1>4, <1>5

LEMMA FewerBehind ==
  ASSUME RecordTypes, NEW S \in SUBSET Rows, NEW r \in S, NEW s \in S, Before(r, s)
  PROVE  Cardinality(Behind(S, s)) < Cardinality(Behind(S, r))
<1>1. Behind(S, r) \in SUBSET Rows /\ Behind(S, s) \subseteq Behind(S, r) \ {s}
  BY BeforeOrders DEF Behind
<1>2. s \in Behind(S, r)
  BY DEF Behind
<1>3. IsFiniteSet(Behind(S, r)) /\ Cardinality(Behind(S, r)) \in Nat
  BY <1>1, FiniteRows
<1>4. /\ IsFiniteSet(Behind(S, r) \ {s})
      /\ Cardinality(Behind(S, r) \ {s}) = Cardinality(Behind(S, r)) - 1
  BY <1>2, <1>3, FS_RemoveElement
<1>5. /\ Cardinality(Behind(S, s)) <= Cardinality(Behind(S, r) \ {s})
      /\ Cardinality(Behind(S, s)) \in Nat
  BY <1>1, <1>4, FS_Subset, FS_CardinalityType
<1> QED BY <1>3, <1>4, <1>5

LEMMA NewestThere ==
  ASSUME RecordTypes, NEW S \in SUBSET Rows, S # {}
  PROVE  \E r \in S : Cardinality(Ahead(S, r)) = 0
<1> DEFINE counts == {Cardinality(Ahead(S, r)) : r \in S}
<1>1. \A r \in S : Cardinality(Ahead(S, r)) \in Nat
  BY FiniteRows DEF Ahead
<1>2. PICK m \in counts : \A n \in counts : m <= n
  <2>1. counts \in SUBSET Nat /\ counts # {}
    BY <1>1
  <2> HIDE DEF counts
  <2> QED BY <2>1, Least
<1>3. PICK r \in S : m = Cardinality(Ahead(S, r))
  BY <1>2
<1>4. Ahead(S, r) = {}
  <2> SUFFICES ASSUME NEW s \in Ahead(S, r) PROVE FALSE
    OBVIOUS
  <2>1. s \in S /\ Before(s, r)
    BY DEF Ahead
  <2>2. Cardinality(Ahead(S, s)) < m /\ Cardinality(Ahead(S, s)) \in counts
    BY <1>3, <2>1, FewerAhead
  <2>3. m \in Nat /\ m <= Cardinality(Ahead(S, s)) /\ Cardinality(Ahead(S, s)) \in Nat
    BY <1>1, <1>2, <1>3, <2>1, <2>2
  <2> QED BY <2>2, <2>3
<1> QED BY <1>4, FS_EmptySet

LEMMA OldestThere ==
  ASSUME RecordTypes, NEW S \in SUBSET Rows, S # {}
  PROVE  OldestOf(S) \in S /\ \A s \in S : ~Before(OldestOf(S), s)
<1> DEFINE counts == {Cardinality(Behind(S, r)) : r \in S}
<1>1. \A r \in S : Cardinality(Behind(S, r)) \in Nat
  BY FiniteRows DEF Behind
<1>2. PICK m \in counts : \A n \in counts : m <= n
  <2>1. counts \in SUBSET Nat /\ counts # {}
    BY <1>1
  <2> HIDE DEF counts
  <2> QED BY <2>1, Least
<1>3. PICK r \in S : m = Cardinality(Behind(S, r))
  BY <1>2
<1>4. \A s \in S : ~Before(r, s)
  <2> SUFFICES ASSUME NEW s \in S, Before(r, s) PROVE FALSE
    OBVIOUS
  <2>2. Cardinality(Behind(S, s)) < m /\ Cardinality(Behind(S, s)) \in counts
    BY <1>3, FewerBehind
  <2>3. m \in Nat /\ m <= Cardinality(Behind(S, s)) /\ Cardinality(Behind(S, s)) \in Nat
    BY <1>1, <1>2, <1>3, <2>2
  <2> QED BY <2>2, <2>3
<1>5. \A s \in S : ~Newer(Key(r), Key(s))
  BY <1>4 DEF Before
<1> QED BY <1>5 DEF OldestOf, Before

\* A page of rows is a beginning of them, all of them if they fit, and not empty.
LEMMA NewestRows ==
  ASSUME RecordTypes, NEW S \in SUBSET Rows
  PROVE  LET page == Newest(S, PageLimit) IN
         /\ page \subseteq S
         /\ S # {} => page # {}
         /\ Cardinality(S) <= PageLimit => page = S
         /\ \A r \in S \ page, s \in page : Before(s, r)
<1> DEFINE page == Newest(S, PageLimit)
<1>1. PageLimit \in Nat /\ PageLimit > 0
  BY RecordsAssumption
<1>2. page = {r \in S : Cardinality(Ahead(S, r)) < PageLimit}
  BY DEF Newest, Ahead, Before
<1> HIDE DEF page
<1>3. S # {} => page # {}
  BY <1>1, <1>2, NewestThere
<1>4. ASSUME Cardinality(S) <= PageLimit, NEW r \in S PROVE r \in page
  <2>1. IsFiniteSet(S) /\ Cardinality(S) \in Nat
    BY FiniteRows
  <2>2. IsFiniteSet(S \ {r}) /\ Cardinality(S \ {r}) = Cardinality(S) - 1
    BY <2>1, FS_RemoveElement
  <2>3. Ahead(S, r) \in SUBSET (S \ {r})
    BY BeforeOrders DEF Ahead
  <2>4. Cardinality(Ahead(S, r)) <= Cardinality(S \ {r}) /\ Cardinality(Ahead(S, r)) \in Nat
    BY <2>2, <2>3, FS_Subset, FS_CardinalityType
  <2> QED BY <1>1, <1>2, <1>4, <2>1, <2>2, <2>4
<1>5. ASSUME NEW r \in S \ page, NEW s \in page PROVE Before(s, r)
  <2>1. r # s /\ s \in S /\ ~(Cardinality(Ahead(S, r)) < PageLimit)
        /\ Cardinality(Ahead(S, s)) < PageLimit
    BY <1>2, <1>5
  <2>2. Cardinality(Ahead(S, r)) \in Nat /\ Cardinality(Ahead(S, s)) \in Nat
    BY FiniteRows DEF Ahead
  <2>3. ~Before(r, s)
    BY <1>1, <2>1, <2>2, FewerAhead
  <2> QED BY <2>1, <2>3, BeforeOrders
<1>6. page \subseteq S
  BY <1>2
<1> QED BY <1>3, <1>4, <1>5, <1>6 DEF page

-----------------------------------------------------------------------------
(***************************************************************************)
(* A walk through a list. Of the rows that are still there, those shown    *)
(* are at the cursor or ahead of it, and those that were there when the    *)
(* first page was read, and were not shown, are behind it. Rows that a     *)
(* reader has met never come back, and a new row is none of them.          *)
(***************************************************************************)
KeyIn(rows, r) == [at |-> rows[r].at, id |-> r]

WalkOK(w, rows) ==
  /\ ~w.twice /\ w.pc \in {"idle", "reading", "read"}
  /\ w.shown \subseteq Rows /\ w.unseen \subseteq Rows /\ w.cursor \in [at : Nat, id : Nat]
  /\ w.pc = "idle" => w = NoWalk
  /\ w.pc = "read" => w.unseen = {}
  /\ \A r \in w.shown \cup w.unseen : rows[r].state \in {"there", "gone"}
  /\ \A r \in w.shown : rows[r].state = "there" => ~Newer(w.cursor, KeyIn(rows, r))
  /\ \A r \in w.unseen : rows[r].state = "there" => Newer(w.cursor, KeyIn(rows, r))

HistoryInv == RecordTypes /\ WalkOK(walk, record)

LEMMA StartIsCursor == Start \in [at : Nat, id : Nat]
BY RecordsAssumption DEF Start

\* A row that a reader has met stays as it is or goes.
Kept ==
  \A r \in Rows : record[r].state \in {"there", "gone"} =>
    record'[r] = record[r] \/ record'[r].state = "gone"

LEMMA WalkStays ==
  ASSUME NEW w, WalkOK(w, record), Kept PROVE WalkOK(w, record')
<1>1. \A r \in w.shown \cup w.unseen :
        record'[r].state \in {"there", "gone"} /\
        (record'[r].state = "there" => record[r].state = "there" /\ KeyIn(record', r) = KeyIn(record, r))
  BY DEF WalkOK, Kept, KeyIn
<1> QED BY <1>1 DEF WalkOK

\* The next page keeps what a walk promises, read from any set of rows there are.
LEMMA ShownIsRight ==
  ASSUME HistoryInv, NEW k, NEW S \in SUBSET Rows, \A r \in S : record[r].state = "there",
         Continues(k), Shown(k, S)
  PROVE  WalkOK(walk', record)
<1> DEFINE rows == Below(walk.cursor, S)
           page == Newest(rows, PageLimit)
           left == IF walk.pc = "idle" THEN S ELSE walk.unseen \cap S
           unseen == left \ page
           twice == walk.twice \/ page \cap walk.shown # {}
           last == OldestOf(page)
<1>1. WalkOK(walk, record) /\ RecordTypes
  BY DEF HistoryInv
<1>2. \A r \in S : KeyIn(record, r) = Key(r)
  BY DEF KeyIn, Key
<1>3. rows = {r \in S : Newer(walk.cursor, Key(r))} /\ rows \in SUBSET Rows
  BY DEF Below
<1>4. left \subseteq rows
  <2>1. CASE walk.pc = "idle"
    <3>1. walk.cursor = [at |-> LastTick + 1, id |-> 0]
      BY <1>1, <2>1 DEF WalkOK, NoWalk, Start
    <3>2. \A r \in S : record[r].at \in 0..LastTick
      BY <1>1 DEF RecordTypes
    <3>3. \A r \in S : Newer(walk.cursor, Key(r))
      BY <3>1, <3>2, RecordsAssumption DEF Newer, Key
    <3> QED BY <1>3, <2>1, <3>3
  <2>2. CASE walk.pc # "idle"
    BY <1>1, <1>2, <1>3, <2>2 DEF WalkOK
  <2> QED BY <2>1, <2>2
<1>5. /\ page \subseteq rows
      /\ rows # {} => page # {}
      /\ Cardinality(rows) <= PageLimit => page = rows
      /\ \A r \in rows \ page, s \in page : Before(s, r)
  BY <1>1, <1>3, NewestRows
<1>6. ~twice
  <2>1. \A r \in page : r \notin walk.shown
    BY <1>1, <1>2, <1>3, <1>5 DEF WalkOK
  <2> QED BY <1>1, <2>1 DEF WalkOK
<1>7. walk' = IF Cardinality(rows) > PageLimit
             THEN [pc |-> "reading", of |-> k, cursor |-> Key(last),
                   shown |-> walk.shown \cup page, unseen |-> unseen, twice |-> twice]
             ELSE [NoWalk EXCEPT !.pc = "read", !.unseen = unseen, !.twice = twice]
  BY DEF Shown
<1>8. unseen = left \ page
  OBVIOUS
<1>9. walk.pc = "idle" => walk.shown = {}
  BY <1>1 DEF WalkOK, NoWalk
<1>10. Cardinality(rows) \in Nat /\ PageLimit \in Nat /\ PageLimit > 0
  BY <1>3, FiniteRows, RecordsAssumption
<1> HIDE DEF rows, page, left, unseen, twice, last
<1>11. CASE Cardinality(rows) > PageLimit
  <2>1. walk' = [pc |-> "reading", of |-> k, cursor |-> Key(last),
                 shown |-> walk.shown \cup page, unseen |-> unseen, twice |-> twice]
    BY <1>7, <1>11
  <2>2. rows # {}
    BY <1>10, <1>11, FS_EmptySet
  <2>3. page \in SUBSET Rows /\ page # {}
    BY <1>3, <1>5, <2>2
  <2>4. last \in page /\ \A s \in page : ~Before(last, s)
    BY <1>1, <2>3, OldestThere DEF last
  <2>5. last \in Rows /\ last \in S /\ Newer(walk.cursor, Key(last))
    BY <1>3, <1>5, <2>4
  <2>6. \A r \in walk.shown : record[r].state = "there" => ~Newer(Key(last), KeyIn(record, r))
    <3> SUFFICES ASSUME NEW r \in walk.shown, record[r].state = "there",
                        Newer(Key(last), KeyIn(record, r))
                 PROVE  FALSE
      OBVIOUS
    <3>1. r \in Rows /\ ~Newer(walk.cursor, KeyIn(record, r))
      BY <1>1 DEF WalkOK
    <3>2. KeyIn(record, r) = Key(r)
      BY DEF KeyIn, Key
    <3>3. walk.cursor.at \in Nat /\ walk.cursor.id \in Nat
      BY <1>1 DEF WalkOK
    <3> QED BY <1>1, <2>5, <3>1, <3>2, <3>3, RecordsAssumption DEF Newer, Key, RecordTypes
  <2>7. \A r \in page : ~Newer(Key(last), KeyIn(record, r))
    BY <1>2, <1>3, <1>5, <2>4 DEF Before
  <2>8. \A r \in unseen : r \in rows \ page /\ Newer(Key(last), KeyIn(record, r))
    <3> SUFFICES ASSUME NEW r \in unseen
                 PROVE  r \in rows \ page /\ Newer(Key(last), KeyIn(record, r))
      OBVIOUS
    <3>1. r \in rows \ page
      BY <1>4, <1>8
    <3>2. Before(last, r)
      BY <1>5, <2>4, <3>1
    <3> QED BY <1>2, <1>3, <3>1, <3>2 DEF Before
  <2>10. Key(last) \in [at : Nat, id : Nat]
    BY <1>1, <2>5, RecordsAssumption DEF Key, RecordTypes
  <2>9. \A r \in walk.shown \cup page \cup unseen : r \in Rows /\ record[r].state \in {"there", "gone"}
    BY <1>1, <1>3, <1>5, <2>8 DEF WalkOK
  <2> QED BY <1>6, <2>1, <2>6, <2>7, <2>8, <2>9, <2>10 DEF WalkOK
<1>12. CASE ~(Cardinality(rows) > PageLimit)
  <2>1. walk' = [NoWalk EXCEPT !.pc = "read", !.unseen = unseen, !.twice = twice]
    BY <1>7, <1>12
  <2>2. unseen = {}
    BY <1>4, <1>5, <1>8, <1>10, <1>12
  <2>3. /\ walk'.pc = "read" /\ walk'.unseen = {} /\ walk'.shown = {} /\ walk'.twice = twice
      /\ walk'.cursor = Start
    BY <2>1, <2>2 DEF NoWalk
  <2> QED BY <1>6, <2>3, StartIsCursor DEF WalkOK
<1> QED BY <1>11, <1>12

LEMMA StaysRight ==
  ASSUME HistoryInv, UNCHANGED walk, RecordTypes', Kept PROVE HistoryInv'
BY WalkStays DEF HistoryInv

\* The ways in which rows change: made, destroyed one by one or together, committed.
LEMMA RowMade ==
  ASSUME RecordTypes, NEW r \in Rows, NEW k, Recorded(r, k), UNCHANGED <<layout, tick>>
  PROVE  RecordTypes' /\ Kept /\ \A s \in Rows : record[s].state = "there" => record'[s] = record[s]
<1> DEFINE made == [at |-> tick, state |-> "there"]
<1>1. made \in [at : 0..LastTick, state : {"none", "open", "there", "gone"}]
  BY DEF RecordTypes
<1>2. record' = [record EXCEPT ![r] = made] /\ record[r].state = "none"
  BY DEF Recorded, Made
<1> HIDE DEF made
<1> QED BY <1>1, <1>2 DEF RecordTypes, Kept

LEMMA SameRows ==
  ASSUME RecordTypes, UNCHANGED <<record, layout, tick>>
  PROVE  RecordTypes' /\ Kept
BY DEF RecordTypes, Kept

\* What the lists show, and what is recorded of a query.
LEMMA ListIsRight ==
  ASSUME HistoryInv, NEW k, NEW S \in SUBSET Rows, \A r \in S : record[r].state = "there",
         Continues(k), Shown(k, S), RecordTypes', Kept
  PROVE  HistoryInv'
<1>1. WalkOK(walk', record)
  BY ShownIsRight
<1> DEFINE w == walk'
<1>2. WalkOK(w, record)
  BY <1>1
<1> HIDE DEF w
<1>3. WalkOK(w, record')
  BY <1>2, WalkStays
<1> QED BY <1>3 DEF HistoryInv, w

LEMMA RowsGo ==
  ASSUME RecordTypes, UNCHANGED <<layout, tick>>, NEW R \in SUBSET Rows,
         record' = [r \in Rows |-> IF r \in R THEN Gone ELSE record[r]]
  PROVE  RecordTypes' /\ Kept
<1>1. Gone \in [at : 0..LastTick, state : {"none", "open", "there", "gone"}] /\ Gone.state = "gone"
  BY RecordsAssumption DEF Gone
<1> QED BY <1>1 DEF RecordTypes, Kept

LEMMA PassStays ==
  ASSUME RecordTypes, DestroyNext
  PROVE  /\ RecordTypes' /\ Kept
         /\ \A r \in Rows : record'[r] = record[r] \/ MayGo(r)
<1> DEFINE r == OldestOf(pass.batch)
<1>1. record' = IF MayGo(r) THEN [record EXCEPT ![r] = Gone] ELSE record
  BY DEF DestroyNext, Removed
<1>2. UNCHANGED <<layout, tick>>
  BY DEF DestroyNext
<1> HIDE DEF r
<1>3. CASE record' = record
  BY <1>2, <1>3, SameRows
<1>4. CASE MayGo(r) /\ record' = [record EXCEPT ![r] = Gone]
  <2>1. DOMAIN record = Rows
    BY DEF RecordTypes
  <2>2. record' = [s \in Rows |-> IF s \in {r} \cap Rows THEN Gone ELSE record[s]]
    BY <1>4, <2>1
  <2>3. RecordTypes' /\ Kept
    BY <1>2, <2>2, RowsGo
  <2> QED BY <1>4, <2>2, <2>3
<1> QED BY <1>1, <1>3, <1>4

LEMMA OpenCommits ==
  ASSUME RecordTypes, CommitScanEvent \/ BeginScanEvent
  PROVE  /\ RecordTypes' /\ Kept
         /\ \A r \in Rows : record[r].state = "there" => record'[r] = record[r]
<1>0. UNCHANGED <<layout, tick>>
  BY DEF CommitScanEvent, BeginScanEvent
<1>1. CASE BeginScanEvent
  <2>1. PICK r \in Rows : record[r].state = "none" /\ record' = [record EXCEPT ![r] = Made("open")]
    BY <1>1 DEF BeginScanEvent
  <2>2. Made("open") \in [at : 0..LastTick, state : {"none", "open", "there", "gone"}]
    BY DEF Made, RecordTypes
  <2> QED BY <1>0, <2>1, <2>2 DEF RecordTypes, Kept
<1>2. CASE CommitScanEvent
  <2>1. PICK r \in Rows : record[r].state = "open" /\ record' = [record EXCEPT ![r].state = "there"]
    BY <1>2 DEF CommitScanEvent
  <2>2. [record[r] EXCEPT !.state = "there"]
          \in [at : 0..LastTick, state : {"none", "open", "there", "gone"}]
    BY DEF RecordTypes
  <2> QED BY <1>0, <2>1, <2>2 DEF RecordTypes, Kept
<1> QED BY <1>1, <1>2

LEMMA ThereAreRows ==
  ASSUME RecordTypes
  PROVE  \A k : There(k) \in SUBSET Rows /\ \A r \in There(k) : record[r].state = "there"
BY DEF There

LEMMA HistoryStep == ASSUME HistoryInv, [NextRecords]_recordsVars PROVE HistoryInv'
<1>1. RecordTypes
  BY DEF HistoryInv
<1>2. CASE UNCHANGED <<record, layout, tick, walk>>
  BY <1>1, <1>2, SameRows, StaysRight
<1>3. CASE BeginScanEvent \/ CommitScanEvent
  BY <1>1, <1>3, OpenCommits, StaysRight DEF BeginScanEvent, CommitScanEvent
<1>4. CASE RecordEvent
  BY <1>1, <1>4, RowMade, StaysRight DEF RecordEvent
<1>5. CASE ListScanEvents \/ ListMailJobs
  <2>1. RecordTypes' /\ Kept
    BY <1>1, <1>5, SameRows DEF ListScanEvents, ListMailJobs
  <2> QED BY <1>1, <1>5, <2>1, ThereAreRows, ListIsRight DEF ListScanEvents, ListMailJobs
<1>6. CASE ListAuditLogs
  <2>1. RecordTypes' /\ Kept
    BY <1>1, <1>6, SameRows, RowMade DEF ListAuditLogs, NotRecorded
  <2>2. /\ There("business") \cap Own \in SUBSET Rows
        /\ \A r \in There("business") \cap Own : record[r].state = "there"
    BY <1>1, ThereAreRows
  <2>3. Continues("business") /\ Shown("business", There("business") \cap Own)
    BY <1>6 DEF ListAuditLogs
  <2> QED BY <2>1, <2>2, <2>3, ListIsRight
<1>7. CASE ListPlatformAudits
  <2>1. RecordTypes' /\ Kept
    BY <1>1, <1>7, RowMade DEF ListPlatformAudits
  <2> QED BY <1>1, <1>7, <2>1, ThereAreRows, ListIsRight DEF ListPlatformAudits
<1>8. CASE LeaveList
  <2>1. RecordTypes' /\ walk' = NoWalk
    BY <1>1, <1>8, SameRows DEF LeaveList
  <2>2. WalkOK(walk', record')
    BY <2>1, StartIsCursor DEF WalkOK, NoWalk
  <2> QED BY <2>1, <2>2 DEF HistoryInv
<1>9. CASE DestroyNext
  BY <1>1, <1>9, PassStays, StaysRight DEF DestroyNext
<1>10. CASE EndPass
  BY <1>1, <1>10, SameRows, RowMade, StaysRight DEF EndPass, NotRecorded
<1>11. CASE PurgeTenant
  <2> DEFINE R == {r \in Rows : r \in Own /\ Kind(r) # "platform" /\ record[r].state = "there"}
  <2>1. record' = [r \in Rows |-> IF r \in R THEN Gone ELSE record[r]]
    BY <1>11 DEF PurgeTenant
  <2>2. R \in SUBSET Rows
    OBVIOUS
  <2> HIDE DEF R
  <2> QED BY <1>1, <1>11, <2>1, <2>2, RowsGo, StaysRight DEF PurgeTenant
<1>12. CASE NextTick
  <2>1. RecordTypes' /\ Kept
    BY <1>1, <1>12, RecordsAssumption DEF NextTick, RecordTypes, Kept
  <2> QED BY <1>12, <2>1, StaysRight DEF NextTick
<1>13. CASE \/ SettleMail \/ BeginPass \/ NextKind \/ DestroyFails \/ PassDies
            \/ DeleteTenant \/ RestoreTenant \/ UNCHANGED recordsVars
  BY <1>2, <1>13 DEF SettleMail, BeginPass, NextKind, DestroyFails, PassDies, DeleteTenant,
                     RestoreTenant, recordsVars
<1> QED BY <1>3, <1>4, <1>5, <1>6, <1>7, <1>8, <1>9, <1>10, <1>11, <1>12, <1>13
        DEF NextRecords, PassStep

LEMMA HistoryStarts == ASSUME InitRecords PROVE HistoryInv
<1>1. RecordTypes
  BY RecordsAssumption DEF InitRecords, RecordTypes
<1>2. WalkOK(walk, record)
  BY StartIsCursor DEF InitRecords, WalkOK, NoWalk
<1> QED BY <1>1, <1>2 DEF HistoryInv

\* A reader who goes to the last page has seen once each all the records that were
\* there at the first page and are there still.
THEOREM WalksAreExact == SpecRecords => []WalkIsExact
<1>1. InitRecords => HistoryInv
  BY HistoryStarts
<1>2. HistoryInv /\ [NextRecords]_recordsVars => HistoryInv'
  BY HistoryStep
<1>3. HistoryInv => WalkIsExact
  BY DEF HistoryInv, WalkOK, WalkIsExact
<1> QED BY <1>1, <1>2, <1>3, PTL DEF SpecRecords

(***************************************************************************)
(* Nothing is destroyed while a deletion can be undone: the pass checks    *)
(* the tenant again under its lock, and a purge is the end of that time.   *)
(***************************************************************************)
PendingStays ==
  \A r \in Own : tenant.status = "pending_delete" /\ tenant' = tenant =>
    (record[r].state = "there" => record'[r].state = "there")

TenantTypes == tenant \in [status : {"active", "pending_delete", "purged"}, deletions : Nat]

LEMMA TenantStep == ASSUME TenantTypes, [NextRecords]_recordsVars PROVE TenantTypes'
<1>1. CASE DeleteTenant \/ RestoreTenant \/ PurgeTenant
  BY <1>1 DEF DeleteTenant, RestoreTenant, PurgeTenant, TenantTypes
<1>2. CASE UNCHANGED tenant
  BY <1>2 DEF TenantTypes
<1> QED BY <1>1, <1>2
        DEF NextRecords, PassStep, BeginScanEvent, CommitScanEvent, RecordEvent, SettleMail,
            ListScanEvents, ListMailJobs, ListAuditLogs, ListPlatformAudits, LeaveList, BeginPass,
            DestroyNext, NextKind, EndPass, DestroyFails, PassDies, NextTick, recordsVars

LEMMA PendingKeeps == ASSUME HistoryInv, TenantTypes, NextRecords PROVE PendingStays
<1>1. RecordTypes /\ Own \subseteq Rows
  BY OwnRows DEF HistoryInv
<1>2. CASE UNCHANGED record
  BY <1>2 DEF PendingStays
<1>3. CASE BeginScanEvent \/ CommitScanEvent
  BY <1>1, <1>3, OpenCommits DEF PendingStays
<1>4. ASSUME NEW r \in Rows, NEW k, Recorded(r, k), UNCHANGED <<layout, tick>>
      PROVE  PendingStays
  BY <1>1, <1>4, RowMade DEF PendingStays
<1>5. CASE RecordEvent \/ ListAuditLogs \/ ListPlatformAudits \/ EndPass
  BY <1>2, <1>4, <1>5 DEF RecordEvent, ListAuditLogs, ListPlatformAudits, EndPass, NotRecorded
<1>6. CASE DestroyNext
  <2>1. \A r \in Rows : record'[r] = record[r] \/ MayGo(r)
    BY <1>1, <1>6, PassStays
  <2>2. \A r \in Own : tenant.status = "pending_delete" => ~MayGo(r)
    BY DEF MayGo, Destructible, Held, HeldFamily, HeldAudit
  <2> QED BY <1>1, <2>1, <2>2 DEF PendingStays
<1>7. CASE PurgeTenant
  <2>1. tenant.status = "pending_delete" /\ tenant' = [tenant EXCEPT !.status = "purged"]
    BY <1>7 DEF PurgeTenant
  <2>2. tenant' # tenant
    BY <2>1 DEF TenantTypes
  <2> QED BY <2>2 DEF PendingStays
<1>8. CASE \/ SettleMail \/ ListScanEvents \/ ListMailJobs \/ LeaveList \/ BeginPass \/ NextKind
           \/ DestroyFails \/ PassDies \/ DeleteTenant \/ RestoreTenant \/ NextTick
  BY <1>2, <1>8 DEF SettleMail, ListScanEvents, ListMailJobs, LeaveList, BeginPass, NextKind,
                    DestroyFails, PassDies, DeleteTenant, RestoreTenant, NextTick
<1> QED BY <1>3, <1>5, <1>6, <1>7, <1>8 DEF NextRecords, PassStep

\* As long as the deletion of a tenant can be undone nothing of it is destroyed.
THEOREM PendingHolds == SpecRecords => NothingGoesWhilePending
<1>1. InitRecords => HistoryInv /\ TenantTypes
  BY HistoryStarts DEF InitRecords, TenantTypes
<1>2. HistoryInv /\ [NextRecords]_recordsVars => HistoryInv'
  BY HistoryStep
<1>3. TenantTypes /\ [NextRecords]_recordsVars => TenantTypes'
  BY TenantStep
<1>4. HistoryInv /\ TenantTypes /\ [NextRecords]_recordsVars => [PendingStays]_recordsVars
  BY PendingKeeps
<1> QED BY <1>1, <1>2, <1>3, <1>4, PTL DEF SpecRecords, NothingGoesWhilePending, PendingStays
=============================================================================
