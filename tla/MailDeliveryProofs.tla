------------------------- MODULE MailDeliveryProofs -------------------------
(***************************************************************************)
(* Theorems of MailDelivery, for any number of jobs, attempts, pollers and *)
(* requests and any delays.                                                *)
(***************************************************************************)
EXTENDS MailDelivery, TLAPS, FiniteSetTheorems

(***************************************************************************)
(* The inductive invariant. Its parts say, in turn, what an id that was    *)
(* not drawn yet looks like, what a live worker knows of its rows, what a  *)
(* claimed row names, what a poll's stale list may still be acted upon,    *)
(* and what a call or an accepted mail leaves in the job's row.            *)
(***************************************************************************)
Live(w) == worker[w].pc # "idle"

Unused(a) == attempt[a].status = "unused"

FreshInv ==
  \A a \in Attempts :
    IF Unused(a)
    THEN attempt[a].job = None /\ ~attempt[a].invoked /\ ~attempt[a].completed /\ a \notin calls
    ELSE attempt[a].job \in Jobs

HoldsClaim(w) ==
  /\ worker[w].job \in Jobs /\ worker[w].attempt \in Attempts
  /\ job[worker[w].job].status = "processing"
  /\ job[worker[w].job].claim = worker[w].attempt
  /\ job[worker[w].job].retryCount = worker[w].retryCount
  /\ job[worker[w].job].claimAge = worker[w].age
  /\ worker[w].age < StaleAfter

BeforeBoundary == {"claimed", "blocked", "cleared"}
AfterCall == {"calling", "answered"}

KnowsBoundary(w) ==
  /\ attempt[worker[w].attempt].invoked <=> worker[w].pc \notin BeforeBoundary
  /\ worker[w].attempt \in calls <=> worker[w].pc \in AfterCall

KnowsOutcome(w) ==
  worker[w].pc = "answered" =>
    /\ worker[w].outcome \in Outcomes
    /\ worker[w].attempt \in mailed => worker[w].outcome \in {"accepted", "unknown"}
    /\ worker[w].attempt \notin mailed => worker[w].outcome # "accepted"

WorkerInv == \A w \in Workers : Live(w) => HoldsClaim(w) /\ KnowsBoundary(w) /\ KnowsOutcome(w)

ClaimInv ==
  \A j \in Jobs : job[j].status = "processing" =>
    /\ job[j].claim \in Attempts /\ job[j].claimAge \in Nat
    /\ attempt[job[j].claim].job = j /\ ~attempt[job[j].claim].completed

ClaimedBy(s) == job[s.job].status = "processing" /\ job[s.job].claim = s.attempt

\* A claim that was once stale is nobody's.
Abandoned(s) ==
  /\ s.job \in Jobs /\ s.attempt \in Attempts /\ attempt[s.attempt].job = s.job
  /\ \A w \in Workers : Live(w) => worker[w].attempt # s.attempt
  /\ ClaimedBy(s) => job[s.job].retryCount = s.retryCount

Acting == {"marking_unknown", "requeueing", "closing_unknown", "closing_abandoned"}

RecoveryInv ==
  \A p \in Pollers :
    /\ \A s \in poll[p].stale : Abandoned(s)
    /\ poll[p].phase \in Acting => poll[p].current \in Snapshot /\ Abandoned(poll[p].current)
    /\ poll[p].phase = "marking_unknown" =>
         /\ attempt[poll[p].current.attempt].invoked
         /\ \/ ClaimedBy(poll[p].current)
            \/ job[poll[p].current.job].status = "delivery_unknown"
    /\ poll[p].phase = "requeueing" => ~attempt[poll[p].current.attempt].invoked
    /\ poll[p].phase \in {"closing_unknown", "closing_abandoned"} => ~ClaimedBy(poll[p].current)

ClaimOf(a) == job[attempt[a].job].status = "processing" /\ job[attempt[a].job].claim = a

\* Past the boundary an attempt keeps its claim until its outcome is recorded.
BoundaryInv ==
  \A a \in Attempts : attempt[a].invoked /\ ~attempt[a].completed =>
    ClaimOf(a) \/ job[attempt[a].job].status = "delivery_unknown"

\* A job that was called can neither be canceled nor wait again: its retries count.
CallInv ==
  \A a \in calls :
    /\ attempt[a].invoked
    /\ job[attempt[a].job].status \notin {"waiting", "canceled"}
    /\ job[attempt[a].job].status \in {"queued", "processing"} /\ ~ClaimOf(a) =>
         job[attempt[a].job].retryCount # 0

MailInv ==
  \A a \in mailed :
    /\ ClaimOf(a) \/ job[attempt[a].job].status \in {"sent", "delivery_unknown"}
    /\ \A b \in mailed : attempt[b].job = attempt[a].job => b = a

WindowInv ==
  \A j \in Jobs \ Legacy : job[j].window > 0 => job[j].status \in {"waiting", "canceled"}

CancelInv == \A j \in Jobs : j \in canceled <=> job[j].status = "canceled"

IInv ==
  /\ TypeOK /\ RowConstraints /\ FreshInv /\ WorkerInv /\ OneWorkerPerJob /\ ClaimInv
  /\ RecoveryInv /\ BoundaryInv /\ CallInv /\ MailInv /\ WindowInv /\ CancelInv

-----------------------------------------------------------------------------
(***************************************************************************)
(* Types.                                                                  *)
(***************************************************************************)
LEMMA Statuses ==
  /\ {"waiting", "queued", "processing", "sent", "failed", "canceled", "delivery_unknown"}
       \subseteq JobStatus
  /\ {"unused", "claimed", "invoked", "deferred", "abandoned", "blocked",
      "retry_scheduled", "failed", "succeeded", "delivery_unknown"} \subseteq AttemptStatus
BY DEF JobStatus, Terminal, AttemptStatus

\* Every way a statement rewrites a row of mail_jobs keeps the row's type.
LEMMA JobRowUpdates ==
  ASSUME NEW r \in JobRow, NEW s \in JobStatus
  PROVE  /\ [r EXCEPT !.status = s] \in JobRow
         /\ \A t \in Nat \cup {None} :
              /\ [r EXCEPT !.status = s, !.scheduledAt = t] \in JobRow
              /\ \A n \in Nat : [r EXCEPT !.status = s, !.retryCount = n, !.scheduledAt = t] \in JobRow
         /\ \A age \in Nat \cup {None}, a \in Attempts \cup {None} :
              /\ [r EXCEPT !.status = s, !.claimAge = age, !.claim = a] \in JobRow
              /\ \A t \in Nat \cup {None} :
                   [r EXCEPT !.status = s, !.scheduledAt = t, !.claimAge = age, !.claim = a] \in JobRow
BY DEF JobRow

LEMMA AttemptRowUpdates ==
  ASSUME NEW r \in AttemptRow, NEW s \in AttemptStatus
  PROVE  /\ \A j \in Jobs : [r EXCEPT !.job = j, !.status = s] \in AttemptRow
         /\ [r EXCEPT !.status = s, !.invoked = TRUE] \in AttemptRow
         /\ [r EXCEPT !.status = s, !.completed = TRUE] \in AttemptRow
         /\ [r EXCEPT !.status = s, !.completed = TRUE, !.closed = TRUE] \in AttemptRow
BY DEF AttemptRow

LEMMA PollUpdates ==
  ASSUME NEW r \in PollState, NEW phase \in PollPhase
  PROVE  /\ [r EXCEPT !.phase = phase] \in PollState
         /\ [r EXCEPT !.phase = phase, !.current = None] \in PollState
         /\ \A D \in SUBSET Jobs : [r EXCEPT !.phase = phase, !.due = D] \in PollState
BY DEF PollState

LEMMA Phases ==
  /\ NoPoll \in PollState
  /\ {"recovering", "closing_unknown", "closing_abandoned", "sending"} \subseteq PollPhase
BY DEF NoPoll, PollState, PollPhase

LEMMA RecoveryTypes ==
  ASSUME TypeOK, NEW p \in Pollers, Recovery(p)
  PROVE  TypeOK'
<1> USE ConstantsAssumption DEF TypeOK, rest, Assigned
<1>1. CASE BeginPoll(p)
  <2>1. StaleClaims \subseteq Snapshot
    <3>1. ASSUME NEW j \in Jobs, Stale(j)
          PROVE  [job |-> j, attempt |-> job[j].claim, retryCount |-> job[j].retryCount] \in Snapshot
      BY <3>1 DEF Stale, Snapshot, JobRow
    <3> QED BY <3>1 DEF StaleClaims
  <2>2. poll' \in [Pollers -> PollState]
    BY <1>1, <2>1 DEF BeginPoll, PollState, PollPhase, NoPoll
  <2> QED BY <1>1, <2>2 DEF BeginPoll
<1>2. ASSUME NEW s \in poll[p].stale, InspectClaim(p, s)
      PROVE  TypeOK'
  <2>1. s \in Snapshot BY DEF PollState
  <2>2. Verdict(attempt[s.attempt]) \in PollPhase BY DEF PollPhase, Verdict
  <2>3. ASSUME NEW r \in PollState, NEW phase \in PollPhase, NEW c \in Snapshot \cup {None},
               NEW S \in SUBSET Snapshot
        PROVE  [r EXCEPT !.stale = S, !.current = c, !.phase = phase] \in PollState
    BY <2>3 DEF PollState
  <2>4. poll[p] \in PollState /\ poll[p].stale \ {s} \in SUBSET Snapshot BY DEF PollState
  <2>5. poll' \in [Pollers -> PollState] BY <1>2, <2>1, <2>2, <2>3, <2>4 DEF InspectClaim
  <2> QED BY <1>2, <2>5 DEF InspectClaim
<1>3. CASE MarkUnknown(p)
  <2>1. poll' \in [Pollers -> PollState] BY <1>3, Phases, PollUpdates DEF MarkUnknown
  <2>2. job' \in [Jobs -> JobRow] BY <1>3, Statuses, JobRowUpdates DEF MarkUnknown
  <2> QED BY <1>3, <2>1, <2>2 DEF MarkUnknown
<1>4. CASE Requeue(p)
  <2>1. poll' \in [Pollers -> PollState] BY <1>4, Phases, PollUpdates DEF Requeue
  <2>2. job' \in [Jobs -> JobRow] BY <1>4, Statuses, JobRowUpdates DEF Requeue
  <2> QED BY <1>4, <2>1, <2>2 DEF Requeue
<1>5. CASE CloseRecovered(p)
  <2>1. poll' \in [Pollers -> PollState]
    BY <1>5, Phases, PollUpdates DEF CloseRecovered
  <2>2. attempt' \in [Attempts -> AttemptRow]
    BY <1>5, Statuses, AttemptRowUpdates DEF CloseRecovered
  <2> QED BY <1>5, <2>1, <2>2 DEF CloseRecovered
<1>6. CASE ReadDue(p)
  <2>1. poll' \in [Pollers -> PollState] BY <1>6, Phases, PollUpdates DEF ReadDue
  <2> QED BY <1>6, <2>1 DEF ReadDue
<1>7. CASE EndPoll(p)
  <2>1. poll' \in [Pollers -> PollState] BY <1>7 DEF EndPoll, PollState, PollPhase, NoPoll
  <2> QED BY <1>7, <2>1 DEF EndPoll
<1> QED BY <1>1, <1>2, <1>3, <1>4, <1>5, <1>6, <1>7 DEF Recovery

LEMMA ClaimingTypes ==
  ASSUME TypeOK, NEW w \in Workers, NEW j \in Jobs, NEW a \in FreshAttempts, Claim(w, j, a)
  PROVE  TypeOK'
<1> USE ConstantsAssumption DEF TypeOK, rest
<1>1. a \in Attempts BY DEF FreshAttempts
<1>2. job' \in [Jobs -> JobRow]
  <2>1. ClaimedRow(job[j], a) \in JobRow BY <1>1, Statuses, JobRowUpdates DEF ClaimedRow
  <2> QED BY <2>1 DEF Claim
<1>3. attempt' \in [Attempts -> AttemptRow] BY <1>1, Statuses, AttemptRowUpdates DEF Claim
<1>4. worker' \in [Workers -> WorkerState]
  BY <1>1 DEF Claim, WorkerState, PC, Idle, JobRow
<1>5. poll' \in [Pollers -> PollState] BY DEF Claim, Taken, PollState
<1>6. Assigned' BY <1>1 DEF Claim, Assigned, Idle
<1> QED BY <1>2, <1>3, <1>4, <1>5, <1>6 DEF Claim

LEMMA SkippingTypes ==
  ASSUME TypeOK, NEW p \in Pollers, NEW j \in Jobs, NotClaimed(p, j)
  PROVE  TypeOK'
<1> USE DEF TypeOK, rest, Assigned
<1>1. poll' \in [Pollers -> PollState] BY DEF NotClaimed, Taken, PollState, Workers
<1> QED BY <1>1 DEF NotClaimed

LEMMA IdleTyped == Idle \in WorkerState
BY ConstantsAssumption DEF Idle, WorkerState, PC

LEMMA DoneTyped ==
  ASSUME TypeOK, NEW w \in Workers, Done(w)
  PROVE  worker' \in [Workers -> WorkerState] /\ Assigned'
<1>1. worker' \in [Workers -> WorkerState] BY IdleTyped DEF TypeOK, Done
<1>2. Assigned' BY DEF TypeOK, Done, Assigned, Idle
<1> QED BY <1>1, <1>2

LEMMA GotoTyped ==
  ASSUME TypeOK, NEW w \in Workers, NEW pc \in PC, Goto(w, pc), worker[w].pc # "idle"
  PROVE  worker' \in [Workers -> WorkerState] /\ Assigned'
<1>1. worker' \in [Workers -> WorkerState] BY DEF TypeOK, Goto, WorkerState
<1>2. worker[w] \in WorkerState BY DEF TypeOK
<1>3. [worker[w] EXCEPT !.pc = pc].attempt = worker[w].attempt BY <1>2 DEF WorkerState
<1>4. Assigned' BY <1>3 DEF TypeOK, Goto, Assigned
<1> QED BY <1>1, <1>4

LEMMA HandlingTypes ==
  ASSUME TypeOK, NEW w \in Workers, Handling(w)
  PROVE  TypeOK'
<1> USE ConstantsAssumption, Statuses DEF TypeOK, rest
<1>1. CASE CheckGates(w)
  <2>1. worker' \in [Workers -> WorkerState] /\ Assigned'
    <3>1. PICK pc \in {"cleared", "blocked"} : Goto(w, pc) BY <1>1 DEF CheckGates
    <3>2. pc \in PC BY DEF PC
    <3> QED BY <1>1, <3>1, <3>2, GotoTyped DEF CheckGates, At
  <2> QED BY <1>1, <2>1 DEF CheckGates
<1>2. CASE BlockClaimed(w)
  <2>1. job' \in [Jobs -> JobRow] BY <1>2, JobRowUpdates DEF BlockClaimed
  <2>2. attempt' \in [Attempts -> AttemptRow] BY <1>2, AttemptRowUpdates DEF BlockClaimed
  <2> QED BY <1>2, <2>1, <2>2, DoneTyped DEF BlockClaimed
<1>3. CASE Defer(w)
  <2>1. job' \in [Jobs -> JobRow] BY <1>3, JobRowUpdates DEF Defer, DeferredRow
  <2>2. attempt' \in [Attempts -> AttemptRow] BY <1>3, AttemptRowUpdates DEF Defer
  <2> QED BY <1>3, <2>1, <2>2, DoneTyped DEF Defer
<1>4. CASE Invoke(w)
  <2>1. attempt' \in [Attempts -> AttemptRow] BY <1>4, AttemptRowUpdates DEF Invoke, InvokedRow
  <2>2. worker' \in [Workers -> WorkerState] /\ Assigned'
    BY <1>4, GotoTyped DEF Invoke, At, PC
  <2> QED BY <1>4, <2>1, <2>2 DEF Invoke
<1>5. ASSUME NEW accepted \in BOOLEAN, CallProvider(w, accepted)
      PROVE  TypeOK'
  <2>1. worker' \in [Workers -> WorkerState] /\ Assigned'
    BY <1>5, GotoTyped DEF CallProvider, At, PC
  <2>2. calls' \subseteq Attempts /\ mailed' \subseteq calls' BY <1>5 DEF CallProvider, At, Assigned
  <2> QED BY <1>5, <2>1, <2>2 DEF CallProvider
<1>6. ASSUME NEW outcome \in Outcomes, Answer(w, outcome)
      PROVE  TypeOK'
  <2>1. [worker[w] EXCEPT !.pc = "answered", !.outcome = outcome] \in WorkerState
    <3>1. worker[w] \in WorkerState OBVIOUS
    <3> HIDE DEF TypeOK
    <3> QED BY <3>1 DEF WorkerState, PC
  <2>2. worker' \in [Workers -> WorkerState] BY <1>6, <2>1 DEF Answer
  <2>3. [worker[w] EXCEPT !.pc = "answered", !.outcome = outcome].attempt = worker[w].attempt
    BY DEF WorkerState
  <2>4. Assigned' BY <1>6, <2>3 DEF Answer, At, Assigned
  <2> QED BY <1>6, <2>2, <2>4 DEF Answer
<1>7. CASE RecordAccepted(w)
  <2>1. job' \in [Jobs -> JobRow] BY <1>7, JobRowUpdates DEF RecordAccepted
  <2>2. attempt' \in [Attempts -> AttemptRow] BY <1>7, AttemptRowUpdates DEF RecordAccepted
  <2> QED BY <1>7, <2>1, <2>2, DoneTyped DEF RecordAccepted
<1>8. CASE RecordFinal(w)
  <2>1. job' \in [Jobs -> JobRow] BY <1>8, JobRowUpdates DEF RecordFinal
  <2>2. attempt' \in [Attempts -> AttemptRow] BY <1>8, AttemptRowUpdates DEF RecordFinal
  <2> QED BY <1>8, <2>1, <2>2, DoneTyped DEF RecordFinal
<1>9. CASE RecordRetry(w)
  <2>1. job' \in [Jobs -> JobRow]
    <3>1. worker[w].retryCount \in Nat BY DEF WorkerState
    <3>2. worker[w].retryCount \in DOMAIN RetryDelay => RetryDelay[worker[w].retryCount] \in Nat
      OBVIOUS
    <3>3. worker[w].retryCount + 1 \in Nat BY <3>1
    <3>4. CASE worker[w].retryCount \in DOMAIN RetryDelay
      BY <1>9, <3>2, <3>3, <3>4, JobRowUpdates DEF RecordRetry, NextRetryCount
    <3>5. CASE worker[w].retryCount \notin DOMAIN RetryDelay
      BY <1>9, <3>3, <3>5, JobRowUpdates DEF RecordRetry, NextRetryCount
    <3> QED BY <3>4, <3>5
  <2>2. attempt' \in [Attempts -> AttemptRow] BY <1>9, AttemptRowUpdates DEF RecordRetry
  <2> QED BY <1>9, <2>1, <2>2, DoneTyped DEF RecordRetry
<1> QED BY <1>1, <1>2, <1>3, <1>4, <1>5, <1>6, <1>7, <1>8, <1>9 DEF Handling

LEMMA FailTypes ==
  ASSUME TypeOK, NEW w \in Workers, Fail(w)
  PROVE  TypeOK'
<1> USE DEF TypeOK
<1>1. poll' \in [Pollers -> PollState]
  BY ConstantsAssumption DEF Fail, NoPoll, PollState, PollPhase
<1> QED BY <1>1, DoneTyped DEF Fail

LEMMA EnvironmentTypes ==
  ASSUME TypeOK, Environment
  PROVE  TypeOK'
<1> USE ConstantsAssumption, Statuses DEF TypeOK, Assigned
<1>1. ASSUME NEW j \in Jobs, BeginCancel(j) PROVE TypeOK'
  BY <1>1 DEF BeginCancel
<1>2. ASSUME NEW j \in Jobs, FinishCancel(j) PROVE TypeOK'
  <2>1. [job[j] EXCEPT !.status = "canceled"] \in JobRow BY JobRowUpdates
  <2>2. job' \in [Jobs -> JobRow] /\ canceled' \subseteq Jobs
    BY <1>2, <2>1 DEF FinishCancel, Cancelable
  <2> QED BY <1>2, <2>2 DEF FinishCancel
<1>3. ASSUME NEW to \in LocationStatus, CloseLocation(to) PROVE TypeOK'
  <2>1. \A j \in Jobs : [job[j] EXCEPT !.status = "failed"] \in JobRow
    <3>1. \A j \in Jobs : job[j] \in JobRow OBVIOUS
    <3> QED BY <3>1, JobRowUpdates
  <2>2. job' \in [Jobs -> JobRow] BY <1>3, <2>1 DEF CloseLocation
  <2> QED BY <1>3, <2>2 DEF CloseLocation
<1>4. ASSUME NEW to \in LocationStatus, ReopenLocation(to) PROVE TypeOK'
  BY <1>4 DEF ReopenLocation
<1> QED BY <1>1, <1>2, <1>3, <1>4 DEF Environment

LEMMA TickTypes ==
  ASSUME TypeOK, Tick
  PROVE  TypeOK'
<1> USE ConstantsAssumption DEF TypeOK
<1>1. \A n \in Nat : Left(n) \in Nat /\ Aged(n) \in Nat BY DEF Left, Aged
<1>2. ASSUME NEW r \in JobRow PROVE JobLater(r) \in JobRow BY <1>1 DEF JobLater, JobRow
<1>3. job' \in [Jobs -> JobRow] BY <1>2 DEF Tick
<1>4. worker' \in [Workers -> WorkerState]
  <2>1. ASSUME NEW w \in Workers PROVE [worker[w] EXCEPT !.age = Aged(@)] \in WorkerState
    <3>1. worker[w] \in WorkerState OBVIOUS
    <3> QED BY <1>1, <3>1 DEF WorkerState
  <2> QED BY <2>1 DEF Tick
<1>5. request' \in [Jobs -> Nat] BY <1>1 DEF Tick
<1>6. Assigned'
  <2>1. ASSUME NEW w \in Workers
        PROVE  worker'[w].pc = worker[w].pc /\ worker'[w].attempt = worker[w].attempt
    BY DEF Tick, WorkerState
  <2> QED BY <2>1 DEF Assigned
<1> QED BY <1>3, <1>4, <1>5, <1>6 DEF Tick

-----------------------------------------------------------------------------
(***************************************************************************)
(* Inductive invariant: one lemma per kind of step.                        *)
(***************************************************************************)
\* A worker ends its job: it rewrites the job's row and completes the attempt.
LEMMA EndingKeeps ==
  ASSUME IInv, TypeOK', NEW w \in Workers, Live(w), NEW r, NEW b,
         job' = [job EXCEPT ![worker[w].job] = r],
         attempt' = [attempt EXCEPT ![worker[w].attempt] = b],
         Done(w), UNCHANGED <<poll, canceled, calls, mailed>>,
         r.status \in {"queued", "sent", "failed", "delivery_unknown"},
         RowOK(worker[w].job, r),
         r.window = job[worker[w].job].window,
         r.status = "queued" /\ r.retryCount = 0 =>
           job[worker[w].job].retryCount = 0 /\ worker[w].attempt \notin calls,
         worker[w].attempt \in mailed => r.status \in {"sent", "delivery_unknown"},
         b.status # "unused", b.completed,
         b.job = attempt[worker[w].attempt].job, b.invoked = attempt[worker[w].attempt].invoked
  PROVE  IInv'
<1> DEFINE j == worker[w].job
           a == worker[w].attempt
<1>1. /\ j \in Jobs /\ a \in Attempts
      /\ job[j].status = "processing" /\ job[j].claim = a
      /\ attempt[a].job = j
      /\ worker[w].pc # "idle"
  BY DEF IInv, WorkerInv, HoldsClaim, ClaimInv, Live
<1>2. /\ job'[j] = r /\ \A i \in Jobs \ {j} : job'[i] = job[i]
      /\ attempt'[a] = b /\ \A i \in Attempts \ {a} : attempt'[i] = attempt[i]
      /\ worker'[w].pc = "idle" /\ \A v \in Workers \ {w} : worker'[v] = worker[v]
  BY <1>1 DEF IInv, TypeOK, Done, Idle
<1>3. \A v \in Workers : Live(v) /\ v # w => worker[v].job # j /\ worker[v].attempt # a
  BY <1>1 DEF IInv, OneWorkerPerJob, Handles, WorkerInv, HoldsClaim, ClaimInv, Live
<1> HIDE DEF j, a
<1>15. \A i \in Attempts : attempt'[i].job = attempt[i].job /\ attempt'[i].invoked = attempt[i].invoked
  BY <1>1, <1>2 DEF a
<1>16. mailed \subseteq calls /\ \A i \in calls : i \in Attempts /\ attempt[i].job \in Jobs
  BY DEF IInv, TypeOK, FreshInv
<1>4. RowConstraints'
  BY <1>1, <1>2 DEF IInv, RowConstraints, RowOK, j
<1>5. FreshInv'
  BY <1>1, <1>2 DEF IInv, FreshInv, Unused, a
<1>6. WorkerInv'
  BY <1>1, <1>2, <1>3 DEF IInv, WorkerInv, Live, HoldsClaim, KnowsBoundary, KnowsOutcome
<1>7. OneWorkerPerJob'
  BY <1>1, <1>2 DEF IInv, OneWorkerPerJob, Handles
<1>8. ClaimInv'
  BY <1>1, <1>2 DEF IInv, ClaimInv
<1>9. RecoveryInv'
  <2>1. ASSUME NEW s, Abandoned(s) PROVE Abandoned(s)' /\ (~ClaimedBy(s) => ~ClaimedBy(s)')
    BY <1>1, <1>2, <1>15, <2>1 DEF Abandoned, ClaimedBy, Live
  <2>2. ASSUME NEW s, Abandoned(s) PROVE ClaimedBy(s) => ClaimedBy(s)'
    BY <1>1, <1>2, <2>2 DEF Abandoned, ClaimedBy, Live, a
  <2>3. \A s : Abandoned(s) /\ job[s.job].status = "delivery_unknown" => job'[s.job].status = "delivery_unknown"
    BY <1>1, <1>2
  <2>4. ASSUME NEW p \in Pollers, NEW s \in poll'[p].stale PROVE Abandoned(s)'
    <3>1. s \in poll[p].stale
      OBVIOUS
    <3> QED BY <2>1, <3>1 DEF IInv, RecoveryInv
  <2>5. ASSUME NEW p \in Pollers, poll[p].phase \in Acting
        PROVE  LET s == poll[p].current IN
               /\ s \in Snapshot /\ Abandoned(s)' /\ attempt'[s.attempt].invoked = attempt[s.attempt].invoked
               /\ ClaimedBy(s)' <=> ClaimedBy(s)
    <3>1. poll[p].current \in Snapshot /\ Abandoned(poll[p].current)
      BY <2>5 DEF IInv, RecoveryInv
    <3>2. poll[p].current.attempt \in Attempts
      BY <3>1 DEF Abandoned
    <3> QED BY <2>1, <2>2, <3>1, <3>2, <1>15
  <2> QED BY <2>3, <2>4, <2>5 DEF IInv, RecoveryInv, Acting
<1>10. BoundaryInv'
  BY <1>1, <1>2 DEF IInv, BoundaryInv, ClaimOf
<1>11. CallInv'
  <2>1. CallInv BY DEF IInv
  <2> SUFFICES ASSUME NEW i \in calls
               PROVE  /\ attempt'[i].invoked
                      /\ job'[attempt'[i].job].status \notin {"waiting", "canceled"}
                      /\ job'[attempt'[i].job].status \in {"queued", "processing"} /\ ~ClaimOf(i)' =>
                           job'[attempt'[i].job].retryCount # 0
    BY DEF CallInv
  <2>2. CASE attempt[i].job = j
    BY <1>1, <1>2, <1>15, <1>16, <2>1, <2>2 DEF CallInv, ClaimOf, j, a
  <2>3. CASE attempt[i].job # j
    BY <1>1, <1>2, <1>15, <1>16, <2>1, <2>3 DEF CallInv, ClaimOf
  <2> QED BY <2>2, <2>3
<1>12. MailInv'
  <2>1. MailInv BY DEF IInv
  <2>2. ASSUME NEW i \in mailed
        PROVE  ClaimOf(i)' \/ job'[attempt'[i].job].status \in {"sent", "delivery_unknown"}
    <3>1. CASE attempt[i].job = j
      BY <1>1, <1>2, <1>15, <1>16, <2>1, <3>1 DEF MailInv, ClaimOf, j, a
    <3>2. CASE attempt[i].job # j
      BY <1>1, <1>2, <1>15, <1>16, <2>1, <3>2 DEF MailInv, ClaimOf
    <3> QED BY <3>1, <3>2
  <2> QED BY <1>15, <1>16, <2>1, <2>2 DEF MailInv
<1>13. WindowInv'
  BY <1>1, <1>2 DEF IInv, WindowInv
<1>14. CancelInv'
  BY <1>1, <1>2 DEF IInv, CancelInv
<1> QED BY <1>4, <1>5, <1>6, <1>7, <1>8, <1>9, <1>10, <1>11, <1>12, <1>13, <1>14 DEF IInv

\* What IInv says of a live worker and the two rows it holds.
LEMMA LiveFacts ==
  ASSUME IInv, NEW w \in Workers, Live(w)
  PROVE  /\ worker[w].job \in Jobs /\ job[worker[w].job] \in JobRow
         /\ worker[w].attempt \in Attempts /\ attempt[worker[w].attempt] \in AttemptRow
         /\ job[worker[w].job].status = "processing"
         /\ job[worker[w].job].claim = worker[w].attempt
         /\ job[worker[w].job].retryCount = worker[w].retryCount
         /\ worker[w].retryCount \in Nat
         /\ attempt[worker[w].attempt].job = worker[w].job
         /\ ~attempt[worker[w].attempt].completed
         /\ attempt[worker[w].attempt].status # "unused"
         /\ KnowsBoundary(w) /\ KnowsOutcome(w)
         /\ mailed \subseteq calls
<1>1. HoldsClaim(w) /\ KnowsBoundary(w) /\ KnowsOutcome(w) BY DEF IInv, WorkerInv
<1>2. TypeOK /\ ClaimInv /\ FreshInv BY DEF IInv
<1>3. worker[w].job \in Jobs /\ worker[w].attempt \in Attempts BY <1>1 DEF HoldsClaim
<1>4. job[worker[w].job] \in JobRow /\ attempt[worker[w].attempt] \in AttemptRow
  BY <1>2, <1>3 DEF TypeOK
<1>5. mailed \subseteq calls /\ worker[w].retryCount \in Nat BY <1>2 DEF TypeOK, WorkerState
<1>6. attempt[worker[w].attempt].job = worker[w].job /\ ~attempt[worker[w].attempt].completed
  BY <1>1, <1>2 DEF HoldsClaim, ClaimInv
<1>7. None \notin Jobs BY ConstantsAssumption
<1>8. attempt[worker[w].attempt].status # "unused"
  BY <1>2, <1>3, <1>6, <1>7 DEF FreshInv, Unused
<1> QED BY <1>1, <1>3, <1>4, <1>5, <1>6, <1>8 DEF HoldsClaim

LEMMA BlockKeeps ==
  ASSUME IInv, TypeOK', NEW w \in Workers, BlockClaimed(w)
  PROVE  IInv'
<1> DEFINE r == [job[worker[w].job] EXCEPT !.status = "failed", !.scheduledAt = None]
           b == [attempt[worker[w].attempt] EXCEPT !.status = "blocked", !.completed = TRUE]
<1>1. Live(w) BY DEF BlockClaimed, At, Live
<1>2. worker[w].attempt \notin calls /\ worker[w].attempt \notin mailed
  BY <1>1, LiveFacts DEF KnowsBoundary, AfterCall, BlockClaimed, At
<1>3. r.status = "failed" /\ r.window = job[worker[w].job].window
      /\ r.retryCount = job[worker[w].job].retryCount
  BY <1>1, LiveFacts DEF JobRow
<1>4. /\ b.status = "blocked" /\ b.completed
      /\ b.job = attempt[worker[w].attempt].job /\ b.invoked = attempt[worker[w].attempt].invoked
  BY <1>1, LiveFacts DEF AttemptRow
<1>5. RowOK(worker[w].job, r) BY <1>3 DEF RowOK
<1>6. /\ job' = [job EXCEPT ![worker[w].job] = r]
      /\ attempt' = [attempt EXCEPT ![worker[w].attempt] = b]
      /\ Done(w) /\ UNCHANGED <<poll, canceled, calls, mailed>>
  BY DEF BlockClaimed, rest
<1> HIDE DEF r, b
<1> QED BY <1>1, <1>2, <1>3, <1>4, <1>5, <1>6, EndingKeeps

LEMMA DeferKeeps ==
  ASSUME IInv, TypeOK', NEW w \in Workers, Defer(w)
  PROVE  IInv'
<1> DEFINE r == DeferredRow(job[worker[w].job])
           b == [attempt[worker[w].attempt] EXCEPT !.status = "deferred", !.completed = TRUE]
<1>1. Live(w) BY DEF Defer, At, Live
<1>2. worker[w].attempt \notin calls /\ worker[w].attempt \notin mailed
  BY <1>1, LiveFacts DEF KnowsBoundary, AfterCall, Defer, At
<1>3. /\ r.status = "queued" /\ r.window = job[worker[w].job].window
      /\ r.retryCount = job[worker[w].job].retryCount /\ r.scheduledAt = DeferDelay
  BY <1>1, LiveFacts DEF DeferredRow, JobRow
<1>4. /\ b.status = "deferred" /\ b.completed
      /\ b.job = attempt[worker[w].attempt].job /\ b.invoked = attempt[worker[w].attempt].invoked
  BY <1>1, LiveFacts DEF AttemptRow
<1>5. RowOK(worker[w].job, r) BY <1>3, ConstantsAssumption DEF RowOK
<1>6. /\ job' = [job EXCEPT ![worker[w].job] = r]
      /\ attempt' = [attempt EXCEPT ![worker[w].attempt] = b]
      /\ Done(w) /\ UNCHANGED <<poll, canceled, calls, mailed>>
  BY DEF Defer, rest
<1> HIDE DEF r, b
<1> QED BY <1>1, <1>2, <1>3, <1>4, <1>5, <1>6, EndingKeeps

LEMMA AcceptedKeeps ==
  ASSUME IInv, TypeOK', NEW w \in Workers, RecordAccepted(w)
  PROVE  IInv'
<1> DEFINE r == [job[worker[w].job] EXCEPT !.status = "sent", !.scheduledAt = None]
           b == [attempt[worker[w].attempt] EXCEPT !.status = "succeeded", !.completed = TRUE]
<1>1. Live(w) BY DEF RecordAccepted, At, Live
<1>2. worker[w].attempt \in mailed
  BY <1>1, LiveFacts DEF KnowsOutcome, RecordAccepted, At
<1>3. /\ r.status = "sent" /\ r.window = job[worker[w].job].window
  BY <1>1, LiveFacts DEF JobRow
<1>4. /\ b.status = "succeeded" /\ b.completed
      /\ b.job = attempt[worker[w].attempt].job /\ b.invoked = attempt[worker[w].attempt].invoked
  BY <1>1, LiveFacts DEF AttemptRow
<1>5. RowOK(worker[w].job, r) BY <1>3 DEF RowOK
<1>6. /\ job' = [job EXCEPT ![worker[w].job] = r]
      /\ attempt' = [attempt EXCEPT ![worker[w].attempt] = b]
      /\ Done(w) /\ UNCHANGED <<poll, canceled, calls, mailed>>
  BY DEF RecordAccepted, rest
<1> HIDE DEF r, b
<1> QED BY <1>1, <1>2, <1>3, <1>4, <1>5, <1>6, EndingKeeps

LEMMA FinalKeeps ==
  ASSUME IInv, TypeOK', NEW w \in Workers, RecordFinal(w)
  PROVE  IInv'
<1> DEFINE status == IF worker[w].outcome = "unknown" THEN "delivery_unknown" ELSE "failed"
           r == [job[worker[w].job] EXCEPT !.status = status, !.scheduledAt = None]
           b == [attempt[worker[w].attempt] EXCEPT
                   !.status = status, !.completed = TRUE, !.closed = TRUE]
<1>1. Live(w) BY DEF RecordFinal, At, Live
<1>2. worker[w].attempt \in mailed => status = "delivery_unknown"
  BY <1>1, LiveFacts DEF KnowsOutcome, RecordFinal, At
<1>3. status \in {"failed", "delivery_unknown"} OBVIOUS
<1> HIDE DEF status
<1>4. r.status = status /\ r.window = job[worker[w].job].window
  BY <1>1, LiveFacts DEF JobRow
<1>5. /\ b.status = status /\ b.completed
      /\ b.job = attempt[worker[w].attempt].job /\ b.invoked = attempt[worker[w].attempt].invoked
  BY <1>1, LiveFacts DEF AttemptRow
<1>6. RowOK(worker[w].job, r) BY <1>3, <1>4 DEF RowOK
<1>7. /\ job' = [job EXCEPT ![worker[w].job] = r]
      /\ attempt' = [attempt EXCEPT ![worker[w].attempt] = b]
      /\ Done(w) /\ UNCHANGED <<poll, canceled, calls, mailed>>
  BY DEF RecordFinal, rest, status
<1> HIDE DEF r, b
<1> QED BY <1>1, <1>2, <1>3, <1>4, <1>5, <1>6, <1>7, EndingKeeps

LEMMA RetryKeeps ==
  ASSUME IInv, TypeOK', NEW w \in Workers, RecordRetry(w)
  PROVE  IInv'
<1> DEFINE n == worker[w].retryCount
           again == n \in DOMAIN RetryDelay
           r == [job[worker[w].job] EXCEPT
                   !.status = IF again THEN "queued" ELSE "failed",
                   !.retryCount = NextRetryCount(n),
                   !.scheduledAt = IF again THEN RetryDelay[n] ELSE None]
           b == [attempt[worker[w].attempt] EXCEPT
                   !.status = IF again THEN "retry_scheduled" ELSE "failed", !.completed = TRUE]
<1>1. Live(w) BY DEF RecordRetry, At, Live
<1>2. worker[w].attempt \notin mailed
  BY <1>1, LiveFacts DEF KnowsOutcome, RecordRetry, Transient, At
<1>3. /\ r.status = (IF again THEN "queued" ELSE "failed")
      /\ r.window = job[worker[w].job].window
      /\ r.retryCount = n + 1
      /\ r.scheduledAt = (IF again THEN RetryDelay[n] ELSE None)
  BY <1>1, LiveFacts DEF JobRow, NextRetryCount
<1>4. /\ b.status \in {"retry_scheduled", "failed"} /\ b.completed
      /\ b.job = attempt[worker[w].attempt].job /\ b.invoked = attempt[worker[w].attempt].invoked
  BY <1>1, LiveFacts DEF AttemptRow
<1>5. n \in Nat BY <1>1, LiveFacts
<1>6. again => RetryDelay[n] # None BY ConstantsAssumption
<1>7. RowOK(worker[w].job, r) BY <1>3, <1>6 DEF RowOK
<1>8. /\ job' = [job EXCEPT ![worker[w].job] = r]
      /\ attempt' = [attempt EXCEPT ![worker[w].attempt] = b]
      /\ Done(w) /\ UNCHANGED <<poll, canceled, calls, mailed>>
  BY DEF RecordRetry, rest
<1>9. r.retryCount # 0 BY <1>3, <1>5
<1>10. r.status \in {"queued", "failed"} BY <1>3
<1> HIDE DEF r, b, n, again
<1> QED BY <1>1, <1>2, <1>3, <1>4, <1>7, <1>8, <1>9, <1>10, EndingKeeps

\* A worker takes its next step: it keeps its job, its attempt and its age.
LEMMA WorkingKeeps ==
  ASSUME IInv, TypeOK', NEW w \in Workers, Live(w), NEW r,
         worker' = [worker EXCEPT ![w] = r],
         r.pc # "idle", r.job = worker[w].job, r.attempt = worker[w].attempt,
         r.retryCount = worker[w].retryCount, r.age = worker[w].age,
         KnowsBoundary(w)', KnowsOutcome(w)',
         UNCHANGED <<job, poll, canceled>>,
         calls \subseteq calls', calls' \subseteq calls \cup {worker[w].attempt},
         mailed \subseteq mailed', mailed' \subseteq mailed \cup {worker[w].attempt},
         NEW b, attempt' = [attempt EXCEPT ![worker[w].attempt] = b],
         b.job = attempt[worker[w].attempt].job, b.completed = attempt[worker[w].attempt].completed,
         b.status # "unused", attempt[worker[w].attempt].invoked => b.invoked,
         worker[w].attempt \in calls' => b.invoked
  PROVE  IInv'
<1> DEFINE j == worker[w].job
           a == worker[w].attempt
<1>1. /\ j \in Jobs /\ a \in Attempts
      /\ job[j].status = "processing" /\ job[j].claim = a
      /\ attempt[a].job = j /\ ~attempt[a].completed /\ worker[w].pc # "idle"
  BY LiveFacts DEF Live
<1>2. /\ attempt'[a] = b /\ \A i \in Attempts \ {a} : attempt'[i] = attempt[i]
      /\ worker'[w] = r /\ \A v \in Workers \ {w} : worker'[v] = worker[v]
  BY <1>1 DEF IInv, TypeOK
<1>3. \A v \in Workers : Live(v) /\ v # w => worker[v].job # j /\ worker[v].attempt # a
  BY <1>1 DEF IInv, OneWorkerPerJob, Handles, WorkerInv, HoldsClaim, ClaimInv, Live
<1>4. \A i \in Attempts : /\ attempt'[i].job = attempt[i].job
                          /\ attempt'[i].completed = attempt[i].completed
                          /\ attempt[i].invoked => attempt'[i].invoked
  BY <1>1, <1>2 DEF a
<1>5. mailed \subseteq calls /\ calls' \subseteq Attempts
      /\ \A i \in calls : i \in Attempts /\ attempt[i].job \in Jobs
  BY DEF IInv, TypeOK, FreshInv
<1> HIDE DEF j, a
<1>6. RowConstraints'
  BY DEF IInv, RowConstraints, RowOK
<1>7. FreshInv'
  BY <1>1, <1>2 DEF IInv, FreshInv, Unused, a
<1>8. WorkerInv'
  <2>1. HoldsClaim(w)' BY <1>2, LiveFacts DEF IInv, WorkerInv, HoldsClaim
  <2>2. ASSUME NEW v \in Workers, v # w, Live(v)
        PROVE  HoldsClaim(v)' /\ KnowsBoundary(v)' /\ KnowsOutcome(v)'
    <3>1. worker[v].attempt # a /\ worker'[v] = worker[v] /\ worker[v].attempt \in Attempts
      BY <1>2, <1>3, <2>2 DEF IInv, WorkerInv, HoldsClaim
    <3>2. HoldsClaim(v) /\ KnowsBoundary(v) /\ KnowsOutcome(v) BY <2>2 DEF IInv, WorkerInv
    <3>3. /\ attempt'[worker[v].attempt] = attempt[worker[v].attempt]
          /\ worker[v].attempt \in calls' <=> worker[v].attempt \in calls
          /\ worker[v].attempt \in mailed' <=> worker[v].attempt \in mailed
      BY <1>2, <3>1 DEF a
    <3> QED BY <3>1, <3>2, <3>3 DEF HoldsClaim, KnowsBoundary, KnowsOutcome
  <2> QED BY <1>2, <2>1, <2>2 DEF WorkerInv, Live
<1>9. OneWorkerPerJob'
  BY <1>1, <1>2 DEF IInv, OneWorkerPerJob, Handles, j
<1>10. ClaimInv'
  BY <1>4 DEF IInv, ClaimInv
<1>11. RecoveryInv'
  <2>1. ASSUME NEW s, Abandoned(s)
        PROVE  Abandoned(s)' /\ s.attempt # a /\ attempt'[s.attempt] = attempt[s.attempt]
    BY <1>1, <1>2, <1>4, <2>1 DEF Abandoned, ClaimedBy, Live, a
  <2> QED BY <2>1 DEF IInv, RecoveryInv, Acting, ClaimedBy
<1>12. BoundaryInv'
  BY <1>1, <1>2 DEF IInv, BoundaryInv, ClaimOf
<1>13. CallInv'
  BY <1>1, <1>2, <1>4, <1>5 DEF IInv, CallInv, ClaimOf, a
<1>14. MailInv'
  <2>1. MailInv BY DEF IInv
  <2>2. ASSUME NEW i \in mailed, attempt[i].job = j PROVE i = a
    BY <1>1, <2>1, <2>2 DEF MailInv, ClaimOf
  <2>3. \A i \in mailed' : i \in Attempts /\ (i \in mailed \/ i = a) BY <1>1, <1>5 DEF a
  <2> QED BY <1>1, <1>4, <1>5, <2>1, <2>2, <2>3 DEF MailInv, ClaimOf
<1>15. WindowInv' /\ CancelInv'
  BY DEF IInv, WindowInv, CancelInv
<1> QED BY <1>6, <1>7, <1>8, <1>9, <1>10, <1>11, <1>12, <1>13, <1>14, <1>15 DEF IInv

LEMMA GatesKeep ==
  ASSUME IInv, TypeOK', NEW w \in Workers, CheckGates(w)
  PROVE  IInv'
<1>3. PICK pc \in {"cleared", "blocked"} : Goto(w, pc) BY DEF CheckGates
<1> DEFINE r == [worker[w] EXCEPT !.pc = pc]
           b == attempt[worker[w].attempt]
<1>1. Live(w) BY DEF CheckGates, At, Live
<1>2. worker[w] \in WorkerState BY DEF IInv, TypeOK
<1>4. /\ r.pc = pc /\ r.job = worker[w].job /\ r.attempt = worker[w].attempt
      /\ r.retryCount = worker[w].retryCount /\ r.age = worker[w].age
  BY <1>2 DEF WorkerState
<1>5. /\ worker' = [worker EXCEPT ![w] = r]
      /\ UNCHANGED <<job, attempt, poll, canceled, calls, mailed>>
  BY <1>3 DEF CheckGates, Goto, rest
<1>6. worker'[w] = r BY <1>5 DEF IInv, TypeOK
<1>7. KnowsBoundary(w)' /\ KnowsOutcome(w)'
  BY <1>1, <1>3, <1>4, <1>5, <1>6, LiveFacts
     DEF KnowsBoundary, KnowsOutcome, BeforeBoundary, AfterCall, CheckGates, At
<1>8. attempt' = [attempt EXCEPT ![worker[w].attempt] = b] BY <1>1, <1>5, LiveFacts DEF IInv, TypeOK
<1>9. worker[w].attempt \in calls' => b.invoked
  BY <1>5, <1>1, LiveFacts DEF KnowsBoundary, AfterCall, CheckGates, At
<1> HIDE DEF r, b
<1>10. /\ b.job = attempt[worker[w].attempt].job /\ b.completed = attempt[worker[w].attempt].completed
       /\ b.status # "unused"
       /\ attempt[worker[w].attempt].invoked => b.invoked
  BY <1>1, LiveFacts DEF b
<1> QED BY <1>1, <1>3, <1>4, <1>5, <1>7, <1>8, <1>9, <1>10, WorkingKeeps

LEMMA InvokeKeeps ==
  ASSUME IInv, TypeOK', NEW w \in Workers, Invoke(w)
  PROVE  IInv'
<1> DEFINE r == [worker[w] EXCEPT !.pc = "invoked"]
           b == InvokedRow(attempt[worker[w].attempt])
<1>1. Live(w) BY DEF Invoke, At, Live
<1>2. worker[w] \in WorkerState BY DEF IInv, TypeOK
<1>3. /\ r.pc = "invoked" /\ r.job = worker[w].job /\ r.attempt = worker[w].attempt
      /\ r.retryCount = worker[w].retryCount /\ r.age = worker[w].age
  BY <1>2 DEF WorkerState
<1>4. /\ b.job = attempt[worker[w].attempt].job /\ b.completed = attempt[worker[w].attempt].completed
      /\ b.status = "invoked" /\ b.invoked
  BY <1>1, LiveFacts DEF InvokedRow, AttemptRow
<1>5. /\ worker' = [worker EXCEPT ![w] = r]
      /\ attempt' = [attempt EXCEPT ![worker[w].attempt] = b]
      /\ UNCHANGED <<job, poll, canceled, calls, mailed>>
  BY DEF Invoke, Goto, rest
<1>6. worker'[w] = r /\ attempt'[worker[w].attempt] = b
  BY <1>1, <1>5, LiveFacts DEF IInv, TypeOK
<1> HIDE DEF r, b
<1>7. KnowsBoundary(w)' /\ KnowsOutcome(w)'
  BY <1>1, <1>3, <1>4, <1>5, <1>6, LiveFacts
     DEF KnowsBoundary, KnowsOutcome, BeforeBoundary, AfterCall, Invoke, At
<1> QED BY <1>1, <1>3, <1>4, <1>5, <1>7, WorkingKeeps

LEMMA CallKeeps ==
  ASSUME IInv, TypeOK', NEW w \in Workers, NEW accepted \in BOOLEAN, CallProvider(w, accepted)
  PROVE  IInv'
<1> DEFINE r == [worker[w] EXCEPT !.pc = "calling"]
           b == attempt[worker[w].attempt]
<1>1. Live(w) BY DEF CallProvider, At, Live
<1>2. worker[w] \in WorkerState BY DEF IInv, TypeOK
<1>3. /\ r.pc = "calling" /\ r.job = worker[w].job /\ r.attempt = worker[w].attempt
      /\ r.retryCount = worker[w].retryCount /\ r.age = worker[w].age
  BY <1>2 DEF WorkerState
<1>4. b.invoked /\ b.status # "unused"
  BY <1>1, LiveFacts DEF KnowsBoundary, BeforeBoundary, CallProvider, At
<1>5. /\ worker' = [worker EXCEPT ![w] = r]
      /\ calls' = calls \cup {worker[w].attempt}
      /\ mailed \subseteq mailed' /\ mailed' \subseteq mailed \cup {worker[w].attempt}
      /\ UNCHANGED <<job, attempt, poll, canceled>>
  BY DEF CallProvider, Goto, rest
<1>6. worker'[w] = r BY <1>5 DEF IInv, TypeOK
<1>7. KnowsBoundary(w)' /\ KnowsOutcome(w)'
  <2>1. worker'[w].pc = "calling" /\ worker'[w].attempt = worker[w].attempt BY <1>3, <1>6
  <2>2. attempt'[worker[w].attempt].invoked /\ worker[w].attempt \in calls' BY <1>4, <1>5
  <2> QED BY <2>1, <2>2 DEF KnowsBoundary, KnowsOutcome, BeforeBoundary, AfterCall
<1>8. attempt' = [attempt EXCEPT ![worker[w].attempt] = b] BY <1>1, <1>5, LiveFacts DEF IInv, TypeOK
<1>9. b.job = attempt[worker[w].attempt].job /\ b.completed = attempt[worker[w].attempt].completed
  OBVIOUS
<1> HIDE DEF r, b
<1> QED BY <1>1, <1>3, <1>4, <1>5, <1>7, <1>8, <1>9, WorkingKeeps

LEMMA AnswerKeeps ==
  ASSUME IInv, TypeOK', NEW w \in Workers, NEW outcome \in Outcomes, Answer(w, outcome)
  PROVE  IInv'
<1> DEFINE r == [worker[w] EXCEPT !.pc = "answered", !.outcome = outcome]
           b == attempt[worker[w].attempt]
<1>1. Live(w) BY DEF Answer, At, Live
<1>2. worker[w] \in WorkerState BY DEF IInv, TypeOK
<1>3. /\ r.pc = "answered" /\ r.job = worker[w].job /\ r.attempt = worker[w].attempt
      /\ r.retryCount = worker[w].retryCount /\ r.age = worker[w].age /\ r.outcome = outcome
  BY <1>2 DEF WorkerState
<1>4. b.invoked /\ b.status # "unused" /\ worker[w].attempt \in calls
  BY <1>1, LiveFacts DEF KnowsBoundary, BeforeBoundary, AfterCall, Answer, At
<1>5. /\ worker' = [worker EXCEPT ![w] = r]
      /\ UNCHANGED <<job, attempt, poll, canceled, calls, mailed>>
  BY DEF Answer, rest
<1>6. worker'[w] = r BY <1>5 DEF IInv, TypeOK
<1>7. /\ worker[w].attempt \in mailed => outcome \in {"accepted", "unknown"}
      /\ worker[w].attempt \notin mailed => outcome # "accepted"
  BY DEF Answer
<1>8. attempt' = [attempt EXCEPT ![worker[w].attempt] = b] BY <1>1, <1>5, LiveFacts DEF IInv, TypeOK
<1>9. b.job = attempt[worker[w].attempt].job /\ b.completed = attempt[worker[w].attempt].completed
  OBVIOUS
<1>10. Outcomes' = Outcomes BY DEF Outcomes, RefusedByOci
<1>11. KnowsBoundary(w)' /\ KnowsOutcome(w)'
  BY <1>1, <1>3, <1>4, <1>5, <1>6, <1>7, <1>10, LiveFacts DEF KnowsBoundary, KnowsOutcome, BeforeBoundary, AfterCall, b
<1> HIDE DEF r, b
<1> QED BY <1>1, <1>3, <1>4, <1>5, <1>8, <1>9, <1>11, WorkingKeeps

LEMMA ClaimKeeps ==
  ASSUME IInv, TypeOK', NEW w \in Workers, NEW j \in Jobs, NEW a \in FreshAttempts, Claim(w, j, a)
  PROVE  IInv'
<1> DEFINE r == ClaimedRow(job[j], a)
           b == [attempt[a] EXCEPT !.job = j, !.status = "claimed"]
<1>1. a \in Attempts /\ Unused(a) BY DEF FreshAttempts, Unused
<1>2. /\ attempt[a].job = None /\ ~attempt[a].invoked /\ ~attempt[a].completed /\ a \notin calls
      /\ a \notin mailed
  BY <1>1 DEF IInv, FreshInv, TypeOK
<1>3. /\ job[j].status \in {"waiting", "queued"}
      /\ job[j].status = "waiting" => job[j].window = 0
  BY DEF Claim, Claimable, WindowOver, RetryDue, LegacyDue
<1>4. worker[w].pc = "idle" BY DEF Claim, Chooses
<1>5. job[j] \in JobRow /\ attempt[a] \in AttemptRow BY <1>1 DEF IInv, TypeOK
<1>6. /\ r.status = "processing" /\ r.claim = a /\ r.claimAge = 0
      /\ r.window = job[j].window /\ r.retryCount = job[j].retryCount
  BY <1>5 DEF ClaimedRow, JobRow
<1>7. b.job = j /\ b.status = "claimed" /\ ~b.invoked /\ ~b.completed
  BY <1>2, <1>5 DEF AttemptRow
<1>8. /\ job'[j] = r /\ \A i \in Jobs \ {j} : job'[i] = job[i]
      /\ attempt'[a] = b /\ \A i \in Attempts \ {a} : attempt'[i] = attempt[i]
      /\ \A v \in Workers \ {w} : worker'[v] = worker[v]
      /\ calls' = calls /\ mailed' = mailed /\ canceled' = canceled
  BY <1>1 DEF IInv, TypeOK, Claim, rest
<1>9. /\ worker'[w].pc = "claimed" /\ worker'[w].job = j /\ worker'[w].attempt = a
      /\ worker'[w].retryCount = job[j].retryCount /\ worker'[w].age = 0
  BY DEF IInv, TypeOK, Claim, Idle
<1>10. \A p \in Pollers : /\ poll'[p].stale = poll[p].stale /\ poll'[p].phase = poll[p].phase
                          /\ poll'[p].current = poll[p].current
  BY DEF IInv, TypeOK, PollState, Claim, Taken
<1> HIDE DEF r, b
<1>11. \A i \in Attempts : attempt[i].job = j => i # a /\ ~ClaimOf(i)
  BY <1>2, <1>3, ConstantsAssumption DEF ClaimOf
<1>12. mailed \subseteq calls /\ \A i \in calls : i \in Attempts /\ attempt[i].job \in Jobs
  BY DEF IInv, TypeOK, FreshInv
<1>13. RowConstraints'
  BY <1>6, <1>8, <1>1, ConstantsAssumption DEF IInv, RowConstraints, RowOK
<1>14. FreshInv'
  BY <1>7, <1>8 DEF IInv, FreshInv, Unused
<1>15. WorkerInv'
  <2>1. ASSUME NEW v \in Workers, v # w, Live(v)
        PROVE  HoldsClaim(v)' /\ KnowsBoundary(v)' /\ KnowsOutcome(v)'
    <3>1. HoldsClaim(v) /\ KnowsBoundary(v) /\ KnowsOutcome(v) BY <2>1 DEF IInv, WorkerInv
    <3>2. worker[v].job # j /\ worker[v].job \in Jobs BY <1>3, <3>1 DEF HoldsClaim
    <3>3. worker[v].attempt # a /\ worker[v].attempt \in Attempts
      BY <1>1, <2>1, LiveFacts DEF Unused
    <3> QED BY <1>8, <2>1, <3>1, <3>2, <3>3 DEF HoldsClaim, KnowsBoundary, KnowsOutcome
  <2>2. HoldsClaim(w)' BY <1>1, <1>6, <1>8, <1>9, ConstantsAssumption DEF HoldsClaim
  <2>3. KnowsBoundary(w)' /\ KnowsOutcome(w)'
    BY <1>2, <1>7, <1>8, <1>9 DEF KnowsBoundary, KnowsOutcome, BeforeBoundary, AfterCall
  <2> QED BY <1>8, <2>1, <2>2, <2>3 DEF WorkerInv, Live
<1>16. OneWorkerPerJob'
  BY <1>3, <1>8, <1>9 DEF IInv, OneWorkerPerJob, Handles, WorkerInv, HoldsClaim, Live
<1>17. ClaimInv'
  BY <1>1, <1>2, <1>6, <1>7, <1>8, ConstantsAssumption DEF IInv, ClaimInv
<1>18. RecoveryInv'
  <2>1. ASSUME NEW s, Abandoned(s)
        PROVE  /\ Abandoned(s)' /\ s.attempt # a /\ attempt'[s.attempt] = attempt[s.attempt]
               /\ ClaimedBy(s) => ClaimedBy(s)'
               /\ ~ClaimedBy(s) => ~ClaimedBy(s)'
               /\ job[s.job].status = "delivery_unknown" => job'[s.job].status = "delivery_unknown"
    <3>1. s.attempt # a /\ s.job \in Jobs /\ s.attempt \in Attempts
      BY <1>2, <2>1, ConstantsAssumption DEF Abandoned
    <3> QED BY <1>3, <1>6, <1>8, <1>9, <2>1, <3>1 DEF Abandoned, ClaimedBy, Live
  <2> QED BY <1>10, <2>1 DEF IInv, RecoveryInv, Acting
<1>19. BoundaryInv'
  <2>1. ASSUME NEW i \in Attempts, attempt[i].invoked PROVE i # a /\ attempt[i].job \in Jobs
    BY <1>2, <2>1 DEF IInv, FreshInv
  <2> QED BY <1>3, <1>7, <1>8, <1>11, <2>1 DEF IInv, BoundaryInv, ClaimOf
<1>20. CallInv'
  <2>1. CallInv BY DEF IInv
  <2>2. ASSUME NEW i \in calls, attempt[i].job = j PROVE job[j].retryCount # 0 /\ i # a
    BY <1>2, <1>3, <1>11, <1>12, <2>1, <2>2 DEF CallInv
  <2>3. ASSUME NEW i \in calls PROVE i # a /\ attempt'[i] = attempt[i] /\ attempt[i].job \in Jobs
    BY <1>2, <1>8, <1>12, <2>3
  <2> QED BY <1>6, <1>8, <2>1, <2>2, <2>3 DEF CallInv, ClaimOf
<1>21. MailInv'
  <2>1. MailInv BY DEF IInv
  <2>2. ASSUME NEW i \in mailed PROVE attempt'[i] = attempt[i] /\ attempt[i].job \in Jobs \ {j}
    BY <1>2, <1>3, <1>8, <1>11, <1>12, <2>1, <2>2 DEF MailInv
  <2> QED BY <1>8, <2>1, <2>2 DEF MailInv, ClaimOf
<1>22. WindowInv'
  BY <1>3, <1>6, <1>8 DEF IInv, WindowInv, TypeOK, JobRow
<1>23. CancelInv'
  BY <1>3, <1>6, <1>8 DEF IInv, CancelInv
<1> QED BY <1>13, <1>14, <1>15, <1>16, <1>17, <1>18, <1>19, <1>20, <1>21, <1>22, <1>23 DEF IInv

\* Only where the polls stand changes.
LEMMA PollingKeeps ==
  ASSUME IInv, TypeOK', RecoveryInv', UNCHANGED <<job, attempt, worker, canceled, calls, mailed>>
  PROVE  IInv'
<1>1. RowConstraints' /\ FreshInv' BY DEF IInv, RowConstraints, RowOK, FreshInv, Unused
<1>2. WorkerInv' /\ OneWorkerPerJob'
  BY DEF IInv, WorkerInv, Live, HoldsClaim, KnowsBoundary, KnowsOutcome, OneWorkerPerJob, Handles
<1>3. ClaimInv' /\ BoundaryInv' /\ CallInv' /\ MailInv' /\ WindowInv' /\ CancelInv'
  BY DEF IInv, ClaimInv, BoundaryInv, CallInv, MailInv, WindowInv, CancelInv, ClaimOf
<1> QED BY <1>1, <1>2, <1>3 DEF IInv

LEMMA SkipKeeps ==
  ASSUME IInv, TypeOK', NEW p \in Pollers, NEW j \in Jobs, NotClaimed(p, j)
  PROVE  IInv'
<1>1. /\ UNCHANGED <<job, attempt, worker, canceled, calls, mailed>>
      /\ \A q \in Pollers : /\ poll'[q].stale = poll[q].stale /\ poll'[q].phase = poll[q].phase
                            /\ poll'[q].current = poll[q].current
  BY DEF IInv, TypeOK, PollState, NotClaimed, Taken, rest
<1>2. RecoveryInv' BY <1>1 DEF IInv, RecoveryInv, Abandoned, ClaimedBy, Live
<1> QED BY <1>1, <1>2, PollingKeeps

LEMMA FailKeeps ==
  ASSUME IInv, TypeOK', NEW w \in Workers, Fail(w)
  PROVE  IInv'
<1>1. /\ UNCHANGED <<job, attempt, canceled, calls, mailed>>
      /\ worker'[w].pc = "idle" /\ \A v \in Workers \ {w} : worker'[v] = worker[v]
  BY DEF IInv, TypeOK, Fail, Done, Idle
<1>2. \A q \in Pollers : poll'[q] = poll[q] \/ (poll'[q].stale = {} /\ poll'[q].phase = "idle")
  BY DEF IInv, TypeOK, Fail, NoPoll
<1>3. RecoveryInv'
  <2>1. ASSUME NEW s PROVE (Abandoned(s) => Abandoned(s)') /\ (ClaimedBy(s)' <=> ClaimedBy(s))
    BY <1>1 DEF Abandoned, ClaimedBy, Live
  <2> QED BY <1>1, <1>2, <2>1 DEF IInv, RecoveryInv, Acting
<1>4. RowConstraints' /\ FreshInv' BY <1>1 DEF IInv, RowConstraints, RowOK, FreshInv, Unused
<1>5. WorkerInv' /\ OneWorkerPerJob'
  BY <1>1 DEF IInv, WorkerInv, Live, HoldsClaim, KnowsBoundary, KnowsOutcome, OneWorkerPerJob, Handles
<1>6. ClaimInv' /\ BoundaryInv' /\ CallInv' /\ MailInv' /\ WindowInv' /\ CancelInv'
  BY <1>1 DEF IInv, ClaimInv, BoundaryInv, CallInv, MailInv, WindowInv, CancelInv, ClaimOf
<1> QED BY <1>3, <1>4, <1>5, <1>6 DEF IInv

\* Time passes: under Prompt no live worker's claim becomes stale.
LEMMA TickKeeps ==
  ASSUME IInv, TypeOK', Prompt, Tick
  PROVE  IInv'
<1>1. \A n \in Nat : Left(n) \in Nat /\ Aged(n) \in Nat /\ (n = 0 => Left(n) = 0)
  BY ConstantsAssumption DEF Left, Aged
<1>2. ASSUME NEW j \in Jobs
      PROVE  /\ job'[j].status = job[j].status /\ job'[j].claim = job[j].claim
             /\ job'[j].retryCount = job[j].retryCount
             /\ job'[j].window > 0 => job[j].window > 0
             /\ job'[j].scheduledAt = None <=> job[j].scheduledAt = None
             /\ job'[j].claimAge = None <=> job[j].claimAge = None
             /\ job[j].status = "processing" /\ job[j].claimAge \in Nat =>
                  job'[j].claimAge = Aged(job[j].claimAge)
  <2>1. job[j] \in JobRow BY DEF IInv, TypeOK
  <2>2. job'[j] = JobLater(job[j]) BY DEF Tick
  <2> QED BY <1>1, <2>1, <2>2, ConstantsAssumption DEF JobLater, JobRow
<1>3. UNCHANGED <<attempt, poll, canceled, calls, mailed>> BY DEF Tick
<1>4. ASSUME NEW w \in Workers
      PROVE  /\ worker'[w].pc = worker[w].pc /\ worker'[w].job = worker[w].job
             /\ worker'[w].attempt = worker[w].attempt /\ worker'[w].outcome = worker[w].outcome
             /\ worker'[w].retryCount = worker[w].retryCount
             /\ Live(w) => worker'[w].age = Aged(worker[w].age) /\ worker[w].age + 1 < StaleAfter
  <2>1. worker[w] \in WorkerState BY DEF IInv, TypeOK
  <2> QED BY <2>1 DEF Tick, InTime, Live, WorkerState
<1>5. ASSUME NEW w \in Workers, Live(w) PROVE HoldsClaim(w)'
  <2>1. worker[w].age \in Nat BY DEF IInv, TypeOK, WorkerState
  <2>2. worker'[w].age < StaleAfter BY <1>4, <1>5, <2>1, ConstantsAssumption DEF Aged
  <2> QED BY <1>2, <1>4, <1>5, <2>1, <2>2 DEF IInv, WorkerInv, HoldsClaim
<1>6. WorkerInv'
  BY <1>3, <1>4, <1>5 DEF IInv, WorkerInv, Live, KnowsBoundary, KnowsOutcome
<1>7. OneWorkerPerJob' BY <1>4 DEF IInv, OneWorkerPerJob, Handles
<1>8. RowConstraints' BY <1>2 DEF IInv, RowConstraints, RowOK
<1>9. FreshInv' BY <1>3 DEF IInv, FreshInv, Unused
<1>10. ClaimInv' BY <1>1, <1>2, <1>3 DEF IInv, ClaimInv
<1>11. RecoveryInv'
  <2>1. ASSUME NEW s, Abandoned(s)
        PROVE  Abandoned(s)' /\ (ClaimedBy(s)' <=> ClaimedBy(s)) /\ job'[s.job].status = job[s.job].status
    BY <1>2, <1>3, <1>4, <2>1 DEF Abandoned, ClaimedBy, Live
  <2> QED BY <1>3, <2>1 DEF IInv, RecoveryInv, Acting
<1>12. \A i \in Attempts : attempt[i].invoked => attempt[i].job \in Jobs
  BY DEF IInv, FreshInv
<1>13. calls \subseteq Attempts /\ mailed \subseteq calls BY DEF IInv, TypeOK
<1>14. BoundaryInv' BY <1>2, <1>3, <1>12 DEF IInv, BoundaryInv, ClaimOf
<1>15. CallInv' BY <1>2, <1>3, <1>12, <1>13 DEF IInv, CallInv, ClaimOf
<1>16. MailInv' BY <1>2, <1>3, <1>12, <1>13 DEF IInv, MailInv, CallInv, ClaimOf
<1>17. WindowInv' /\ CancelInv' BY <1>2, <1>3 DEF IInv, WindowInv, CancelInv
<1> QED BY <1>6, <1>7, <1>8, <1>9, <1>10, <1>11, <1>14, <1>15, <1>16, <1>17 DEF IInv

\* A statement that is not a worker's rewrites rows of jobs that are not being
\* processed: they end canceled or failed.
LEMMA SettlingKeeps ==
  ASSUME IInv, TypeOK', NEW S \in SUBSET Jobs, NEW status \in {"canceled", "failed"},
         \A j \in S : job[j].status = IF status = "canceled" THEN "waiting" ELSE "queued",
         job' = [j \in Jobs |-> IF j \in S THEN [job[j] EXCEPT !.status = status] ELSE job[j]],
         canceled' = IF status = "canceled" THEN canceled \cup S ELSE canceled,
         UNCHANGED <<attempt, worker, poll, calls, mailed>>
  PROVE  IInv'
<1>1. ASSUME NEW j \in S
      PROVE  /\ job'[j].status = status /\ job'[j].claim = job[j].claim
             /\ job'[j].window = job[j].window /\ job'[j].retryCount = job[j].retryCount
  BY DEF IInv, TypeOK, JobRow
<1>2. \A j \in Jobs \ S : job'[j] = job[j] OBVIOUS
<1>3. \A j \in S : job[j].status \in {"waiting", "queued"} OBVIOUS
<1>4. RowConstraints' BY <1>1, <1>2 DEF IInv, RowConstraints, RowOK
<1>5. FreshInv' BY DEF IInv, FreshInv, Unused
<1>6. WorkerInv' /\ OneWorkerPerJob'
  BY <1>2, <1>3 DEF IInv, WorkerInv, Live, HoldsClaim, KnowsBoundary, KnowsOutcome,
                    OneWorkerPerJob, Handles
<1>7. ClaimInv' BY <1>1, <1>2 DEF IInv, ClaimInv
<1>8. RecoveryInv'
  <2>1. ASSUME NEW s, Abandoned(s)
        PROVE  /\ Abandoned(s)' /\ (ClaimedBy(s)' <=> ClaimedBy(s))
               /\ job[s.job].status = "delivery_unknown" => job'[s.job].status = "delivery_unknown"
    BY <1>1, <1>2, <1>3, <2>1 DEF Abandoned, ClaimedBy, Live
  <2> QED BY <2>1 DEF IInv, RecoveryInv, Acting
<1>9. \A i \in Attempts : attempt[i].invoked => attempt[i].job \in Jobs BY DEF IInv, FreshInv
<1>10. calls \subseteq Attempts /\ mailed \subseteq calls BY DEF IInv, TypeOK
<1>11. BoundaryInv' BY <1>2, <1>3, <1>9 DEF IInv, BoundaryInv, ClaimOf
<1>12. CallInv' BY <1>1, <1>2, <1>3, <1>9, <1>10 DEF IInv, CallInv, ClaimOf
<1>13. MailInv' BY <1>2, <1>3, <1>9, <1>10 DEF IInv, MailInv, CallInv, ClaimOf
<1>14. WindowInv'
  <2>1. ASSUME NEW j \in S, j \notin Legacy, status = "failed" PROVE ~(job[j].window > 0)
    BY <2>1 DEF IInv, WindowInv
  <2> QED BY <1>1, <1>2, <2>1 DEF IInv, WindowInv
<1>15. CancelInv' BY <1>1, <1>2, <1>3 DEF IInv, CancelInv
<1> QED BY <1>4, <1>5, <1>6, <1>7, <1>8, <1>11, <1>12, <1>13, <1>14, <1>15 DEF IInv

LEMMA EnvironmentKeeps ==
  ASSUME IInv, TypeOK', Environment
  PROVE  IInv'
<1>1. ASSUME UNCHANGED <<job, attempt, worker, poll, canceled, calls, mailed>> PROVE IInv'
  <2>1. RecoveryInv' BY <1>1 DEF IInv, RecoveryInv, Abandoned, ClaimedBy, Live
  <2> QED BY <1>1, <2>1, PollingKeeps
<1>2. ASSUME NEW j \in Jobs, FinishCancel(j) PROVE IInv'
  <2>1. CASE Cancelable(j)
    <3>1. job' = [i \in Jobs |-> IF i \in {j} THEN [job[i] EXCEPT !.status = "canceled"] ELSE job[i]]
      BY <1>2, <2>1 DEF FinishCancel, Cancelable, IInv, TypeOK
    <3>2. canceled' = canceled \cup {j} /\ UNCHANGED <<attempt, worker, poll, calls, mailed>>
      BY <1>2, <2>1 DEF FinishCancel, Cancelable
    <3>3. job[j].status = "waiting" BY <2>1 DEF Cancelable
    <3>4. {j} \in SUBSET Jobs OBVIOUS
    <3> QED BY <3>1, <3>2, <3>3, <3>4, SettlingKeeps
  <2>2. CASE ~Cancelable(j)
    <3>1. UNCHANGED <<job, attempt, worker, poll, canceled, calls, mailed>>
      BY <1>2, <2>2 DEF FinishCancel, Cancelable
    <3> QED BY <3>1, <1>1
  <2> QED BY <2>1, <2>2
<1>3. ASSUME NEW to \in LocationStatus, CloseLocation(to) PROVE IInv'
  <2> DEFINE S == {j \in Jobs : job[j].status = "queued"}
  <2>1. job' = [j \in Jobs |-> IF j \in S THEN [job[j] EXCEPT !.status = "failed"] ELSE job[j]]
    BY <1>3 DEF CloseLocation, FailsOnClose
  <2>2. UNCHANGED <<attempt, worker, poll, canceled, calls, mailed>> BY <1>3 DEF CloseLocation
  <2>3. S \in SUBSET Jobs /\ \A j \in S : job[j].status = "queued" OBVIOUS
  <2> HIDE DEF S
  <2> QED BY <2>1, <2>2, <2>3, SettlingKeeps
<1>4. ASSUME NEW j \in Jobs, BeginCancel(j) PROVE IInv'
  BY <1>1, <1>4 DEF BeginCancel
<1>5. ASSUME NEW to \in LocationStatus, ReopenLocation(to) PROVE IInv'
  BY <1>1, <1>5 DEF ReopenLocation
<1> QED BY <1>2, <1>3, <1>4, <1>5 DEF Environment

\* The rows a recovery works on belong to no live worker.
LEMMA UnknownKeeps ==
  ASSUME IInv, TypeOK', NEW p \in Pollers, MarkUnknown(p)
  PROVE  IInv'
<1> DEFINE s == poll[p].current
           j == s.job
           a == s.attempt
<1>1. /\ Abandoned(s) /\ attempt[a].invoked
      /\ ClaimedBy(s) \/ job[j].status = "delivery_unknown"
  BY DEF IInv, RecoveryInv, Acting, MarkUnknown
<1>2. j \in Jobs /\ a \in Attempts /\ attempt[a].job = j BY <1>1 DEF Abandoned
<1>3. job[j] \in JobRow /\ mailed \subseteq calls /\ calls \subseteq Attempts
  BY <1>2 DEF IInv, TypeOK
<1>4. /\ job'[j].status = "delivery_unknown" /\ job'[j].window = job[j].window
      /\ job'[j].claim = job[j].claim
      /\ \A i \in Jobs \ {j} : job'[i] = job[i]
  BY <1>1, <1>2, <1>3 DEF IInv, TypeOK, MarkUnknown, JobRow, ClaimedBy
<1>5. UNCHANGED <<attempt, worker, canceled, calls, mailed>> BY DEF MarkUnknown, rest
<1>6. \A q \in Pollers \ {p} : poll'[q] = poll[q]
  BY DEF MarkUnknown, IInv, TypeOK
<1>7. poll'[p].phase = "closing_unknown" /\ poll'[p].current = s /\ poll'[p].stale = poll[p].stale
  BY DEF MarkUnknown, IInv, TypeOK, PollState
<1>8. \A i \in Attempts : attempt[i].invoked => attempt[i].job \in Jobs BY DEF IInv, FreshInv
<1>9. \A w \in Workers : Live(w) => worker[w].job # j
  BY <1>1 DEF IInv, WorkerInv, HoldsClaim, Abandoned, ClaimedBy
<1> HIDE DEF s, j, a
<1>10. RowConstraints' BY <1>4 DEF IInv, RowConstraints, RowOK
<1>11. FreshInv' BY <1>5 DEF IInv, FreshInv, Unused
<1>12. WorkerInv' /\ OneWorkerPerJob'
  BY <1>4, <1>5, <1>9 DEF IInv, WorkerInv, Live, HoldsClaim, KnowsBoundary, KnowsOutcome,
                          OneWorkerPerJob, Handles
<1>13. ClaimInv' BY <1>4, <1>5 DEF IInv, ClaimInv
<1>14. RecoveryInv'
  <2>1. ASSUME NEW c, Abandoned(c)
        PROVE  /\ Abandoned(c)' /\ (~ClaimedBy(c) => ~ClaimedBy(c)')
               /\ ClaimedBy(c) => ClaimedBy(c)' \/ job'[c.job].status = "delivery_unknown"
               /\ job[c.job].status = "delivery_unknown" => job'[c.job].status = "delivery_unknown"
    BY <1>4, <1>5, <2>1 DEF Abandoned, ClaimedBy, Live
  <2>2. ~ClaimedBy(poll[p].current)' BY <1>4, <1>7 DEF ClaimedBy, j
  <2>3. s \in Snapshot BY DEF IInv, RecoveryInv, Acting, MarkUnknown, s
  <2> QED BY <1>1, <1>5, <1>6, <1>7, <2>1, <2>2, <2>3 DEF IInv, RecoveryInv, Acting
<1>15. BoundaryInv' BY <1>4, <1>5, <1>8 DEF IInv, BoundaryInv, ClaimOf
<1>16. CallInv' BY <1>3, <1>4, <1>5, <1>8 DEF IInv, CallInv, ClaimOf
<1>17. MailInv' BY <1>3, <1>4, <1>5, <1>8 DEF IInv, MailInv, CallInv, ClaimOf
<1>18. WindowInv' /\ CancelInv'
  BY <1>1, <1>4, <1>5 DEF IInv, WindowInv, CancelInv, ClaimedBy, j
<1> QED BY <1>10, <1>11, <1>12, <1>13, <1>14, <1>15, <1>16, <1>17, <1>18 DEF IInv

LEMMA RequeueKeeps ==
  ASSUME IInv, TypeOK', NEW p \in Pollers, Requeue(p)
  PROVE  IInv'
<1> DEFINE s == poll[p].current
           j == s.job
           a == s.attempt
           status == IF s.retryCount = 0 /\ j \notin Legacy THEN "waiting" ELSE "queued"
           row == [job[j] EXCEPT !.status = status, !.claimAge = None, !.claim = None]
<1>1. Abandoned(s) /\ ~attempt[a].invoked BY DEF IInv, RecoveryInv, Acting, Requeue
<1>2. j \in Jobs /\ a \in Attempts /\ attempt[a].job = j BY <1>1 DEF Abandoned
<1>3. job[j] \in JobRow /\ mailed \subseteq calls /\ calls \subseteq Attempts /\ a \notin calls
  BY <1>1, <1>2 DEF IInv, TypeOK, CallInv
<1>4. UNCHANGED <<attempt, worker, canceled, calls, mailed>> BY DEF Requeue, rest
<1>5. \A q \in Pollers \ {p} : poll'[q] = poll[q] BY DEF Requeue, IInv, TypeOK
<1>6. s \in Snapshot BY DEF IInv, RecoveryInv, Acting, Requeue
<1>7. CASE job' = job
  <2>1. \/ poll'[p].phase = "idle" /\ poll'[p].stale = {}
        \/ /\ poll'[p].phase = "closing_abandoned" /\ ~ClaimedBy(s)
           /\ poll'[p].current = s /\ poll'[p].stale = poll[p].stale
    <3>1. CASE ClaimedBy(s) /\ ~RowOK(j, row)
      BY <3>1 DEF Requeue, ClaimedBy, NoPoll, IInv, TypeOK
    <3>2. CASE ClaimedBy(s) /\ RowOK(j, row)
      <4>1. job'[j] = row BY <1>2, <3>2 DEF Requeue, ClaimedBy, IInv, TypeOK
      <4>2. row.status # "processing" BY <1>3 DEF JobRow
      <4> QED BY <1>7, <3>2, <4>1, <4>2 DEF ClaimedBy
    <3>3. CASE ~ClaimedBy(s)
      BY <3>3 DEF Requeue, ClaimedBy, IInv, TypeOK, PollState
    <3> QED BY <3>1, <3>2, <3>3
  <2>2. ASSUME NEW c PROVE (Abandoned(c)' <=> Abandoned(c)) /\ (ClaimedBy(c)' <=> ClaimedBy(c))
    BY <1>4, <1>7 DEF Abandoned, ClaimedBy, Live
  <2>3. RecoveryInv'
    BY <1>1, <1>4, <1>5, <1>6, <1>7, <2>1, <2>2 DEF IInv, RecoveryInv, Acting
  <2> QED BY <1>4, <1>7, <2>3, PollingKeeps
<1>8. CASE job' # job
  <2>1. /\ ClaimedBy(s) /\ RowOK(j, row)
        /\ job' = [job EXCEPT ![j] = row]
        /\ poll' = [poll EXCEPT ![p] = [@ EXCEPT !.phase = "closing_abandoned"]]
    BY <1>8 DEF Requeue, ClaimedBy
  <2>2. /\ row.status = status /\ row.window = job[j].window /\ row.retryCount = job[j].retryCount
    BY <1>3 DEF JobRow
  <2>3. /\ job'[j] = row /\ \A i \in Jobs \ {j} : job'[i] = job[i]
        /\ job[j].status = "processing" /\ job[j].claim = a
    BY <1>2, <2>1 DEF IInv, TypeOK, ClaimedBy
  <2>4. /\ status \in {"waiting", "queued"}
        /\ status = "waiting" => job[j].retryCount = 0
    BY <1>1, <2>1 DEF Abandoned
  <2>5. poll'[p].phase = "closing_abandoned" /\ poll'[p].current = s /\ poll'[p].stale = poll[p].stale
    BY <2>1 DEF IInv, TypeOK, PollState
  <2>6. \A i \in Attempts : attempt[i].invoked => attempt[i].job \in Jobs BY DEF IInv, FreshInv
  <2>7. \A w \in Workers : Live(w) => worker[w].job # j
    BY <1>1, <2>3 DEF IInv, WorkerInv, HoldsClaim, Abandoned
  <2> HIDE DEF s, j, a, row, status
  <2>8. RowConstraints' BY <2>1, <2>3 DEF IInv, RowConstraints, RowOK
  <2>9. FreshInv' BY <1>4 DEF IInv, FreshInv, Unused
  <2>10. WorkerInv' /\ OneWorkerPerJob'
    BY <1>4, <2>3, <2>7 DEF IInv, WorkerInv, Live, HoldsClaim, KnowsBoundary, KnowsOutcome,
                            OneWorkerPerJob, Handles
  <2>11. ClaimInv' BY <1>4, <2>2, <2>3, <2>4 DEF IInv, ClaimInv
  <2>12. RecoveryInv'
    <3>1. ASSUME NEW c, Abandoned(c)
          PROVE  /\ Abandoned(c)' /\ (~ClaimedBy(c) => ~ClaimedBy(c)')
                 /\ ClaimedBy(c) /\ attempt[c.attempt].invoked => ClaimedBy(c)'
                 /\ job[c.job].status = "delivery_unknown" => job'[c.job].status = "delivery_unknown"
      BY <1>1, <1>4, <2>2, <2>3, <2>4, <3>1 DEF Abandoned, ClaimedBy, Live
    <3>2. ~ClaimedBy(poll[p].current)' BY <2>2, <2>3, <2>4, <2>5 DEF ClaimedBy, j
    <3> QED BY <1>1, <1>4, <1>5, <1>6, <2>5, <3>1, <3>2 DEF IInv, RecoveryInv, Acting
  <2>13. BoundaryInv'
    BY <1>1, <1>4, <2>2, <2>3, <2>4, <2>6 DEF IInv, BoundaryInv, ClaimOf
  <2>14. CallInv'
    BY <1>1, <1>3, <1>4, <2>2, <2>3, <2>4, <2>6 DEF IInv, CallInv, ClaimOf
  <2>15. MailInv'
    BY <1>1, <1>3, <1>4, <2>2, <2>3, <2>4, <2>6 DEF IInv, MailInv, CallInv, ClaimOf
  <2>16. WindowInv' /\ CancelInv'
    BY <1>4, <2>2, <2>3, <2>4 DEF IInv, WindowInv, CancelInv
  <2> QED BY <2>8, <2>9, <2>10, <2>11, <2>12, <2>13, <2>14, <2>15, <2>16 DEF IInv
<1> QED BY <1>7, <1>8

LEMMA CloseRecoveredKeeps ==
  ASSUME IInv, TypeOK', NEW p \in Pollers, CloseRecovered(p)
  PROVE  IInv'
<1> DEFINE s == poll[p].current
           a == s.attempt
           status == IF poll[p].phase = "closing_unknown" THEN "delivery_unknown" ELSE "abandoned"
           b == [attempt[a] EXCEPT !.status = status, !.completed = TRUE]
<1>1. Abandoned(s) /\ ~ClaimedBy(s) BY DEF IInv, RecoveryInv, Acting, CloseRecovered
<1>2. s.job \in Jobs /\ a \in Attempts /\ attempt[a].job = s.job BY <1>1 DEF Abandoned
<1>3. attempt[a] \in AttemptRow BY <1>2 DEF IInv, TypeOK
<1>4. b.status # "unused" /\ b.completed /\ b.job = attempt[a].job /\ b.invoked = attempt[a].invoked
  BY <1>3 DEF AttemptRow
<1>5. /\ attempt'[a] = b /\ \A i \in Attempts \ {a} : attempt'[i] = attempt[i]
      /\ UNCHANGED <<job, worker, canceled, calls, mailed>>
  BY <1>2 DEF CloseRecovered, rest, IInv, TypeOK
<1>6. /\ poll'[p].phase = "recovering" /\ poll'[p].stale = poll[p].stale
      /\ \A q \in Pollers \ {p} : poll'[q] = poll[q]
  BY DEF CloseRecovered, IInv, TypeOK, PollState
<1>7. \A w \in Workers : Live(w) => worker[w].attempt # a /\ worker[w].attempt \in Attempts
  BY <1>1 DEF Abandoned, IInv, WorkerInv, HoldsClaim
<1> HIDE DEF b, status
<1>8. \A i \in Attempts : attempt'[i].job = attempt[i].job /\ attempt'[i].invoked = attempt[i].invoked
  BY <1>4, <1>5
<1>9. mailed \subseteq calls /\ calls \subseteq Attempts BY DEF IInv, TypeOK
<1>10. RowConstraints' BY <1>5 DEF IInv, RowConstraints, RowOK
<1>11. FreshInv' BY <1>2, <1>4, <1>5 DEF IInv, FreshInv, Unused
<1>12. WorkerInv' /\ OneWorkerPerJob'
  BY <1>5, <1>7 DEF IInv, WorkerInv, Live, HoldsClaim, KnowsBoundary, KnowsOutcome,
                    OneWorkerPerJob, Handles
<1>13. ClaimInv' BY <1>1, <1>2, <1>5 DEF IInv, ClaimInv, ClaimedBy
<1>14. RecoveryInv'
  <2>1. ASSUME NEW c, Abandoned(c)
        PROVE  /\ Abandoned(c)' /\ (ClaimedBy(c)' <=> ClaimedBy(c))
               /\ attempt'[c.attempt].invoked = attempt[c.attempt].invoked
    BY <1>5, <1>8, <2>1 DEF Abandoned, ClaimedBy, Live
  <2> QED BY <1>5, <1>6, <2>1 DEF IInv, RecoveryInv, Acting
<1>15. BoundaryInv' BY <1>4, <1>5, <1>8 DEF IInv, BoundaryInv, ClaimOf
<1>16. CallInv' BY <1>5, <1>8, <1>9 DEF IInv, CallInv, ClaimOf
<1>17. MailInv' BY <1>5, <1>8, <1>9 DEF IInv, MailInv, ClaimOf
<1>18. WindowInv' /\ CancelInv' BY <1>5 DEF IInv, WindowInv, CancelInv
<1> QED BY <1>10, <1>11, <1>12, <1>13, <1>14, <1>15, <1>16, <1>17, <1>18 DEF IInv

LEMMA BeginPollKeeps ==
  ASSUME IInv, TypeOK', NEW p \in Pollers, BeginPoll(p)
  PROVE  IInv'
<1>1. ASSUME NEW s \in StaleClaims PROVE Abandoned(s)
  <2>1. PICK j \in Jobs : /\ job[j].status = "processing" /\ job[j].claimAge = StaleAfter
                          /\ s = [job |-> j, attempt |-> job[j].claim, retryCount |-> job[j].retryCount]
    BY DEF StaleClaims, Stale
  <2>2. s.attempt \in Attempts /\ attempt[s.attempt].job = j BY <2>1 DEF IInv, ClaimInv
  <2>3. ASSUME NEW w \in Workers, Live(w), worker[w].attempt = s.attempt PROVE FALSE
    <3>1. worker[w].job = j BY <2>2, <2>3, LiveFacts
    <3>2. job[j].claimAge < StaleAfter BY <2>3, <3>1 DEF IInv, WorkerInv, HoldsClaim
    <3> QED BY <2>1, <3>2, ConstantsAssumption
  <2> QED BY <2>1, <2>2, <2>3 DEF Abandoned
<1>2. UNCHANGED <<job, attempt, worker, canceled, calls, mailed>> BY DEF BeginPoll, rest
<1>3. /\ poll'[p].stale = StaleClaims /\ poll'[p].phase = "recovering"
      /\ \A q \in Pollers \ {p} : poll'[q] = poll[q]
  BY DEF BeginPoll, NoPoll, IInv, TypeOK
<1>4. \A c : (Abandoned(c)' <=> Abandoned(c)) /\ (ClaimedBy(c)' <=> ClaimedBy(c))
  BY <1>2 DEF Abandoned, ClaimedBy, Live
<1>5. RecoveryInv' BY <1>1, <1>2, <1>3, <1>4 DEF IInv, RecoveryInv, Acting
<1> QED BY <1>2, <1>5, PollingKeeps

LEMMA InspectKeeps ==
  ASSUME IInv, TypeOK', NEW p \in Pollers, NEW s \in poll[p].stale, InspectClaim(p, s)
  PROVE  IInv'
<1>1. Abandoned(s) /\ s \in Snapshot BY DEF IInv, RecoveryInv, TypeOK, PollState
<1>2. UNCHANGED <<job, attempt, worker, canceled, calls, mailed>> BY DEF InspectClaim, rest
<1>3. /\ poll'[p].stale \subseteq poll[p].stale
      /\ poll'[p].phase = Verdict(attempt[s.attempt])
      /\ ~attempt[s.attempt].completed => poll'[p].current = s
      /\ \A q \in Pollers \ {p} : poll'[q] = poll[q]
  BY DEF InspectClaim, IInv, TypeOK, PollState
<1>4. \A c : (Abandoned(c)' <=> Abandoned(c)) /\ (ClaimedBy(c)' <=> ClaimedBy(c))
  BY <1>2 DEF Abandoned, ClaimedBy, Live
<1>5. attempt[s.attempt].invoked /\ ~attempt[s.attempt].completed =>
        ClaimedBy(s) \/ job[s.job].status = "delivery_unknown"
  BY <1>1 DEF IInv, BoundaryInv, ClaimOf, ClaimedBy, Abandoned
<1>6. RecoveryInv'
  BY <1>1, <1>2, <1>3, <1>4, <1>5 DEF IInv, RecoveryInv, Acting, Verdict
<1> QED BY <1>2, <1>6, PollingKeeps

LEMMA RecoveryKeeps ==
  ASSUME IInv, TypeOK', NEW p \in Pollers, Recovery(p)
  PROVE  IInv'
<1>1. CASE ReadDue(p) \/ EndPoll(p)
  <2>1. UNCHANGED <<job, attempt, worker, canceled, calls, mailed>> BY <1>1 DEF ReadDue, EndPoll, rest
  <2>2. /\ poll'[p].phase \notin Acting /\ poll'[p].stale \subseteq poll[p].stale
        /\ \A q \in Pollers \ {p} : poll'[q] = poll[q]
    <3>1. poll[p] \in PollState /\ poll \in [Pollers -> PollState] BY DEF IInv, TypeOK
    <3>2. CASE ReadDue(p) BY <3>1, <3>2 DEF ReadDue, Acting, PollState
    <3>3. CASE EndPoll(p) BY <3>1, <3>3 DEF EndPoll, NoPoll, Acting, PollState
    <3> QED BY <1>1, <3>2, <3>3
  <2>3. \A c : (Abandoned(c)' <=> Abandoned(c)) /\ (ClaimedBy(c)' <=> ClaimedBy(c))
    BY <2>1 DEF Abandoned, ClaimedBy, Live
  <2>4. RecoveryInv' BY <2>1, <2>2, <2>3 DEF IInv, RecoveryInv, Acting
  <2> QED BY <2>1, <2>4, PollingKeeps
<1> QED BY <1>1, BeginPollKeeps, InspectKeeps, UnknownKeeps, RequeueKeeps, CloseRecoveredKeeps
        DEF Recovery

LEMMA HandlingKeeps ==
  ASSUME IInv, TypeOK', NEW w \in Workers, Handling(w)
  PROVE  IInv'
BY GatesKeep, BlockKeeps, DeferKeeps, InvokeKeeps, CallKeeps, AnswerKeeps, AcceptedKeeps,
   FinalKeeps, RetryKeeps DEF Handling

LEMMA InitInv == Init => IInv
<1> SUFFICES ASSUME Init PROVE IInv OBVIOUS
<1>1. TypeOK
  <2>1. \A j \in Jobs : NewJob(j) \in JobRow BY ConstantsAssumption DEF NewJob, JobRow, JobStatus
  <2>2. UnusedAttempt \in AttemptRow BY DEF UnusedAttempt, AttemptRow, AttemptStatus
  <2>3. NoPoll \in PollState BY DEF NoPoll, PollState, PollPhase
  <2> QED BY <2>1, <2>2, <2>3, IdleTyped DEF Init, TypeOK, LocationStatus, Assigned, Idle
<1>2. \A w \in Workers : ~Live(w) BY DEF Init, Live, Idle
<1>3. \A j \in Jobs : job[j].status = IF j \in Legacy THEN "queued" ELSE "waiting"
  BY DEF Init, NewJob
<1>4. \A a \in Attempts : attempt[a] = UnusedAttempt BY DEF Init
<1>5. \A p \in Pollers : poll[p].stale = {} /\ poll[p].phase = "idle" BY DEF Init, NoPoll
<1>6. RowConstraints BY <1>3 DEF Init, NewJob, RowConstraints, RowOK
<1>7. FreshInv /\ BoundaryInv BY <1>4 DEF Init, UnusedAttempt, FreshInv, Unused, BoundaryInv
<1>8. WorkerInv /\ OneWorkerPerJob BY <1>2 DEF WorkerInv, OneWorkerPerJob, Handles, Live
<1>9. ClaimInv /\ WindowInv BY <1>3 DEF ClaimInv, WindowInv
<1>10. RecoveryInv BY <1>5 DEF RecoveryInv, Acting
<1>11. CallInv /\ MailInv /\ CancelInv BY <1>3 DEF Init, CallInv, MailInv, CancelInv
<1> QED BY <1>1, <1>6, <1>7, <1>8, <1>9, <1>10, <1>11 DEF IInv

LEMMA NextKeepsTypes == TypeOK /\ [Next]_vars => TypeOK'
<1> SUFFICES ASSUME TypeOK, [Next]_vars PROVE TypeOK' OBVIOUS
<1>1. CASE UNCHANGED vars BY <1>1 DEF vars, TypeOK, Assigned
<1>2. ASSUME NEW w \in Workers, Claiming(w) PROVE TypeOK' BY <1>2, ClaimingTypes DEF Claiming
<1>3. ASSUME NEW p \in Pollers, Skipping(p) PROVE TypeOK' BY <1>3, SkippingTypes DEF Skipping
<1> QED BY <1>1, <1>2, <1>3, RecoveryTypes, HandlingTypes, FailTypes, EnvironmentTypes, TickTypes
        DEF Next

LEMMA NextKeepsInv == Prompt /\ IInv /\ [Next]_vars => IInv'
<1> SUFFICES ASSUME Prompt, IInv, [Next]_vars PROVE IInv' OBVIOUS
<1>1. TypeOK' BY NextKeepsTypes DEF IInv
<1>2. CASE UNCHANGED vars
  <2>1. UNCHANGED <<job, attempt, worker, poll, canceled, calls, mailed>> BY <1>2 DEF vars
  <2>2. RecoveryInv' BY <2>1 DEF IInv, RecoveryInv, Abandoned, ClaimedBy, Live
  <2> QED BY <1>1, <2>1, <2>2, PollingKeeps
<1>3. ASSUME NEW w \in Workers, Claiming(w) PROVE IInv' BY <1>1, <1>3, ClaimKeeps DEF Claiming
<1>4. ASSUME NEW p \in Pollers, Skipping(p) PROVE IInv' BY <1>1, <1>4, SkipKeeps DEF Skipping
<1> QED BY <1>1, <1>2, <1>3, <1>4, RecoveryKeeps, HandlingKeeps, FailKeeps, EnvironmentKeeps,
           TickKeeps DEF Next

-----------------------------------------------------------------------------
(***************************************************************************)
(* Theorems.                                                               *)
(***************************************************************************)
\* The rows, workers and polls keep their types in every behaviour, whether
\* or not a worker outlives its claim.
THEOREM TypeCorrect == Spec => []TypeOK
<1>1. Init => TypeOK BY InitInv DEF IInv
<1> QED BY <1>1, NextKeepsTypes, PTL DEF Spec

THEOREM Invariance == ASSUME Prompt PROVE Spec => []IInv
<1>1. IInv /\ [Next]_vars => IInv' BY NextKeepsInv
<1> QED BY <1>1, InitInv, PTL DEF Spec

\* However many pollers, requests, crashes and recoveries there are, a job has
\* one worker at a time, and a claim that is left behind can be recovered.
THEOREM ClaimsAreExclusive ==
  ASSUME Prompt PROVE Spec => [](OneWorkerPerJob /\ ClaimIsRecoverable)
<1>1. IInv => OneWorkerPerJob /\ ClaimIsRecoverable
  BY DEF IInv, ClaimInv, ClaimIsRecoverable, AttemptsOf
<1> QED BY <1>1, Invariance, PTL

\* The provider never accepts two mails of one job.
THEOREM AtMostOnce == ASSUME Prompt PROVE Spec => []AtMostOneMail
<1>1. IInv => AtMostOneMail
  <2> SUFFICES ASSUME IInv, NEW j \in Jobs PROVE Cardinality(AttemptsOf(j) \cap mailed) <= 1
    BY DEF AtMostOneMail
  <2> DEFINE S == AttemptsOf(j) \cap mailed
  <2>1. \A a, b \in S : a = b BY DEF IInv, MailInv, AttemptsOf
  <2>2. CASE S = {} BY <2>2, FS_EmptySet
  <2>3. CASE S # {}
    <3>1. PICK a \in S : S = {a} BY <2>1, <2>3
    <3>2. Cardinality({a}) = 1 BY FS_Singleton
    <3>3. Cardinality(S) = 1 BY <3>1, <3>2, Zenon
    <3> QED BY <3>3
  <2> QED BY <2>2, <2>3
<1> QED BY <1>1, Invariance, PTL

\* No provider call is made for a job that was canceled, nor while it still
\* could be, and every call that was made is stamped on its attempt.
THEOREM CancellationIsProof ==
  ASSUME Prompt PROVE Spec => [](CanceledNeverCalled /\ NoCallInsideWindow /\ CallIsRecorded)
<1>1. IInv => CanceledNeverCalled /\ NoCallInsideWindow /\ CallIsRecorded
  BY DEF IInv, CancelInv, CallInv, WindowInv, CanceledNeverCalled, NoCallInsideWindow,
         CallIsRecorded, AttemptsOf
<1> QED BY <1>1, Invariance, PTL

\* No statement leaves a row that a CHECK constraint of mail_jobs forbids.
THEOREM RowsAreValid == ASSUME Prompt PROVE Spec => []RowConstraints
<1>1. IInv => RowConstraints BY DEF IInv
<1> QED BY <1>1, Invariance, PTL

-----------------------------------------------------------------------------
(***************************************************************************)
(* Refinement: every step keeps what DeliveryPromise promises of a job.    *)
(***************************************************************************)
\* Rows and calls that tell the same life of a job.
LEMMA SamePhase ==
  ASSUME NEW j \in Jobs, job'[j].status = job[j].status, job'[j].claim = job[j].claim,
         job[j].status = "processing" => (job[j].claim \in calls' <=> job[j].claim \in calls)
  PROVE  Phase(j)' = Phase(j)
BY DEF Phase

LEMMA SameNotified ==
  ASSUME TypeOK, mailed' = mailed,
         \A a \in mailed : attempt'[a].job = attempt[a].job
  PROVE  Notified' = Notified
<1>1. ASSUME NEW j \in Jobs PROVE (AttemptsOf(j) \cap mailed)' = AttemptsOf(j) \cap mailed
  BY DEF AttemptsOf
<1> QED BY <1>1 DEF Notified

\* A step that keeps every status, claim and attempt's job is a stutter.
LEMMA Stutters ==
  ASSUME TypeOK,
         \A j \in Jobs : job'[j].status = job[j].status /\ job'[j].claim = job[j].claim,
         calls' = calls, mailed' = mailed, \A a \in mailed : attempt'[a].job = attempt[a].job
  PROVE  UNCHANGED Promise!vars
<1>1. \A j \in Jobs : Phase(j)' = Phase(j) BY SamePhase
<1>2. Notified' = Notified BY SameNotified
<1> QED BY <1>1, <1>2 DEF Promise!vars, Life

\* The life of one job advances, the others' and the notified do not.
LEMMA Advances ==
  ASSUME TypeOK, NEW j \in Jobs, NEW r, job' = [job EXCEPT ![j] = r],
         calls' = calls, mailed' = mailed, \A a \in mailed : attempt'[a].job = attempt[a].job
  PROVE  /\ Life' = [Life EXCEPT ![j] = Phase(j)']
         /\ Notified' = Notified /\ job'[j] = r
<1>1. job'[j] = r /\ \A i \in Jobs \ {j} : job'[i] = job[i] BY DEF TypeOK
<1>2. \A i \in Jobs \ {j} : Phase(i)' = Phase(i) BY <1>1 DEF Phase
<1>3. Notified' = Notified BY SameNotified
<1> QED BY <1>1, <1>2, <1>3 DEF Life

\* The phase of a job a live worker holds, and whether it was notified.
LEMMA LivePhase ==
  ASSUME IInv, NEW w \in Workers, Live(w)
  PROVE  /\ Phase(worker[w].job) = IF worker[w].pc \in AfterCall THEN "calling" ELSE "open"
         /\ worker[w].job \in Notified <=> worker[w].attempt \in mailed
<1> DEFINE j == worker[w].job
           a == worker[w].attempt
<1>1. /\ j \in Jobs /\ a \in Attempts /\ attempt[a].job = j /\ job[j].status = "processing"
      /\ job[j].claim = a /\ KnowsBoundary(w)
  BY LiveFacts
<1>2. Phase(j) = IF worker[w].pc \in AfterCall THEN "calling" ELSE "open"
  BY <1>1 DEF Phase, Terminal, KnowsBoundary
<1>3. ASSUME NEW i \in AttemptsOf(j) \cap mailed PROVE i = a
  BY <1>1 DEF IInv, MailInv, ClaimOf, AttemptsOf
<1>4. a \in AttemptsOf(j) BY <1>1 DEF AttemptsOf
<1> QED BY <1>1, <1>2, <1>3, <1>4 DEF Notified

Ends(w, j, a, r, b) ==
  /\ j = worker[w].job /\ a = worker[w].attempt
  /\ job' = [job EXCEPT ![j] = r] /\ attempt' = [attempt EXCEPT ![a] = b]
  /\ calls' = calls /\ mailed' = mailed
  /\ r.status \in Terminal \cup {"queued"} /\ b.job = attempt[a].job

\* A worker that ends its job leaves it open, if queued, or with its last status.
LEMMA EndingPhase ==
  ASSUME IInv, NEW w \in Workers, Live(w), NEW j, NEW a, NEW r, NEW b, Ends(w, j, a, r, b)
  PROVE  /\ Life' = [Life EXCEPT ![j] = IF r.status = "queued" THEN "open" ELSE r.status]
         /\ Notified' = Notified
<1>1. TypeOK /\ mailed \subseteq Attempts /\ j \in Jobs BY LiveFacts DEF IInv, TypeOK, Ends
<1>2. \A i \in mailed : attempt'[i].job = attempt[i].job BY <1>1 DEF TypeOK, Ends
<1>3. /\ Life' = [Life EXCEPT ![j] = Phase(j)']
      /\ Notified' = Notified /\ job'[j] = r
  BY <1>1, <1>2, Advances DEF Ends
<1>4. Phase(j)' = (IF r.status = "queued" THEN "open" ELSE r.status)
  BY <1>3 DEF Phase, Terminal, Ends
<1> QED BY <1>3, <1>4

LEMMA HandlingPromise ==
  ASSUME IInv, IInv', NEW w \in Workers, Handling(w),
         NEW j, NEW a, j = worker[w].job, a = worker[w].attempt
  PROVE  [Promise!Next]_(Promise!vars)
<1>1. TypeOK /\ mailed \subseteq Attempts BY DEF IInv, TypeOK
<1>2. ASSUME Live(w)
      PROVE  /\ j \in Jobs /\ a \in Attempts /\ job[j] \in JobRow /\ attempt[a] \in AttemptRow
             /\ Phase(j) = IF worker[w].pc \in AfterCall THEN "calling" ELSE "open"
             /\ j \in Notified <=> a \in mailed
             /\ KnowsOutcome(w) /\ KnowsBoundary(w) /\ job[j].claim = a /\ job[j].status = "processing"
  BY <1>2, LiveFacts, LivePhase
<1>3. ASSUME NEW b, attempt' = [attempt EXCEPT ![a] = b], b.job = attempt[a].job
      PROVE  \A i \in mailed : attempt'[i].job = attempt[i].job
  BY <1>1, <1>3 DEF TypeOK
<1>4. CASE CheckGates(w) \/ (\E outcome \in Outcomes : Answer(w, outcome))
  <2>1. CheckGates(w) => UNCHANGED <<job, attempt, calls, mailed>> BY DEF CheckGates, rest
  <2>2. ASSUME NEW o \in Outcomes, Answer(w, o) PROVE UNCHANGED <<job, attempt, calls, mailed>>
    BY <2>2 DEF Answer, rest
  <2> QED BY <1>1, <1>4, <2>1, <2>2, Stutters
<1>5. CASE Invoke(w)
  <2>1. Live(w) BY <1>5 DEF Invoke, At, Live
  <2>2. InvokedRow(attempt[a]).job = attempt[a].job BY <1>2, <2>1 DEF InvokedRow, AttemptRow
  <2>3. \A i \in mailed : attempt'[i].job = attempt[i].job BY <1>3, <1>5, <2>2 DEF Invoke
  <2>4. UNCHANGED <<job, calls, mailed>> BY <1>5 DEF Invoke, rest
  <2> QED BY <1>1, <2>3, <2>4, Stutters
<1>6. ASSUME NEW accepted \in BOOLEAN, CallProvider(w, accepted)
      PROVE  Promise!Next
  <2>1. Live(w) /\ worker[w].pc = "invoked" BY <1>6 DEF CallProvider, At, Live
  <2>2. Phase(j) = "open" /\ j \notin Notified
    BY <1>2, <2>1 DEF AfterCall, KnowsBoundary, IInv, TypeOK
  <2>3. /\ UNCHANGED <<job, attempt>> /\ calls' = calls \cup {a}
        /\ mailed' = IF accepted THEN mailed \cup {a} ELSE mailed
    BY <1>6 DEF CallProvider, rest
  <2>4. Phase(j)' = "calling" BY <1>2, <2>1, <2>3 DEF Phase, Terminal
  <2>5. ASSUME NEW i \in Jobs, i # j PROVE Phase(i)' = Phase(i)
    <3>1. job[i].status = "processing" => job[i].claim # a
      BY <1>2, <2>1, <2>5, LiveFacts DEF IInv, ClaimInv
    <3> QED BY <2>3, <3>1, SamePhase
  <2>6. Life' = [Life EXCEPT ![j] = "calling"]
    BY <1>2, <2>1, <2>4, <2>5 DEF Life
  <2>7. \A i \in Jobs : i \in Notified' <=> i \in Notified \/ (accepted /\ i = j)
    <3>1. ASSUME NEW i \in Jobs PROVE AttemptsOf(i)' = AttemptsOf(i) BY <2>3 DEF AttemptsOf
    <3>2. \A i \in Jobs : a \in AttemptsOf(i) <=> i = j
      BY <1>2, <2>1, LiveFacts DEF AttemptsOf
    <3> QED BY <2>3, <3>1, <3>2 DEF Notified
  <2>8. Notified' \in {Notified, Notified \cup {j}}
    <3>1. Notified \subseteq Jobs /\ Notified' \subseteq Jobs BY DEF Notified
    <3> QED BY <1>2, <2>1, <2>7, <3>1
  <2>9. Promise!Call(j) BY <1>2, <2>1, <2>2, <2>6, <2>8 DEF Promise!Call, Life
  <2> QED BY <1>2, <2>1, <2>9 DEF Promise!Next
<1>7. CASE BlockClaimed(w)
  <2> DEFINE r == [job[j] EXCEPT !.status = "failed", !.scheduledAt = None]
             b == [attempt[a] EXCEPT !.status = "blocked", !.completed = TRUE]
  <2>1. Live(w) /\ Phase(j) = "open" BY <1>2, <1>7 DEF BlockClaimed, At, Live, AfterCall
  <2>2. r.status = "failed" /\ b.job = attempt[a].job BY <1>2, <2>1 DEF JobRow, AttemptRow
  <2>3. Ends(w, j, a, r, b) BY <1>7, <2>2 DEF BlockClaimed, Ends, rest, Terminal
  <2> HIDE DEF r, b
  <2>4. /\ Life' = [Life EXCEPT ![j] = "failed"]
        /\ Notified' = Notified
    BY <2>1, <2>2, <2>3, EndingPhase
  <2>5. Promise!GiveUp({j}) BY <1>2, <2>1, <2>4 DEF Promise!GiveUp, Life
  <2>6. {j} \in SUBSET Jobs BY <1>2, <2>1
  <2> QED BY <2>5, <2>6 DEF Promise!Next
<1>8. CASE Defer(w)
  <2> DEFINE r == DeferredRow(job[j])
             b == [attempt[a] EXCEPT !.status = "deferred", !.completed = TRUE]
  <2>1. Live(w) /\ Phase(j) = "open" BY <1>2, <1>8 DEF Defer, At, Live, AfterCall
  <2>2. r.status = "queued" /\ b.job = attempt[a].job
    BY <1>2, <2>1 DEF DeferredRow, JobRow, AttemptRow
  <2>3. Ends(w, j, a, r, b) BY <1>8, <2>2 DEF Defer, Ends, rest, Terminal
  <2> HIDE DEF r, b
  <2>4. /\ Life' = [Life EXCEPT ![j] = "open"]
        /\ Notified' = Notified
    BY <2>1, <2>2, <2>3, EndingPhase
  <2> QED BY <2>1, <2>4 DEF Promise!vars, Life
<1>9. CASE RecordAccepted(w)
  <2> DEFINE r == [job[j] EXCEPT !.status = "sent", !.scheduledAt = None]
             b == [attempt[a] EXCEPT !.status = "succeeded", !.completed = TRUE]
  <2>1. Live(w) /\ Phase(j) = "calling" /\ j \in Notified
    BY <1>2, <1>9 DEF RecordAccepted, At, Live, AfterCall, KnowsOutcome
  <2>2. r.status = "sent" /\ b.job = attempt[a].job BY <1>2, <2>1 DEF JobRow, AttemptRow
  <2>3. Ends(w, j, a, r, b) BY <1>9, <2>2 DEF RecordAccepted, Ends, rest, Terminal
  <2> HIDE DEF r, b
  <2>4. /\ Life' = [Life EXCEPT ![j] = "sent"]
        /\ Notified' = Notified
    BY <2>1, <2>2, <2>3, EndingPhase
  <2>5. Promise!Accepted(j) BY <1>2, <2>1, <2>4 DEF Promise!Accepted, Life
  <2> QED BY <1>2, <2>1, <2>5 DEF Promise!Next
<1>10. CASE RecordFinal(w)
  <2> DEFINE status == IF worker[w].outcome = "unknown" THEN "delivery_unknown" ELSE "failed"
             r == [job[j] EXCEPT !.status = status, !.scheduledAt = None]
             b == [attempt[a] EXCEPT !.status = status, !.completed = TRUE, !.closed = TRUE]
  <2>1. Live(w) /\ Phase(j) = "calling" /\ (status = "failed" => j \notin Notified)
    BY <1>2, <1>10 DEF RecordFinal, At, Live, AfterCall, KnowsOutcome
  <2>2. status \in {"failed", "delivery_unknown"} OBVIOUS
  <2>3. r.status = status /\ b.job = attempt[a].job
    <3> HIDE DEF status
    <3> QED BY <1>2, <2>1 DEF JobRow, AttemptRow
  <2>4. Ends(w, j, a, r, b) BY <1>10, <2>2, <2>3 DEF RecordFinal, Ends, rest, Terminal
  <2> HIDE DEF r, b, status
  <2>5. /\ Life' = [Life EXCEPT ![j] = status]
        /\ Notified' = Notified
    BY <2>1, <2>2, <2>3, <2>4, EndingPhase
  <2>6. Promise!Refused(j) \/ Promise!Lost(j)
    BY <1>2, <2>1, <2>2, <2>5 DEF Promise!Refused, Promise!Lost, Life
  <2> QED BY <1>2, <2>1, <2>6 DEF Promise!Next
<1>11. CASE RecordRetry(w)
  <2> DEFINE n == worker[w].retryCount
             again == n \in DOMAIN RetryDelay
             r == [job[j] EXCEPT !.status = IF again THEN "queued" ELSE "failed",
                                 !.retryCount = NextRetryCount(n),
                                 !.scheduledAt = IF again THEN RetryDelay[n] ELSE None]
             b == [attempt[a] EXCEPT !.status = IF again THEN "retry_scheduled" ELSE "failed",
                                     !.completed = TRUE]
  <2>1. Live(w) /\ Phase(j) = "calling" /\ j \notin Notified
    BY <1>2, <1>11 DEF RecordRetry, At, Live, AfterCall, KnowsOutcome, Transient
  <2>2. r.status \in {"queued", "failed"} /\ b.job = attempt[a].job
    BY <1>2, <2>1 DEF JobRow, AttemptRow
  <2>3. Ends(w, j, a, r, b) BY <1>11, <2>2 DEF RecordRetry, Ends, rest, Terminal
  <2> HIDE DEF r, b
  <2> DEFINE phase == IF r.status = "queued" THEN "open" ELSE r.status
  <2>4. phase \in {"open", "failed"} BY <2>2
  <2>5. /\ Life' = [Life EXCEPT ![j] = phase]
        /\ Notified' = Notified
    BY <2>1, <2>2, <2>3, EndingPhase
  <2> HIDE DEF phase
  <2>6. Promise!Refused(j) BY <1>2, <2>1, <2>4, <2>5 DEF Promise!Refused, Life
  <2> QED BY <1>2, <2>1, <2>6 DEF Promise!Next
<1> QED BY <1>4, <1>5, <1>6, <1>7, <1>8, <1>9, <1>10, <1>11 DEF Handling

LEMMA ClaimPromise ==
  ASSUME IInv, NEW w \in Workers, NEW j \in Jobs, NEW a \in FreshAttempts, Claim(w, j, a)
  PROVE  UNCHANGED Promise!vars
<1> DEFINE r == ClaimedRow(job[j], a)
           b == [attempt[a] EXCEPT !.job = j, !.status = "claimed"]
<1>1. a \in Attempts /\ Unused(a) /\ TypeOK BY DEF FreshAttempts, Unused, IInv
<1>2. a \notin calls /\ a \notin mailed BY <1>1 DEF IInv, FreshInv, TypeOK
<1>3. job[j].status \in {"waiting", "queued"}
  BY DEF Claim, Claimable, WindowOver, RetryDue, LegacyDue
<1>4. r.status = "processing" /\ r.claim = a
  BY <1>1 DEF TypeOK, ClaimedRow, JobRow
<1>5. /\ job' = [job EXCEPT ![j] = r] /\ attempt' = [attempt EXCEPT ![a] = b]
      /\ calls' = calls /\ mailed' = mailed
  BY DEF Claim, rest
<1> HIDE DEF r, b
<1>6. \A i \in mailed : attempt'[i].job = attempt[i].job BY <1>1, <1>2, <1>5 DEF TypeOK
<1>7. /\ Life' = [Life EXCEPT ![j] = Phase(j)'] /\ Notified' = Notified /\ job'[j] = r
  BY <1>1, <1>5, <1>6, Advances
<1>8. Phase(j)' = "open" /\ Phase(j) = "open"
  BY <1>2, <1>3, <1>4, <1>5, <1>7 DEF Phase, Terminal
<1> QED BY <1>7, <1>8 DEF Promise!vars, Life

LEMMA RecoveryPromise ==
  ASSUME IInv, NEW p \in Pollers, Recovery(p)
  PROVE  [Promise!Next]_(Promise!vars)
<1>1. TypeOK BY DEF IInv
<1>2. CASE BeginPoll(p) \/ ReadDue(p) \/ EndPoll(p)
  <2>1. UNCHANGED <<job, attempt, calls, mailed>> BY <1>2 DEF BeginPoll, ReadDue, EndPoll, rest
  <2> QED BY <1>1, <2>1, Stutters
<1>3. ASSUME NEW s \in poll[p].stale, InspectClaim(p, s) PROVE UNCHANGED Promise!vars
  <2>1. UNCHANGED <<job, attempt, calls, mailed>> BY <1>3 DEF InspectClaim, rest
  <2> QED BY <1>1, <2>1, Stutters
<1>4. ASSUME NEW j, j = poll[p].current.job, MarkUnknown(p)
      PROVE  [Promise!Next]_(Promise!vars)
  <2>1. UNCHANGED <<attempt, calls, mailed>> BY <1>4 DEF MarkUnknown, rest
  <2>2. j \in Jobs BY <1>4 DEF IInv, RecoveryInv, Acting, Abandoned, MarkUnknown
  <2>3. CASE job[j].status = "processing"
    <3> DEFINE r == [job[j] EXCEPT !.status = "delivery_unknown"]
    <3>1. job' = [job EXCEPT ![j] = r] BY <1>4, <2>3 DEF MarkUnknown
    <3>2. r.status = "delivery_unknown" BY <1>1, <2>2 DEF TypeOK, JobRow
    <3> HIDE DEF r
    <3>3. /\ Life' = [Life EXCEPT ![j] = Phase(j)'] /\ Notified' = Notified /\ job'[j] = r
      BY <1>1, <2>1, <2>2, <3>1, Advances
    <3>4. Phase(j)' = "delivery_unknown" /\ Phase(j) \in {"open", "calling"}
      BY <2>3, <3>2, <3>3 DEF Phase, Terminal
    <3>5. Promise!Lost(j) BY <2>2, <3>3, <3>4 DEF Promise!Lost, Life
    <3> QED BY <2>2, <3>5 DEF Promise!Next
  <2>4. CASE job[j].status # "processing"
    <3>1. job' = job BY <1>4, <2>4 DEF MarkUnknown
    <3> QED BY <1>1, <2>1, <3>1, Stutters
  <2> QED BY <2>3, <2>4
<1>5. ASSUME NEW j, NEW a, j = poll[p].current.job, a = poll[p].current.attempt, Requeue(p)
      PROVE  UNCHANGED Promise!vars
  <2>1. UNCHANGED <<attempt, calls, mailed>> BY <1>5 DEF Requeue, rest
  <2>2. j \in Jobs /\ ~attempt[a].invoked
    BY <1>5 DEF IInv, RecoveryInv, Acting, Abandoned, Requeue
  <2>3. CASE job' = job BY <1>1, <2>1, <2>3, Stutters
  <2>4. CASE job' # job
    <3> DEFINE status == IF poll[p].current.retryCount = 0 /\ j \notin Legacy THEN "waiting" ELSE "queued"
               r == [job[j] EXCEPT !.status = status, !.claimAge = None, !.claim = None]
    <3>1. /\ job' = [job EXCEPT ![j] = r]
          /\ job[j].status = "processing" /\ job[j].claim = a
      BY <1>5, <2>4 DEF Requeue
    <3>2. r.status \in {"waiting", "queued"} BY <1>1, <2>2 DEF TypeOK, JobRow
    <3> HIDE DEF r
    <3>3. /\ Life' = [Life EXCEPT ![j] = Phase(j)'] /\ Notified' = Notified /\ job'[j] = r
      BY <1>1, <2>1, <2>2, <3>1, Advances
    <3>4. a \notin calls BY <2>2 DEF IInv, CallInv
    <3>5. Phase(j)' = "open" /\ Phase(j) = "open"
      BY <3>1, <3>2, <3>3, <3>4 DEF Phase, Terminal
    <3> QED BY <3>3, <3>5 DEF Promise!vars, Life
  <2> QED BY <2>3, <2>4
<1>6. ASSUME NEW a, a = poll[p].current.attempt, CloseRecovered(p)
      PROVE  UNCHANGED Promise!vars
  <2> DEFINE status == IF poll[p].phase = "closing_unknown" THEN "delivery_unknown" ELSE "abandoned"
             b == [attempt[a] EXCEPT !.status = status, !.completed = TRUE]
  <2>1. UNCHANGED <<job, calls, mailed>> /\ attempt' = [attempt EXCEPT ![a] = b]
    BY <1>6 DEF CloseRecovered, rest
  <2>2. a \in Attempts BY <1>6 DEF IInv, RecoveryInv, Acting, Abandoned, CloseRecovered
  <2>3. b.job = attempt[a].job BY <1>1, <2>2 DEF TypeOK, AttemptRow
  <2> HIDE DEF b
  <2>4. \A i \in mailed : attempt'[i].job = attempt[i].job BY <1>1, <2>1, <2>2, <2>3 DEF TypeOK
  <2> QED BY <1>1, <2>1, <2>4, Stutters
<1> QED BY <1>2, <1>3, <1>4, <1>5, <1>6 DEF Recovery

LEMMA EnvironmentPromise ==
  ASSUME IInv, Environment
  PROVE  [Promise!Next]_(Promise!vars)
<1>1. TypeOK BY DEF IInv
<1>2. ASSUME UNCHANGED <<job, attempt, calls, mailed>> PROVE UNCHANGED Promise!vars
  BY <1>1, <1>2, Stutters
<1>3. ASSUME NEW j \in Jobs, FinishCancel(j) PROVE [Promise!Next]_(Promise!vars)
  <2>1. CASE Cancelable(j)
    <3> DEFINE r == [job[j] EXCEPT !.status = "canceled"]
    <3>1. job' = [job EXCEPT ![j] = r] /\ UNCHANGED <<attempt, calls, mailed>>
      BY <1>3, <2>1 DEF FinishCancel, Cancelable
    <3>2. r.status = "canceled" /\ job[j].status = "waiting"
      BY <1>1, <2>1 DEF TypeOK, JobRow, Cancelable
    <3> HIDE DEF r
    <3>3. /\ Life' = [Life EXCEPT ![j] = Phase(j)'] /\ Notified' = Notified /\ job'[j] = r
      BY <1>1, <3>1, Advances
    <3>4. Phase(j)' = "canceled" /\ Phase(j) = "open" BY <3>2, <3>3 DEF Phase, Terminal
    <3>5. Promise!Cancel(j) BY <3>3, <3>4 DEF Promise!Cancel, Life
    <3> QED BY <3>5 DEF Promise!Next
  <2>2. CASE ~Cancelable(j)
    <3>1. UNCHANGED <<job, attempt, calls, mailed>> BY <1>3, <2>2 DEF FinishCancel, Cancelable
    <3> QED BY <3>1, <1>2
  <2> QED BY <2>1, <2>2
<1>4. ASSUME NEW to \in LocationStatus, CloseLocation(to) PROVE [Promise!Next]_(Promise!vars)
  <2> DEFINE S == {j \in Jobs : job[j].status = "queued"}
  <2>1. /\ job' = [j \in Jobs |-> IF j \in S THEN [job[j] EXCEPT !.status = "failed"] ELSE job[j]]
        /\ UNCHANGED <<attempt, calls, mailed>>
    BY <1>4 DEF CloseLocation, FailsOnClose
  <2>2. ASSUME NEW j \in S PROVE Phase(j) = "open" /\ Phase(j)' = "failed"
    <3>1. job'[j].status = "failed" BY <1>1, <2>1 DEF TypeOK, JobRow
    <3> QED BY <3>1 DEF Phase, Terminal
  <2>3. ASSUME NEW j \in Jobs \ S PROVE Phase(j)' = Phase(j)
    BY <2>1 DEF Phase
  <2>4. Notified' = Notified BY <1>1, <2>1, SameNotified
  <2>5. S \in SUBSET Jobs OBVIOUS
  <2>6. Promise!GiveUp(S)
    <3>1. \A j \in S : Life[j] = "open" BY <2>2 DEF Life
    <3>2. Life' = [j \in Jobs |-> IF j \in S THEN "failed" ELSE Life[j]] BY <2>2, <2>3 DEF Life
    <3> QED BY <2>4, <3>1, <3>2 DEF Promise!GiveUp
  <2> QED BY <2>5, <2>6 DEF Promise!Next
<1>5. ASSUME NEW j \in Jobs, BeginCancel(j) PROVE UNCHANGED Promise!vars
  BY <1>2, <1>5 DEF BeginCancel
<1>6. ASSUME NEW to \in LocationStatus, ReopenLocation(to) PROVE UNCHANGED Promise!vars
  BY <1>2, <1>6 DEF ReopenLocation
<1> QED BY <1>3, <1>4, <1>5, <1>6 DEF Environment

LEMMA OthersPromise ==
  ASSUME IInv, \/ UNCHANGED vars
               \/ \E p \in Pollers : Skipping(p)
               \/ \E w \in Workers : Fail(w)
               \/ Tick
  PROVE  UNCHANGED Promise!vars
<1>1. TypeOK BY DEF IInv
<1>2. CASE Tick
  <2>1. ASSUME NEW j \in Jobs
        PROVE  job'[j].status = job[j].status /\ job'[j].claim = job[j].claim
    <3>1. job[j] \in JobRow BY <1>1 DEF TypeOK
    <3>2. job'[j] = JobLater(job[j]) BY <1>2 DEF Tick
    <3> QED BY <3>1, <3>2 DEF JobLater, JobRow
  <2>2. UNCHANGED <<attempt, calls, mailed>> BY <1>2 DEF Tick
  <2> QED BY <1>1, <2>1, <2>2, Stutters
<1>3. CASE UNCHANGED vars
  <2>1. UNCHANGED <<job, attempt, calls, mailed>> BY <1>3 DEF vars
  <2> QED BY <1>1, <2>1, Stutters
<1>4. ASSUME NEW p \in Pollers, NEW j \in Jobs, NotClaimed(p, j) PROVE UNCHANGED Promise!vars
  <2>1. UNCHANGED <<job, attempt, calls, mailed>> BY <1>4 DEF NotClaimed, rest
  <2> QED BY <1>1, <2>1, Stutters
<1>5. ASSUME NEW w \in Workers, Fail(w) PROVE UNCHANGED Promise!vars
  <2>1. UNCHANGED <<job, attempt, calls, mailed>> BY <1>5 DEF Fail
  <2> QED BY <1>1, <2>1, Stutters
<1> QED BY <1>2, <1>3, <1>4, <1>5 DEF Skipping

LEMMA NextKeepsPromise == IInv /\ IInv' /\ [Next]_vars => [Promise!Next]_(Promise!vars)
<1> SUFFICES ASSUME IInv, IInv', [Next]_vars PROVE [Promise!Next]_(Promise!vars) OBVIOUS
<1>1. ASSUME NEW w \in Workers, Claiming(w) PROVE UNCHANGED Promise!vars
  BY <1>1, ClaimPromise DEF Claiming
<1>2. ASSUME NEW w \in Workers, Handling(w) PROVE [Promise!Next]_(Promise!vars)
  BY <1>2, HandlingPromise
<1> QED BY <1>1, <1>2, RecoveryPromise, EnvironmentPromise, OthersPromise DEF Next

\* Delivery implements the abstract life of a job: open until it is canceled,
\* given up or called, and reopened only by a call the provider refused.
THEOREM Refinement == ASSUME Prompt PROVE Spec => KeepsPromise
<1>1. Init => Promise!Init
  <2> SUFFICES ASSUME Init PROVE Promise!Init OBVIOUS
  <2>1. \A j \in Jobs : Phase(j) = "open" BY DEF Init, NewJob, Phase, Terminal
  <2>2. Notified = {} BY DEF Init, Notified
  <2> QED BY <2>1, <2>2 DEF Promise!Init, Life
<1>2. IInv /\ IInv' /\ [Next]_vars => [Promise!Next]_(Promise!vars) BY NextKeepsPromise
<1> QED BY <1>1, <1>2, Invariance, PTL DEF Spec, KeepsPromise, Promise!Spec

LEMMA TerminalStep ==
  ASSUME IInv, IInv', [Next]_vars, NEW j \in Jobs, job[j].status \in Terminal
  PROVE  job'[j].status = job[j].status
<1>1. Life[j] = job[j].status BY DEF Life, Phase
<1>2. Life'[j] = Life[j]
  <2>1. [Promise!Next]_(Promise!vars) BY NextKeepsPromise
  <2> QED BY <1>1, <2>1 DEF Promise!Next, Promise!vars, Promise!Cancel, Promise!GiveUp,
          Promise!Call, Promise!Refused, Promise!Accepted, Promise!Lost, Life, Terminal
<1>3. Life'[j] = Phase(j)' BY DEF Life
<1> QED BY <1>1, <1>2, <1>3 DEF Phase, Terminal

\* Whether or not a worker outlives its claim: nothing but the write of a worker
\* that still handles the job leaves a terminal status.
THEOREM OnlyLateWrites == Spec => TerminalLeftLate
<1> DEFINE Late == \A j \in Jobs : job[j].status \in Terminal /\ job'[j].status # job[j].status =>
                     \E w \in Workers : Handles(w, j) /\ Handling(w)
<1>1. ASSUME TypeOK, [Next]_vars, NEW j \in Jobs,
             job[j].status \in Terminal, job'[j].status # job[j].status
      PROVE  \E w \in Workers : Handles(w, j) /\ Handling(w)
  <2>0. job[j].status \notin {"waiting", "queued", "processing"} /\ job \in [Jobs -> JobRow]
    BY <1>1 DEF Terminal, TypeOK
  <2>1. CASE UNCHANGED vars
    BY <1>1, <2>1 DEF vars
  <2>2. ASSUME NEW p \in Pollers, Recovery(p) PROVE FALSE
    <3> DEFINE i == poll[p].current.job
    <3>1. ASSUME NEW x, job[i].status = "processing", job' = [job EXCEPT ![i] = x] PROVE FALSE
      BY <1>1, <2>0, <3>1
    <3>2. CASE MarkUnknown(p) \/ Requeue(p)
      <4> DEFINE marked == [job[i] EXCEPT !.status = "delivery_unknown"]
                 back == [job[i] EXCEPT
                   !.status = IF poll[p].current.retryCount = 0 /\ i \notin Legacy THEN "waiting" ELSE "queued",
                   !.claimAge = None, !.claim = None]
      <4>1. CASE MarkUnknown(p)
        <5>1. job' = job \/ (job[i].status = "processing" /\ job' = [job EXCEPT ![i] = marked])
          BY <4>1 DEF MarkUnknown
        <5> HIDE DEF marked, i
        <5> QED BY <1>1, <3>1, <5>1
      <4>2. CASE Requeue(p)
        <5>1. job' = job \/ (job[i].status = "processing" /\ job' = [job EXCEPT ![i] = back])
          BY <4>2 DEF Requeue
        <5> HIDE DEF back, i
        <5> QED BY <1>1, <3>1, <5>1
      <4> QED BY <3>2, <4>1, <4>2
    <3>3. CASE ~(MarkUnknown(p) \/ Requeue(p))
      BY <1>1, <2>2, <3>3 DEF Recovery, BeginPoll, InspectClaim, CloseRecovered, ReadDue, EndPoll
    <3> QED BY <3>2, <3>3
  <2>3. ASSUME NEW w \in Workers, Claiming(w) PROVE FALSE
    <3>1. PICK i \in Jobs, a \in FreshAttempts : Claim(w, i, a)
      BY <2>3 DEF Claiming
    <3>2. i # j
      BY <2>0, <3>1 DEF Claim, Claimable, WindowOver, RetryDue, LegacyDue
    <3> QED BY <1>1, <2>0, <3>1, <3>2 DEF Claim
  <2>4. ASSUME NEW w \in Workers, Handling(w) PROVE Handles(w, j)
    <3> DEFINE i == worker[w].job
    <3>1. job' = job \/ \E x : job' = [job EXCEPT ![i] = x]
      <4>1. CASE BlockClaimed(w)
        BY <4>1 DEF BlockClaimed
      <4>2. CASE Defer(w)
        BY <4>2 DEF Defer
      <4>3. CASE RecordAccepted(w)
        BY <4>3 DEF RecordAccepted
      <4>4. CASE RecordFinal(w)
        BY <4>4 DEF RecordFinal
      <4>5. CASE RecordRetry(w)
        BY <4>5 DEF RecordRetry
      <4> QED BY <2>4, <4>1, <4>2, <4>3, <4>4, <4>5 DEF Handling, CheckGates, Invoke, CallProvider, Answer
    <3>2. worker[w].pc # "idle"
      BY <2>4 DEF Handling, At, CheckGates, BlockClaimed, Defer, Invoke, CallProvider, Answer,
                  RecordAccepted, RecordFinal, RecordRetry
    <3>3. i = j
      BY <1>1, <2>0, <3>1
    <3> QED BY <3>2, <3>3 DEF Handles
  <2>5. CASE Environment
    <3>1. ASSUME NEW i \in Jobs, FinishCancel(i) PROVE FALSE
      BY <1>1, <2>0, <3>1 DEF FinishCancel, Cancelable
    <3>2. ASSUME NEW to \in LocationStatus, CloseLocation(to) PROVE FALSE
      BY <1>1, <2>0, <3>2 DEF CloseLocation, FailsOnClose
    <3>3. CASE UNCHANGED job
      BY <1>1, <3>3
    <3> QED BY <2>5, <3>1, <3>2, <3>3 DEF Environment, BeginCancel, ReopenLocation
  <2>6. CASE Tick
    <3>1. job'[j] = JobLater(job[j])
      BY <2>6 DEF Tick
    <3>2. JobLater(job[j]).status = job[j].status
      BY <2>0 DEF JobLater, JobRow
    <3> QED BY <1>1, <3>1, <3>2
  <2>7. CASE UNCHANGED job
    BY <1>1, <2>7
  <2> QED BY <1>1, <2>1, <2>2, <2>3, <2>4, <2>5, <2>6, <2>7 DEF Next, Skipping, NotClaimed, Fail
<1>2. TypeOK /\ [Next]_vars => [Late]_vars
  BY <1>1
<1> QED BY <1>2, TypeCorrect, PTL DEF Spec, TerminalLeftLate

-----------------------------------------------------------------------------
(***************************************************************************)
(* The budget of retries. A refusal is recorded in the step that counts    *)
(* it, by the worker that holds the job's claim, whose count is the job's. *)
(* What a recovery closes was never refused: nobody held it when its claim *)
(* became stale, and nobody has since.                                     *)
(***************************************************************************)
RefusalStatus == {"retry_scheduled", "failed"}
Refused(row) == \/ row.status = "retry_scheduled"
                \/ row.status = "failed" /\ ~row.closed

\* An attempt is refused and closed only when it is over.
RefusedIsDone ==
  \A a \in Attempts : attempt[a].status \in RefusalStatus \/ attempt[a].closed
    => attempt[a].completed

NotRefused(s) == attempt[s.attempt].status \notin RefusalStatus

RecoversUnrefused ==
  \A p \in Pollers : /\ \A s \in poll[p].stale : NotRefused(s)
                     /\ poll[p].phase \in Acting => NotRefused(poll[p].current)

Counted ==
  \A j \in Jobs : IsFiniteSet(Refusals(j)) /\ job[j].retryCount = Cardinality(Refusals(j))

\* Only a job that has failed has used up more than the delays there are.
Budget == Cardinality(DOMAIN RetryDelay)
WithinBudget(r) == r.retryCount <= (IF r.status \in Terminal THEN Budget + 1 ELSE Budget)
RetriesBounded == \A j \in Jobs : WithinBudget(job[j])

CountInv == RefusedIsDone /\ RecoversUnrefused /\ Counted /\ RetriesBounded

LEMMA BudgetIsNumber == Budget \in Nat
BY RetriesAssumption, FS_CardinalityType DEF Budget

LEMMA RefusalsAre == \A j : Refusals(j) = {a \in Attempts : attempt[a].job = j /\ Refused(attempt[a])}
BY DEF Refusals, AttemptsOf, Refused

\* Attempts that are rewritten and are not refusals, before or after, do not count.
LEMMA CountStays ==
  ASSUME Counted, \A j \in Jobs : job'[j].retryCount = job[j].retryCount,
         \A a \in Attempts : attempt'[a] = attempt[a] \/ (~Refused(attempt[a]) /\ ~Refused(attempt'[a]))
  PROVE  Counted'
<1>1. ASSUME NEW j \in Jobs PROVE Refusals(j)' = Refusals(j)
  <2>1. \A a \in Attempts : attempt'[a] = attempt[a] => (Refused(attempt'[a]) <=> Refused(attempt[a]))
    BY DEF Refused
  <2>2. Refusals(j)' = {a \in Attempts : attempt'[a].job = j /\ Refused(attempt'[a])}
    BY DEF Refusals, AttemptsOf, Refused
  <2> QED BY <2>1, <2>2, RefusalsAre
<1> QED BY <1>1 DEF Counted

\* Statements that write nothing to attempts, and no count.
LEMMA RowsStay ==
  ASSUME CountInv, attempt' = attempt, RecoversUnrefused',
         \A j \in Jobs : job'[j].retryCount = job[j].retryCount,
         \A j \in Jobs : job[j].status \in Terminal => job'[j].status \in Terminal,
         \A j \in Jobs : job[j].retryCount \in Nat
  PROVE  CountInv'
<1>1. RefusedIsDone'
  BY DEF CountInv, RefusedIsDone
<1>2. Counted'
  BY CountStays DEF CountInv
<1>3. RetriesBounded'
  BY BudgetIsNumber DEF CountInv, RetriesBounded, WithinBudget
<1> QED BY <1>1, <1>2, <1>3 DEF CountInv

LEMMA CountsAreNumbers ==
  ASSUME TypeOK
  PROVE  /\ \A j \in Jobs : job[j] \in JobRow /\ job[j].retryCount \in Nat
         /\ \A a \in Attempts : attempt[a] \in AttemptRow
         /\ \A p \in Pollers : poll[p] \in PollState
         /\ DOMAIN job = Jobs /\ DOMAIN attempt = Attempts /\ DOMAIN poll = Pollers
BY DEF TypeOK, JobRow

-----------------------------------------------------------------------------
(***************************************************************************)
(* Workers.                                                                *)
(***************************************************************************)
\* A handler ends without a refusal, or an attempt goes on.
LEMMA UnrefusedKeeps ==
  ASSUME IInv, CountInv, NEW w \in Workers, Live(w), NEW r, NEW b,
         job' = [job EXCEPT ![worker[w].job] = r],
         attempt' = [attempt EXCEPT ![worker[w].attempt] = b],
         poll' = poll,
         r.retryCount = job[worker[w].job].retryCount,
         b.status \notin RefusalStatus \/ (b.status = "failed" /\ b.closed),
         b.closed => b.completed
  PROVE  CountInv'
<1> DEFINE j == worker[w].job
           a == worker[w].attempt
<1>1. /\ j \in Jobs /\ a \in Attempts
      /\ job[j].status = "processing" /\ ~attempt[a].completed
  BY LiveFacts
<1>2. TypeOK /\ RecoveryInv
  BY DEF IInv
<1>3. ~Refused(attempt[a]) /\ attempt[a].status \notin RefusalStatus /\ ~attempt[a].closed
  BY <1>1 DEF CountInv, RefusedIsDone, Refused, RefusalStatus
<1>4. attempt'[a] = b /\ \A c \in Attempts \ {a} : attempt'[c] = attempt[c]
  BY <1>1, <1>2, CountsAreNumbers
<1>5. job'[j] = r /\ \A i \in Jobs \ {j} : job'[i] = job[i]
  BY <1>1, <1>2, CountsAreNumbers
<1>6. ~Refused(attempt'[a])
  BY <1>4 DEF Refused, RefusalStatus
<1>7. RefusedIsDone'
  BY <1>4 DEF CountInv, RefusedIsDone
<1>8. Counted'
  <2>1. \A i \in Jobs : job'[i].retryCount = job[i].retryCount
    BY <1>5
  <2>2. \A c \in Attempts : attempt'[c] = attempt[c] \/ (~Refused(attempt[c]) /\ ~Refused(attempt'[c]))
    BY <1>3, <1>4, <1>6
  <2> QED BY <2>1, <2>2, CountStays DEF CountInv
<1>9. RetriesBounded'
  <2>1. job[j].retryCount \in Nat /\ job[j].retryCount <= Budget
    BY <1>1, <1>2, CountsAreNumbers DEF CountInv, RetriesBounded, WithinBudget, Terminal
  <2>2. WithinBudget(job'[j])
    BY <1>5, <2>1, BudgetIsNumber DEF WithinBudget
  <2> QED BY <1>5, <2>2 DEF CountInv, RetriesBounded
<1>10. RecoversUnrefused'
  <2>1. ASSUME NEW s, Abandoned(s), NotRefused(s) PROVE NotRefused(s)'
    <3>1. s.attempt \in Attempts \ {a}
      BY <2>1 DEF Abandoned
    <3> QED BY <1>4, <2>1, <3>1 DEF NotRefused
  <2> QED BY <1>2, <2>1 DEF CountInv, RecoversUnrefused, RecoveryInv
<1> QED BY <1>7, <1>8, <1>9, <1>10 DEF CountInv

\* The worker's count is the job's, and its attempt becomes a refusal as it is counted.
LEMMA RefusedKeeps ==
  ASSUME IInv, CountInv, NEW w \in Workers, RecordRetry(w)
  PROVE  CountInv'
<1> DEFINE j == worker[w].job
           a == worker[w].attempt
           n == worker[w].retryCount
           again == n \in DOMAIN RetryDelay
           r == [job[j] EXCEPT !.status = IF again THEN "queued" ELSE "failed",
                               !.retryCount = NextRetryCount(n),
                               !.scheduledAt = IF again THEN RetryDelay[n] ELSE None]
           b == [attempt[a] EXCEPT !.status = IF again THEN "retry_scheduled" ELSE "failed",
                                   !.completed = TRUE]
<1>1. Live(w)
  BY DEF RecordRetry, At, Live
<1>2. /\ j \in Jobs /\ a \in Attempts /\ n \in Nat
      /\ job[j] \in JobRow /\ attempt[a] \in AttemptRow
      /\ job[j].status = "processing" /\ ~attempt[a].completed
      /\ job[j].retryCount = n /\ attempt[a].job = j
  BY <1>1, LiveFacts
<1>3. TypeOK /\ RecoveryInv
  BY DEF IInv
<1>4. attempt[a].status \notin RefusalStatus /\ ~attempt[a].closed
  BY <1>2 DEF CountInv, RefusedIsDone
<1>5. /\ b.status = (IF again THEN "retry_scheduled" ELSE "failed")
      /\ b.completed /\ ~b.closed /\ b.job = j
  BY <1>2, <1>4 DEF AttemptRow
<1>6. r.status = (IF again THEN "queued" ELSE "failed") /\ r.retryCount = n + 1
  BY <1>2 DEF JobRow, NextRetryCount
<1>7. /\ job' = [job EXCEPT ![j] = r] /\ attempt' = [attempt EXCEPT ![a] = b]
      /\ poll' = poll
  BY DEF RecordRetry
<1>8. attempt'[a] = b /\ \A c \in Attempts \ {a} : attempt'[c] = attempt[c]
  BY <1>2, <1>3, <1>7, CountsAreNumbers
<1>9. job'[j] = r /\ \A i \in Jobs \ {j} : job'[i] = job[i]
  BY <1>2, <1>3, <1>7, CountsAreNumbers
<1> HIDE DEF r, b
<1>10. RefusedIsDone'
  BY <1>5, <1>8 DEF CountInv, RefusedIsDone
<1>11. Counted'
  <2>1. Refused(attempt'[a]) /\ ~Refused(attempt[a])
    BY <1>4, <1>5, <1>8 DEF Refused, RefusalStatus
  <2>2. \A c \in Attempts \ {a} : Refused(attempt'[c]) <=> Refused(attempt[c])
    BY <1>8 DEF Refused
  <2>3. \A i \in Jobs : Refusals(i)' = {c \in Attempts : attempt'[c].job = i /\ Refused(attempt'[c])}
    BY DEF Refusals, AttemptsOf, Refused
  <2>4. a \notin Refusals(j)
    BY <2>1, RefusalsAre
  <2>5. ASSUME NEW i \in Jobs
        PROVE  Refusals(i)' = IF i = j THEN Refusals(i) \cup {a} ELSE Refusals(i)
    <3>1. \A c \in Attempts \ {a} :
            attempt'[c].job = i /\ Refused(attempt'[c]) <=> attempt[c].job = i /\ Refused(attempt[c])
      BY <1>8, <2>2
    <3>2. attempt'[a].job = j
      BY <1>5, <1>8
    <3>3. Refusals(i)' = {c \in Attempts : attempt'[c].job = i /\ Refused(attempt'[c])}
      BY <2>3
    <3>4. Refusals(i) = {c \in Attempts : attempt[c].job = i /\ Refused(attempt[c])}
      BY RefusalsAre
    <3>5. CASE i = j
      BY <1>2, <2>1, <3>1, <3>2, <3>3, <3>4, <3>5
    <3>6. CASE i # j
      BY <1>2, <2>1, <3>1, <3>2, <3>3, <3>4, <3>6
    <3> QED BY <3>5, <3>6
  <2>6. IsFiniteSet(Refusals(j)) /\ n = Cardinality(Refusals(j))
    BY <1>2 DEF CountInv, Counted
  <2>7. IsFiniteSet(Refusals(j) \cup {a}) /\ Cardinality(Refusals(j) \cup {a}) = n + 1
    BY <2>4, <2>6, FS_AddElement
  <2>8. ASSUME NEW i \in Jobs
        PROVE  IsFiniteSet(Refusals(i)') /\ job'[i].retryCount = Cardinality(Refusals(i)')
    <3>1. CASE i = j
      BY <1>6, <1>9, <2>5, <2>7, <3>1
    <3>2. CASE i # j
      BY <1>9, <2>5, <3>2 DEF CountInv, Counted
    <3> QED BY <3>1, <3>2
  <2> QED BY <2>8 DEF Counted
<1>12. RetriesBounded'
  <2>1. n <= Budget
    BY <1>2 DEF CountInv, RetriesBounded, WithinBudget, Terminal
  <2>2. again => n < Budget
    BY RetriesAssumption DEF Budget
  <2>3. WithinBudget(r)
    BY <1>2, <1>6, <2>1, <2>2, BudgetIsNumber DEF WithinBudget, Terminal
  <2> QED BY <1>9, <2>3 DEF CountInv, RetriesBounded
<1>13. RecoversUnrefused'
  <2>1. ASSUME NEW s, Abandoned(s), NotRefused(s) PROVE NotRefused(s)'
    <3>1. s.attempt \in Attempts \ {a}
      BY <1>1, <2>1 DEF Abandoned
    <3> QED BY <1>8, <2>1, <3>1 DEF NotRefused
  <2> QED BY <1>3, <1>7, <2>1 DEF CountInv, RecoversUnrefused, RecoveryInv
<1> QED BY <1>10, <1>11, <1>12, <1>13 DEF CountInv

\* Steps of a worker that write to no row.
LEMMA NothingWritten ==
  ASSUME IInv, CountInv, UNCHANGED <<job, attempt, poll>>
  PROVE  CountInv'
BY DEF CountInv, RefusedIsDone, RecoversUnrefused, NotRefused, Counted, Refusals, AttemptsOf,
       RetriesBounded

LEMMA HandlingCounts ==
  ASSUME IInv, CountInv, NEW w \in Workers, Handling(w)
  PROVE  CountInv'
<1> DEFINE j == worker[w].job
           a == worker[w].attempt
<1>1. ASSUME Live(w) PROVE job[j] \in JobRow /\ attempt[a] \in AttemptRow /\ ~attempt[a].closed
  BY <1>1, LiveFacts DEF CountInv, RefusedIsDone
<1>2. CASE CheckGates(w) \/ (\E accepted \in BOOLEAN : CallProvider(w, accepted))
             \/ (\E outcome \in Outcomes : Answer(w, outcome))
  <2>1. UNCHANGED <<job, attempt, poll>>
    BY <1>2 DEF CheckGates, CallProvider, Answer
  <2> QED BY <2>1, NothingWritten
<1>3. CASE BlockClaimed(w)
  <2> DEFINE r == [job[j] EXCEPT !.status = "failed", !.scheduledAt = None]
             b == [attempt[a] EXCEPT !.status = "blocked", !.completed = TRUE]
  <2>1. Live(w)
    BY <1>3 DEF BlockClaimed, At, Live
  <2>2. r.retryCount = job[j].retryCount /\ b.status = "blocked" /\ b.completed
    BY <1>1, <2>1 DEF JobRow, AttemptRow
  <2>3. job' = [job EXCEPT ![j] = r] /\ attempt' = [attempt EXCEPT ![a] = b] /\ poll' = poll
    BY <1>3 DEF BlockClaimed
  <2> HIDE DEF r, b
  <2> QED BY <2>1, <2>2, <2>3, UnrefusedKeeps DEF RefusalStatus
<1>4. CASE Defer(w)
  <2> DEFINE r == DeferredRow(job[j])
             b == [attempt[a] EXCEPT !.status = "deferred", !.completed = TRUE]
  <2>1. Live(w)
    BY <1>4 DEF Defer, At, Live
  <2>2. r.retryCount = job[j].retryCount /\ b.status = "deferred" /\ b.completed
    BY <1>1, <2>1 DEF JobRow, AttemptRow, DeferredRow
  <2>3. job' = [job EXCEPT ![j] = r] /\ attempt' = [attempt EXCEPT ![a] = b] /\ poll' = poll
    BY <1>4 DEF Defer
  <2> HIDE DEF r, b
  <2> QED BY <2>1, <2>2, <2>3, UnrefusedKeeps DEF RefusalStatus
<1>5. CASE Invoke(w)
  <2> DEFINE b == InvokedRow(attempt[a])
  <2>1. Live(w)
    BY <1>5 DEF Invoke, At, Live
  <2>2. b.status = "invoked" /\ ~b.closed
    BY <1>1, <2>1 DEF AttemptRow, InvokedRow
  <2>3. job' = [job EXCEPT ![j] = job[j]] /\ attempt' = [attempt EXCEPT ![a] = b] /\ poll' = poll
    <3>1. job' = job /\ attempt' = [attempt EXCEPT ![a] = b] /\ poll' = poll
      BY <1>5 DEF Invoke
    <3>2. job \in [Jobs -> JobRow]
      BY DEF IInv, TypeOK
    <3>3. job = [job EXCEPT ![j] = job[j]]
      BY <3>2
    <3> QED BY <3>1, <3>3
  <2> HIDE DEF b
  <2> QED BY <2>1, <2>2, <2>3, UnrefusedKeeps DEF RefusalStatus
<1>6. CASE RecordAccepted(w)
  <2> DEFINE r == [job[j] EXCEPT !.status = "sent", !.scheduledAt = None]
             b == [attempt[a] EXCEPT !.status = "succeeded", !.completed = TRUE]
  <2>1. Live(w)
    BY <1>6 DEF RecordAccepted, At, Live
  <2>2. r.retryCount = job[j].retryCount /\ b.status = "succeeded" /\ b.completed
    BY <1>1, <2>1 DEF JobRow, AttemptRow
  <2>3. job' = [job EXCEPT ![j] = r] /\ attempt' = [attempt EXCEPT ![a] = b] /\ poll' = poll
    BY <1>6 DEF RecordAccepted
  <2> HIDE DEF r, b
  <2> QED BY <2>1, <2>2, <2>3, UnrefusedKeeps DEF RefusalStatus
<1>7. CASE RecordFinal(w)
  <2> DEFINE status == IF worker[w].outcome = "unknown" THEN "delivery_unknown" ELSE "failed"
             r == [job[j] EXCEPT !.status = status, !.scheduledAt = None]
             b == [attempt[a] EXCEPT !.status = status, !.completed = TRUE, !.closed = TRUE]
  <2>1. Live(w)
    BY <1>7 DEF RecordFinal, At, Live
  <2>2. r.retryCount = job[j].retryCount /\ b.status = status /\ b.completed /\ b.closed
    BY <1>1, <2>1 DEF JobRow, AttemptRow
  <2>3. job' = [job EXCEPT ![j] = r] /\ attempt' = [attempt EXCEPT ![a] = b] /\ poll' = poll
    BY <1>7 DEF RecordFinal
  <2>4. status \in {"delivery_unknown", "failed"}
    OBVIOUS
  <2> HIDE DEF r, b, status
  <2> QED BY <2>1, <2>2, <2>3, <2>4, UnrefusedKeeps DEF RefusalStatus
<1>8. CASE RecordRetry(w)
  BY <1>8, RefusedKeeps
<1> QED BY <1>2, <1>3, <1>4, <1>5, <1>6, <1>7, <1>8 DEF Handling

\* A fresh attempt, whoever takes it, was no refusal and is none.
LEMMA ClaimCounts ==
  ASSUME IInv, CountInv, NEW w \in Workers, NEW j \in Jobs, NEW a \in FreshAttempts, Claim(w, j, a)
  PROVE  CountInv'
<1> DEFINE r == ClaimedRow(job[j], a)
           b == [attempt[a] EXCEPT !.job = j, !.status = "claimed"]
<1>1. TypeOK /\ RecoveryInv
  BY DEF IInv
<1>2. a \in Attempts /\ attempt[a].status = "unused"
  BY DEF FreshAttempts
<1>3. r.retryCount = job[j].retryCount /\ b.status = "claimed" /\ b.closed = attempt[a].closed
      /\ b.completed = attempt[a].completed
  BY <1>1, <1>2, CountsAreNumbers DEF ClaimedRow, JobRow, AttemptRow
<1>4. job' = [job EXCEPT ![j] = r] /\ attempt' = [attempt EXCEPT ![a] = b]
  BY DEF Claim
<1> HIDE DEF r, b
<1>5. job'[j] = r /\ \A i \in Jobs \ {j} : job'[i] = job[i]
  BY <1>1, <1>4, CountsAreNumbers
<1>6. attempt'[a] = b /\ \A c \in Attempts \ {a} : attempt'[c] = attempt[c]
  BY <1>1, <1>2, <1>4, CountsAreNumbers
<1>7. RefusedIsDone'
  BY <1>3, <1>6 DEF CountInv, RefusedIsDone, RefusalStatus
<1>8. Counted'
  <2>1. ~Refused(attempt[a]) /\ ~Refused(attempt'[a])
    BY <1>2, <1>3, <1>6 DEF Refused
  <2> QED BY <1>3, <1>5, <1>6, <2>1, CountStays DEF CountInv
<1>9. RetriesBounded'
  <2>1. job[j].status \notin Terminal
    BY DEF Claim, Claimable, WindowOver, RetryDue, LegacyDue, Terminal
  <2>2. job[j].retryCount \in Nat /\ job[j].retryCount <= Budget
    BY <1>1, <2>1, CountsAreNumbers DEF CountInv, RetriesBounded, WithinBudget
  <2>3. WithinBudget(r)
    BY <1>3, <2>2, BudgetIsNumber DEF WithinBudget
  <2> QED BY <1>5, <2>3 DEF CountInv, RetriesBounded
<1>10. RecoversUnrefused'
  <2>1. \A p \in Pollers : /\ poll'[p].stale = poll[p].stale /\ poll'[p].phase = poll[p].phase
                           /\ poll'[p].current = poll[p].current
    BY <1>1, CountsAreNumbers DEF Claim, Taken, PollState
  <2>2. ASSUME NEW s, Abandoned(s), NotRefused(s) PROVE NotRefused(s)'
    BY <1>3, <1>6, <2>2 DEF Abandoned, NotRefused, RefusalStatus
  <2> QED BY <1>1, <2>1, <2>2 DEF CountInv, RecoversUnrefused, RecoveryInv
<1> QED BY <1>7, <1>8, <1>9, <1>10 DEF CountInv

-----------------------------------------------------------------------------
(***************************************************************************)
(* Recoveries.                                                             *)
(***************************************************************************)
LEMMA RecoveryCounts ==
  ASSUME IInv, IInv', CountInv, NEW p \in Pollers, Recovery(p),
         \A j \in Jobs : job[j].status \in Terminal => job'[j].status = job[j].status
  PROVE  CountInv'
<1>1. TypeOK /\ RecoveryInv /\ ClaimInv
  BY DEF IInv
<1>2. poll[p] \in PollState /\ \A j \in Jobs : job[j] \in JobRow /\ job[j].retryCount \in Nat
  BY <1>1, CountsAreNumbers
<1>3. ASSUME attempt' = attempt, RecoversUnrefused',
             \A j \in Jobs : job'[j].retryCount = job[j].retryCount
      PROVE  CountInv'
  BY <1>2, <1>3, RowsStay
<1>4. ASSUME attempt' = attempt, \A q \in Pollers \ {p} : poll'[q] = poll[q],
             \A s \in poll'[p].stale : NotRefused(s),
             poll'[p].phase \in Acting => NotRefused(poll'[p].current)
      PROVE  RecoversUnrefused'
  <2>1. \A s : NotRefused(s) => NotRefused(s)'
    BY <1>4 DEF NotRefused
  <2> QED BY <1>4, <2>1 DEF CountInv, RecoversUnrefused
<1>5. CASE BeginPoll(p)
  <2>1. ASSUME NEW s \in StaleClaims PROVE NotRefused(s)
    <3>1. PICK j \in Jobs : job[j].status = "processing" /\ s.attempt = job[j].claim
      BY DEF StaleClaims, Stale
    <3>2. job[j].claim \in Attempts /\ ~attempt[job[j].claim].completed
      BY <1>1, <3>1 DEF ClaimInv
    <3> QED BY <3>1, <3>2 DEF NotRefused, CountInv, RefusedIsDone
  <2>2. /\ poll'[p].stale = StaleClaims /\ poll'[p].phase = "recovering"
        /\ \A q \in Pollers \ {p} : poll'[q] = poll[q]
    BY <1>1, <1>5, CountsAreNumbers DEF BeginPoll, NoPoll
  <2>3. attempt' = attempt /\ job' = job
    BY <1>5 DEF BeginPoll
  <2>4. RecoversUnrefused'
    BY <1>4, <2>1, <2>2, <2>3 DEF Acting
  <2> QED BY <1>3, <2>3, <2>4
<1>6. ASSUME NEW s \in poll[p].stale, InspectClaim(p, s) PROVE CountInv'
  <2>1. /\ poll'[p].stale \subseteq poll[p].stale
        /\ poll'[p].phase = Verdict(attempt[s.attempt])
        /\ ~attempt[s.attempt].completed => poll'[p].current = s
        /\ \A q \in Pollers \ {p} : poll'[q] = poll[q]
    BY <1>1, <1>2, <1>6, CountsAreNumbers DEF InspectClaim, PollState
  <2>2. attempt' = attempt /\ job' = job
    BY <1>6 DEF InspectClaim
  <2>3. \A t \in poll[p].stale : NotRefused(t)
    BY DEF CountInv, RecoversUnrefused
  <2>4. poll'[p].phase \in Acting => NotRefused(poll'[p].current)
    BY <2>1, <2>3 DEF Acting, Verdict
  <2>5. RecoversUnrefused'
    BY <1>4, <2>1, <2>2, <2>3, <2>4
  <2> QED BY <1>3, <2>2, <2>5
<1>7. CASE MarkUnknown(p) \/ Requeue(p)
  <2>1. /\ poll'[p].stale \subseteq poll[p].stale
        /\ poll'[p].phase \in Acting => poll'[p].current = poll[p].current /\ poll[p].phase \in Acting
        /\ \A q \in Pollers \ {p} : poll'[q] = poll[q]
    <3>1. CASE MarkUnknown(p)
      BY <1>1, <1>2, <3>1, CountsAreNumbers DEF MarkUnknown, PollState, Acting
    <3>2. CASE Requeue(p)
      BY <1>1, <1>2, <3>2, CountsAreNumbers DEF Requeue, PollState, Acting, NoPoll
    <3> QED BY <1>7, <3>1, <3>2
  <2>2. attempt' = attempt
    BY <1>7 DEF MarkUnknown, Requeue
  <2>3. \A j \in Jobs : job'[j].retryCount = job[j].retryCount
    <3>1. CASE MarkUnknown(p)
      BY <1>1, <1>2, <3>1, CountsAreNumbers DEF MarkUnknown, JobRow
    <3>2. CASE Requeue(p)
      BY <1>1, <1>2, <3>2, CountsAreNumbers DEF Requeue, JobRow
    <3> QED BY <1>7, <3>1, <3>2
  <2>4. RecoversUnrefused'
    BY <1>4, <2>1, <2>2 DEF CountInv, RecoversUnrefused
  <2> QED BY <1>3, <2>2, <2>3, <2>4
<1>8. CASE CloseRecovered(p)
  <2> DEFINE s == poll[p].current
             a == s.attempt
             b == [attempt[a] EXCEPT !.status = IF poll[p].phase = "closing_unknown"
                                                THEN "delivery_unknown" ELSE "abandoned",
                                     !.completed = TRUE]
  <2>1. poll[p].phase \in Acting
    BY <1>8 DEF CloseRecovered, Acting
  <2>2. a \in Attempts /\ NotRefused(s)
    BY <1>1, <2>1 DEF RecoveryInv, Abandoned, CountInv, RecoversUnrefused
  <2>3. attempt[a] \in AttemptRow
    BY <1>1, <2>2, CountsAreNumbers
  <2>4. b.status \in {"delivery_unknown", "abandoned"} /\ b.completed
    BY <2>3 DEF AttemptRow
  <2>5. attempt' = [attempt EXCEPT ![a] = b] /\ job' = job
    BY <1>8 DEF CloseRecovered
  <2> HIDE DEF b
  <2>6. attempt'[a] = b /\ \A c \in Attempts \ {a} : attempt'[c] = attempt[c]
    BY <1>1, <2>2, <2>5, CountsAreNumbers
  <2>7. /\ poll'[p].stale = poll[p].stale /\ poll'[p].phase = "recovering"
        /\ \A q \in Pollers \ {p} : poll'[q] = poll[q]
    BY <1>1, <1>2, <1>8, CountsAreNumbers DEF CloseRecovered, PollState
  <2>8. RefusedIsDone'
    BY <2>4, <2>6 DEF CountInv, RefusedIsDone
  <2>9. Counted'
    <3>1. ~Refused(attempt[a]) /\ ~Refused(attempt'[a])
      BY <2>2, <2>4, <2>6 DEF NotRefused, Refused, RefusalStatus
    <3>2. \A j \in Jobs : job'[j].retryCount = job[j].retryCount
      BY <2>5
    <3>3. \A c \in Attempts : attempt'[c] = attempt[c] \/ (~Refused(attempt[c]) /\ ~Refused(attempt'[c]))
      BY <2>6, <3>1
    <3> QED BY <3>2, <3>3, CountStays DEF CountInv
  <2>10. RetriesBounded'
    BY <2>5 DEF CountInv, RetriesBounded
  <2>11. RecoversUnrefused'
    <3>1. ASSUME NEW t, Abandoned(t), NotRefused(t) PROVE NotRefused(t)'
      BY <2>4, <2>6, <3>1 DEF Abandoned, NotRefused, RefusalStatus
    <3> QED BY <1>1, <2>7, <3>1 DEF CountInv, RecoversUnrefused, RecoveryInv, Acting
  <2> QED BY <2>8, <2>9, <2>10, <2>11 DEF CountInv
<1>9. CASE ReadDue(p) \/ EndPoll(p)
  <2>1. /\ poll'[p].stale \subseteq poll[p].stale /\ poll'[p].phase \notin Acting
        /\ \A q \in Pollers \ {p} : poll'[q] = poll[q]
    <3>1. CASE ReadDue(p)
      BY <1>1, <1>2, <3>1, CountsAreNumbers DEF ReadDue, PollState, Acting
    <3>2. CASE EndPoll(p)
      BY <1>1, <1>2, <3>2, CountsAreNumbers DEF EndPoll, NoPoll, Acting
    <3> QED BY <1>9, <3>1, <3>2
  <2>2. attempt' = attempt /\ job' = job
    BY <1>9 DEF ReadDue, EndPoll
  <2>3. RecoversUnrefused'
    BY <1>4, <2>1, <2>2 DEF CountInv, RecoversUnrefused
  <2> QED BY <1>3, <2>2, <2>3
<1> QED BY <1>5, <1>6, <1>7, <1>8, <1>9 DEF Recovery

-----------------------------------------------------------------------------
(***************************************************************************)
(* Everything else, and the theorem.                                       *)
(***************************************************************************)
LEMMA OthersCount ==
  ASSUME IInv, CountInv,
         \A j \in Jobs : job[j].status \in Terminal => job'[j].status = job[j].status,
         \/ \E q \in Pollers : Skipping(q)
         \/ \E w \in Workers : Fail(w)
         \/ Environment
         \/ Tick
  PROVE  CountInv'
<1>1. TypeOK
  BY DEF IInv
<1>2. \A j \in Jobs : job[j] \in JobRow /\ job[j].retryCount \in Nat
  BY <1>1, CountsAreNumbers
<1>3. attempt' = attempt
  BY DEF Skipping, NotClaimed, Fail, Environment, BeginCancel, FinishCancel, CloseLocation,
         ReopenLocation, Tick
<1>4. \A j \in Jobs : job'[j].retryCount = job[j].retryCount
  <2>1. CASE \E j \in Jobs : FinishCancel(j)
    BY <1>1, <1>2, <2>1, CountsAreNumbers DEF FinishCancel, JobRow
  <2>2. CASE \E to \in LocationStatus : CloseLocation(to)
    BY <1>1, <1>2, <2>2, CountsAreNumbers DEF CloseLocation, JobRow
  <2>3. CASE Tick
    BY <1>1, <1>2, <2>3, CountsAreNumbers DEF Tick, JobLater, JobRow
  <2>4. CASE UNCHANGED job
    BY <2>4
  <2> QED BY <2>1, <2>2, <2>3, <2>4
          DEF Skipping, NotClaimed, Fail, Environment, BeginCancel, ReopenLocation
<1>5. \A q \in Pollers : poll'[q].phase \in Acting \/ poll'[q].stale # {} =>
        /\ poll'[q].stale = poll[q].stale /\ poll'[q].phase = poll[q].phase
        /\ poll'[q].current = poll[q].current
  <2>1. CASE \E q \in Pollers : Skipping(q)
    BY <1>1, <2>1, CountsAreNumbers DEF Skipping, NotClaimed, Taken, PollState
  <2>2. CASE \E w \in Workers : Fail(w)
    BY <1>1, <2>2, CountsAreNumbers DEF Fail, NoPoll, PollState, Acting
  <2>3. CASE UNCHANGED poll
    BY <2>3
  <2> QED BY <2>1, <2>2, <2>3
          DEF Environment, BeginCancel, FinishCancel, CloseLocation, ReopenLocation, Tick
<1>6. RecoversUnrefused'
  BY <1>3, <1>5 DEF CountInv, RecoversUnrefused, NotRefused
<1> QED BY <1>2, <1>3, <1>4, <1>6, RowsStay

LEMMA CountStep == IInv /\ IInv' /\ CountInv /\ [Next]_vars => CountInv'
<1> SUFFICES ASSUME IInv, IInv', CountInv, [Next]_vars PROVE CountInv'
  OBVIOUS
<1>1. \A j \in Jobs : job[j].status \in Terminal => job'[j].status = job[j].status
  BY TerminalStep
<1>2. CASE UNCHANGED vars
  BY <1>2, NothingWritten DEF vars
<1>3. ASSUME NEW p \in Pollers, Recovery(p) PROVE CountInv'
  BY <1>1, <1>3, RecoveryCounts
<1>4. ASSUME NEW w \in Workers, Claiming(w) PROVE CountInv'
  BY <1>4, ClaimCounts DEF Claiming
<1>5. ASSUME NEW w \in Workers, Handling(w) PROVE CountInv'
  BY <1>5, HandlingCounts
<1>6. CASE (\E q \in Pollers : Skipping(q)) \/ (\E w \in Workers : Fail(w)) \/ Environment \/ Tick
  BY <1>1, <1>6, OthersCount
<1> QED BY <1>2, <1>3, <1>4, <1>5, <1>6 DEF Next

LEMMA NothingCounted == ASSUME Init PROVE CountInv
<1>1. ASSUME NEW j \in Jobs PROVE Refusals(j) = {} /\ job[j].retryCount = 0 /\ job[j].status \notin Terminal
  <2>1. \A a \in Attempts : ~Refused(attempt[a])
    BY DEF Init, UnusedAttempt, Refused
  <2> QED BY <2>1, RefusalsAre DEF Init, NewJob, Terminal
<1>2. Counted
  BY <1>1, FS_EmptySet DEF Counted
<1>3. RetriesBounded
  BY <1>1, BudgetIsNumber DEF RetriesBounded, WithinBudget
<1>4. RefusedIsDone /\ RecoversUnrefused
  BY DEF Init, UnusedAttempt, NoPoll, RefusedIsDone, RecoversUnrefused, RefusalStatus, Acting
<1> QED BY <1>2, <1>3, <1>4 DEF CountInv

\* The retry counter of a job counts the provider's refusals that may be retried, and
\* is at most one more than there are delays.
THEOREM RetriesAreCounted == ASSUME Prompt PROVE Spec => []RetryCountIsRefusals
<1>1. Init => CountInv
  BY NothingCounted
<1>2. CountInv /\ TypeOK => RetryCountIsRefusals
  <2> SUFFICES ASSUME CountInv, TypeOK, NEW j \in Jobs
               PROVE  /\ job[j].retryCount = Cardinality(Refusals(j))
                      /\ job[j].retryCount <= Cardinality(DOMAIN RetryDelay) + 1
    BY DEF RetryCountIsRefusals
  <2>1. job[j].retryCount \in Nat /\ Budget \in Nat
    BY BudgetIsNumber, CountsAreNumbers
  <2> QED BY <2>1 DEF CountInv, Counted, RetriesBounded, WithinBudget, Budget
<1>3. IInv => TypeOK
  BY DEF IInv
<1> QED BY <1>1, <1>2, <1>3, CountStep, Invariance, PTL DEF Spec
-----------------------------------------------------------------------------
(***************************************************************************)
(* Refinement: the mail of a tenant as TenantLifecycle has it, TenantMail, *)
(* is what these jobs, attempts and workers show of themselves. It takes a *)
(* second invariant, about what recoveries are between their statements.   *)
(***************************************************************************)
\* What a recovery has before it and what it writes of a call; and which attempt alone
\* can have an unknown outcome.
PollInv ==
  \A p \in Pollers :
    /\ poll[p].phase \notin Acting => poll[p].current = None
    /\ poll[p].phase \in {"idle", "sending"} => poll[p].stale = {}
    /\ Live(p) => poll[p].phase = "sending"

UnknownInv ==
  \A a \in Attempts :
    /\ attempt[a].closed => attempt[a].completed
    /\ attempt[a].status = "delivery_unknown" =>
         attempt[a].invoked /\ job[attempt[a].job].status = "delivery_unknown"
    /\ attempt[a].status = "delivery_unknown" \/ (attempt[a].invoked /\ ~attempt[a].completed) =>
         job[attempt[a].job].claim = a

KnowsCall(p) ==
  LET s == poll[p].current IN
  /\ poll[p].phase \in {"requeueing", "closing_abandoned"} => ~attempt[s.attempt].invoked
  /\ poll[p].phase \in {"marking_unknown", "closing_unknown"} =>
       /\ attempt[s.attempt].invoked /\ ~attempt[s.attempt].closed
       /\ job[s.job].claim = s.attempt
  /\ poll[p].phase = "closing_unknown" => job[s.job].status = "delivery_unknown"

VerdictInv == \A p \in Pollers : KnowsCall(p)

ViewInv == PollInv /\ UnknownInv /\ VerdictInv

LEMMA ViewInit == Init => ViewInv
<1> SUFFICES ASSUME Init PROVE ViewInv
  OBVIOUS
<1>1. PollInv
  BY DEF Init, PollInv, NoPoll, Acting, Live, Idle, Workers
<1>2. UnknownInv
  BY DEF Init, UnknownInv, UnusedAttempt
<1>3. VerdictInv
  BY DEF Init, VerdictInv, KnowsCall, NoPoll
<1> QED BY <1>1, <1>2, <1>3 DEF ViewInv

\* One attempt changes, or none; a job keeps the claim of a call and an unknown outcome.
LEMMA UnknownFrame ==
  ASSUME IInv, UnknownInv, NEW a,
         \A x \in Attempts : x # a => attempt'[x] = attempt[x],
         \A i \in Jobs : job[i].status = "delivery_unknown" => job'[i].status = "delivery_unknown",
         \A i \in Jobs : \/ job'[i].claim = job[i].claim
                         \/ job[i].claim \in Attempts /\ (job[i].claim = a \/ ~attempt[job[i].claim].invoked)
                         \/ job[i].status \notin {"processing", "delivery_unknown"},
         a \in Attempts =>
           /\ attempt'[a].closed => attempt'[a].completed
           /\ attempt'[a].status = "delivery_unknown" =>
                attempt'[a].invoked /\ job'[attempt'[a].job].status = "delivery_unknown"
           /\ attempt'[a].status = "delivery_unknown" \/ (attempt'[a].invoked /\ ~attempt'[a].completed) =>
                job'[attempt'[a].job].claim = a
  PROVE  UnknownInv'
<1> SUFFICES ASSUME NEW x \in Attempts, x # a
             PROVE  /\ attempt'[x].closed => attempt'[x].completed
                    /\ attempt'[x].status = "delivery_unknown" =>
                         attempt'[x].invoked /\ job'[attempt'[x].job].status = "delivery_unknown"
                    /\ attempt'[x].status = "delivery_unknown" \/ (attempt'[x].invoked /\ ~attempt'[x].completed) =>
                         job'[attempt'[x].job].claim = x
  BY DEF UnknownInv
<1> DEFINE i == attempt[x].job
<1>1. /\ attempt'[x] = attempt[x]
      /\ attempt[x].closed => attempt[x].completed
      /\ attempt[x].status = "delivery_unknown" => attempt[x].invoked /\ job[i].status = "delivery_unknown"
      /\ attempt[x].status = "delivery_unknown" \/ (attempt[x].invoked /\ ~attempt[x].completed) =>
           job[i].claim = x
  BY DEF UnknownInv
<1>2. attempt[x].invoked => i \in Jobs
  BY DEF IInv, FreshInv
<1>3. attempt[x].invoked /\ ~attempt[x].completed => job[i].status \in {"processing", "delivery_unknown"}
  BY DEF IInv, BoundaryInv, ClaimOf
<1>4. CASE attempt[x].status = "delivery_unknown" \/ (attempt[x].invoked /\ ~attempt[x].completed)
  <2>1. /\ attempt[x].invoked /\ job[i].claim = x /\ i \in Jobs
        /\ job[i].status \in {"processing", "delivery_unknown"}
    BY <1>1, <1>2, <1>3, <1>4
  <2> HIDE DEF i
  <2>2. job'[i].claim = x
    BY <2>1
  <2> QED BY <1>1, <2>1, <2>2 DEF i
<1>5. CASE ~(attempt[x].status = "delivery_unknown" \/ (attempt[x].invoked /\ ~attempt[x].completed))
  BY <1>1, <1>5
<1> QED BY <1>4, <1>5

\* A step that does not touch what a recovery at p has read.
CallStays(p) ==
  LET s == poll[p].current IN
  poll'[p].phase \in Acting =>
    /\ poll'[p].phase = poll[p].phase /\ poll'[p].current = s
    /\ attempt'[s.attempt].invoked = attempt[s.attempt].invoked
    /\ attempt'[s.attempt].closed = attempt[s.attempt].closed
    /\ poll[p].phase \in {"marking_unknown", "closing_unknown"} =>
         /\ job'[s.job].claim = job[s.job].claim
         /\ job[s.job].status = "delivery_unknown" => job'[s.job].status = "delivery_unknown"

LEMMA VerdictFrame ==
  ASSUME VerdictInv, NEW p \in Pollers, CallStays(p)
  PROVE  KnowsCall(p)'
BY DEF VerdictInv, KnowsCall, CallStays, Acting

\* A worker that goes on or ends changes only the attempt its job's row names.
LEMMA HandlingViewInv ==
  ASSUME IInv, ViewInv, NEW w \in Workers, Live(w), NEW j, NEW a, NEW r, NEW b,
         j = worker[w].job, a = worker[w].attempt,
         job' = [job EXCEPT ![j] = r], attempt' = [attempt EXCEPT ![a] = b],
         poll' = poll, \A v \in Workers : Live(v)' => Live(v),
         b.job = j, b.closed => b.completed,
         b.status = "delivery_unknown" => b.invoked /\ r.status = "delivery_unknown",
         b.status = "delivery_unknown" \/ (b.invoked /\ ~b.completed) => r.claim = a
  PROVE  ViewInv'
<1>1. /\ j \in Jobs /\ a \in Attempts /\ job[j].status = "processing" /\ job[j].claim = a
      /\ attempt[a].job = j
  BY LiveFacts
<1>2. job \in [Jobs -> JobRow] /\ attempt \in [Attempts -> AttemptRow]
  BY DEF IInv, TypeOK
<1>3. /\ \A i \in Jobs : job'[i] = IF i = j THEN r ELSE job[i]
      /\ \A x \in Attempts : attempt'[x] = IF x = a THEN b ELSE attempt[x]
  BY <1>2
<1>4. PollInv'
  BY DEF ViewInv, PollInv, Workers
<1>5. UnknownInv'
  <2>1. \A x \in Attempts : x # a => attempt'[x] = attempt[x]
    BY <1>3
  <2>2. \A i \in Jobs : /\ job[i].status = "delivery_unknown" => job'[i].status = "delivery_unknown"
                        /\ i # j => job'[i].claim = job[i].claim
    BY <1>1, <1>3
  <2>3. attempt'[a] = b /\ job'[j] = r
    BY <1>1, <1>3
  <2>4. /\ attempt'[a].closed => attempt'[a].completed
        /\ attempt'[a].status = "delivery_unknown" =>
             attempt'[a].invoked /\ job'[attempt'[a].job].status = "delivery_unknown"
        /\ attempt'[a].status = "delivery_unknown" \/ (attempt'[a].invoked /\ ~attempt'[a].completed) =>
             job'[attempt'[a].job].claim = a
    BY <2>3
  <2> QED BY <1>1, <2>1, <2>2, <2>4, UnknownFrame DEF ViewInv
<1>6. ASSUME NEW p \in Pollers PROVE CallStays(p)
  <2> SUFFICES ASSUME poll[p].phase \in Acting
               PROVE  LET s == poll[p].current IN
                      /\ attempt'[s.attempt] = attempt[s.attempt]
                      /\ poll[p].phase \in {"marking_unknown", "closing_unknown"} => job'[s.job] = job[s.job]
    BY DEF CallStays
  <2> DEFINE s == poll[p].current
  <2>1. s.job \in Jobs /\ s.attempt \in Attempts /\ s.attempt # a
    BY DEF IInv, RecoveryInv, Abandoned
  <2>2. poll[p].phase \in {"marking_unknown", "closing_unknown"} => job[s.job].claim = s.attempt
    BY DEF ViewInv, VerdictInv, KnowsCall
  <2> QED BY <1>1, <1>3, <2>1, <2>2
<1>7. VerdictInv'
  BY <1>6, VerdictFrame DEF ViewInv, VerdictInv
<1> QED BY <1>4, <1>5, <1>7 DEF ViewInv

LEMMA HandlingKeepsView == ASSUME IInv, ViewInv, NEW w \in Workers, Handling(w) PROVE ViewInv'
<1> DEFINE j == worker[w].job
           a == worker[w].attempt
<1>1. Live(w)
  BY DEF Handling, CheckGates, BlockClaimed, Defer, Invoke, CallProvider, Answer, RecordAccepted,
         RecordFinal, RecordRetry, At, Live
<1>2. /\ j \in Jobs /\ a \in Attempts /\ job[j] \in JobRow /\ attempt[a] \in AttemptRow
      /\ attempt[a].job = j /\ ~attempt[a].completed /\ ~attempt[a].closed
      /\ job[j].status = "processing" /\ job[j].claim = a /\ attempt[a].status # "delivery_unknown"
      /\ attempt[a].invoked <=> worker[w].pc \notin BeforeBoundary
      /\ job = [job EXCEPT ![j] = job[j]] /\ attempt = [attempt EXCEPT ![a] = attempt[a]]
  BY <1>1, LiveFacts DEF ViewInv, UnknownInv, KnowsBoundary, IInv, TypeOK
<1>3. \A v \in Workers : Live(v)' => Live(v)
  <2>1. \A v \in Workers : v # w => worker'[v] = worker[v]
    BY DEF Handling, CheckGates, BlockClaimed, Defer, Invoke, CallProvider, Answer, RecordAccepted,
           RecordFinal, RecordRetry, Goto, Done, IInv, TypeOK
  <2> QED BY <1>1, <2>1 DEF Live
<1>4. poll' = poll
  BY DEF Handling, CheckGates, BlockClaimed, Defer, Invoke, CallProvider, Answer, RecordAccepted,
         RecordFinal, RecordRetry
<1> HIDE DEF j, a
<1> USE DEF j, a
<1>5. CASE UNCHANGED <<job, attempt>>
  BY <1>1, <1>2, <1>3, <1>4, <1>5, HandlingViewInv
<1>6. CASE BlockClaimed(w)
  <2> DEFINE r == [job[j] EXCEPT !.status = "failed", !.scheduledAt = None]
             b == [attempt[a] EXCEPT !.status = "blocked", !.completed = TRUE]
  <2>1. b.job = j /\ b.completed /\ b.status = "blocked"
    BY <1>2 DEF AttemptRow
  <2> QED BY <1>1, <1>3, <1>4, <1>6, <2>1, HandlingViewInv DEF BlockClaimed
<1>7. CASE Defer(w)
  <2> DEFINE b == [attempt[a] EXCEPT !.status = "deferred", !.completed = TRUE]
  <2>1. b.job = j /\ b.completed /\ b.status = "deferred"
    BY <1>2 DEF AttemptRow
  <2> QED BY <1>1, <1>3, <1>4, <1>7, <2>1, HandlingViewInv DEF Defer
<1>8. CASE Invoke(w)
  <2> DEFINE b == InvokedRow(attempt[a])
  <2>1. b.job = j /\ ~b.closed /\ b.status = "invoked"
    BY <1>2 DEF AttemptRow, InvokedRow
  <2>2. job' = [job EXCEPT ![j] = job[j]] /\ attempt' = [attempt EXCEPT ![a] = b]
    BY <1>2, <1>8 DEF Invoke
  <2> HIDE DEF b
  <2> QED BY <1>1, <1>2, <1>3, <1>4, <2>1, <2>2, HandlingViewInv
<1>9. CASE RecordAccepted(w)
  <2> DEFINE r == [job[j] EXCEPT !.status = "sent", !.scheduledAt = None]
             b == [attempt[a] EXCEPT !.status = "succeeded", !.completed = TRUE]
  <2>1. b.job = j /\ b.completed /\ b.status = "succeeded"
    BY <1>2 DEF AttemptRow
  <2> QED BY <1>1, <1>3, <1>4, <1>9, <2>1, HandlingViewInv DEF RecordAccepted
<1>10. CASE RecordFinal(w)
  <2> DEFINE status == IF worker[w].outcome = "unknown" THEN "delivery_unknown" ELSE "failed"
             r == [job[j] EXCEPT !.status = status, !.scheduledAt = None]
             b == [attempt[a] EXCEPT !.status = status, !.completed = TRUE, !.closed = TRUE]
  <2>1. b.job = j /\ b.completed /\ b.status = status /\ b.invoked = attempt[a].invoked
    BY <1>2 DEF AttemptRow
  <2>2. r.status = status /\ r.claim = a
    BY <1>2 DEF JobRow
  <2>3. attempt[a].invoked
    BY <1>2, <1>10 DEF RecordFinal, At, BeforeBoundary
  <2>4. job' = [job EXCEPT ![j] = r] /\ attempt' = [attempt EXCEPT ![a] = b]
    BY <1>10 DEF RecordFinal
  <2> HIDE DEF status, r, b
  <2> QED BY <1>1, <1>3, <1>4, <2>1, <2>2, <2>3, <2>4, HandlingViewInv
<1>11. CASE RecordRetry(w)
  <2> DEFINE again == worker[w].retryCount \in DOMAIN RetryDelay
             b == [attempt[a] EXCEPT !.status = IF again THEN "retry_scheduled" ELSE "failed", !.completed = TRUE]
  <2>1. b.job = j /\ b.completed /\ b.status # "delivery_unknown"
    BY <1>2 DEF AttemptRow
  <2>2. PICK r : job' = [job EXCEPT ![j] = r]
    BY <1>11 DEF RecordRetry
  <2>3. attempt' = [attempt EXCEPT ![a] = b]
    BY <1>11 DEF RecordRetry
  <2> HIDE DEF again, b
  <2> QED BY <1>1, <1>3, <1>4, <2>1, <2>2, <2>3, HandlingViewInv
<1> QED BY <1>5, <1>6, <1>7, <1>8, <1>9, <1>10, <1>11
        DEF Handling, CheckGates, CallProvider, Answer

LEMMA RowsTyped ==
  ASSUME IInv
  PROVE  /\ job \in [Jobs -> JobRow] /\ attempt \in [Attempts -> AttemptRow]
         /\ worker \in [Workers -> WorkerState] /\ poll \in [Pollers -> PollState]
BY DEF IInv, TypeOK

\* The jobs that recoveries have before them are not due, their attempts not fresh.
LEMMA ActingFacts ==
  ASSUME IInv, ViewInv, NEW p \in Pollers, poll[p].phase \in Acting, NEW s, s = poll[p].current
  PROVE  /\ s \in Snapshot /\ s.job \in Jobs /\ s.attempt \in Attempts
         /\ attempt[s.attempt].job = s.job /\ ~Unused(s.attempt)
         /\ \A w \in Workers : Live(w) => worker[w].attempt # s.attempt
         /\ poll[p].phase \in {"marking_unknown", "closing_unknown"} =>
              job[s.job].status \in {"processing", "delivery_unknown"} /\ job[s.job].claim = s.attempt
<1>1. Abandoned(s) /\ s \in Snapshot
  BY DEF IInv, RecoveryInv
<1>2. ~Unused(s.attempt)
  BY <1>1, ConstantsAssumption DEF Abandoned, IInv, FreshInv
<1>3. poll[p].phase \in {"marking_unknown", "closing_unknown"} =>
        job[s.job].status \in {"processing", "delivery_unknown"} /\ job[s.job].claim = s.attempt
  BY DEF ViewInv, VerdictInv, KnowsCall, IInv, RecoveryInv, ClaimedBy
<1> QED BY <1>1, <1>2, <1>3 DEF Abandoned

LEMMA ClaimKeepsView ==
  ASSUME IInv, ViewInv, NEW w \in Workers, NEW j \in Jobs, NEW a \in FreshAttempts, Claim(w, j, a)
  PROVE  ViewInv'
<1> DEFINE b == [attempt[a] EXCEPT !.job = j, !.status = "claimed"]
<1>1. a \in Attempts /\ Unused(a)
  BY DEF FreshAttempts, Unused
<1>2. /\ ~attempt[a].invoked /\ ~attempt[a].completed /\ ~attempt[a].closed /\ attempt[a] \in AttemptRow
  BY <1>1, RowsTyped DEF IInv, FreshInv, ViewInv, UnknownInv
<1>3. b.job = j /\ b.status = "claimed" /\ ~b.invoked /\ ~b.completed /\ ~b.closed
  BY <1>2 DEF AttemptRow
<1>4. /\ \A x \in Attempts : attempt'[x] = IF x = a THEN b ELSE attempt[x]
      /\ \A i \in Jobs : i # j => job'[i] = job[i]
  BY RowsTyped DEF Claim
<1> HIDE DEF b
<1>5. job[j].status \in {"waiting", "queued"}
  BY DEF Claim, Claimable, WindowOver, RetryDue, LegacyDue
<1>6. /\ w \in Pollers => poll[w].phase = "sending"
      /\ \A p \in Pollers : /\ poll'[p].phase = poll[p].phase /\ poll'[p].current = poll[p].current
                            /\ poll'[p].stale = poll[p].stale
  BY RowsTyped DEF Claim, Chooses, Taken, PollState
<1>7. PollInv'
  <2>1. \A v \in Workers : v # w => Live(v)' = Live(v)
    BY RowsTyped DEF Claim, Live
  <2> QED BY <1>6, <2>1 DEF ViewInv, PollInv, Workers
<1>8. UnknownInv'
  <2>1. \A x \in Attempts : x # a => attempt'[x] = attempt[x]
    BY <1>4
  <2>2. \A i \in Jobs : /\ job[i].status = "delivery_unknown" => job'[i].status = "delivery_unknown"
                        /\ i # j => job'[i].claim = job[i].claim
    BY <1>4, <1>5
  <2>3. /\ ~attempt'[a].closed /\ ~attempt'[a].invoked /\ attempt'[a].status # "delivery_unknown"
    BY <1>1, <1>3, <1>4
  <2> QED BY <1>5, <2>1, <2>2, <2>3, UnknownFrame DEF ViewInv
<1>9. ASSUME NEW p \in Pollers PROVE CallStays(p)
  <2>1. CASE poll[p].phase \in Acting
    <3> DEFINE s == poll[p].current
    <3>1. /\ s.attempt \in Attempts /\ ~Unused(s.attempt) /\ s.job \in Jobs
          /\ poll[p].phase \in {"marking_unknown", "closing_unknown"} => s.job # j
      BY <1>5, <2>1, ActingFacts
    <3>2. attempt'[s.attempt] = attempt[s.attempt]
      BY <1>1, <1>4, <3>1
    <3> QED BY <1>4, <1>6, <3>1, <3>2 DEF CallStays
  <2>2. CASE poll[p].phase \notin Acting
    BY <1>6, <2>2 DEF CallStays
  <2> QED BY <2>1, <2>2
<1> QED BY <1>7, <1>8, <1>9, VerdictFrame DEF ViewInv, VerdictInv

\* Steps in which jobs keep their claims, an unknown outcome stays, and polls go on
\* or are forgotten.
LEMMA PlainKeepsView ==
  ASSUME IInv, ViewInv, attempt' = attempt,
         \A i \in Jobs : /\ job'[i].claim = job[i].claim
                         /\ job[i].status = "delivery_unknown" => job'[i].status = "delivery_unknown",
         \A p \in Pollers :
           \/ poll'[p] = NoPoll
           \/ /\ poll'[p].phase = poll[p].phase /\ poll'[p].current = poll[p].current
              /\ poll'[p].stale = poll[p].stale,
         \A p \in Pollers : Live(p)' => Live(p) /\ poll'[p].phase = poll[p].phase
  PROVE  ViewInv'
<1>1. PollInv'
  BY DEF ViewInv, PollInv, NoPoll, Acting
<1>2. UnknownInv'
  BY UnknownFrame, ConstantsAssumption DEF ViewInv
<1>3. ASSUME NEW p \in Pollers PROVE CallStays(p)
  <2>1. CASE poll'[p] = NoPoll
    BY <2>1 DEF CallStays, NoPoll, Acting
  <2>2. CASE /\ poll'[p].phase = poll[p].phase /\ poll'[p].current = poll[p].current
             /\ poll[p].phase \in Acting
    <3>1. poll[p].current.job \in Jobs
      BY <2>2, ActingFacts
    <3> QED BY <2>2, <3>1 DEF CallStays
  <2> QED BY <2>1, <2>2 DEF CallStays
<1> QED BY <1>1, <1>2, <1>3, VerdictFrame DEF ViewInv, VerdictInv

LEMMA OthersKeepView ==
  ASSUME IInv, ViewInv,
         (\E p \in Pollers : Skipping(p)) \/ (\E w \in Workers : Fail(w)) \/ Environment \/ Tick
         \/ UNCHANGED vars
  PROVE  ViewInv'
<1>1. ASSUME NEW p \in Pollers, NEW j \in Jobs, NotClaimed(p, j) PROVE ViewInv'
  <2>1. \A q \in Pollers : /\ poll'[q].phase = poll[q].phase /\ poll'[q].current = poll[q].current
                           /\ poll'[q].stale = poll[q].stale
    BY <1>1, RowsTyped DEF NotClaimed, Taken, PollState
  <2> QED BY <1>1, <2>1, PlainKeepsView DEF NotClaimed, Live
<1>2. ASSUME NEW w \in Workers, Fail(w) PROVE ViewInv'
  <2>1. \A p \in Pollers : IF p = w THEN poll'[p] = NoPoll /\ ~Live(p)'
                                    ELSE poll'[p] = poll[p] /\ Live(p)' = Live(p)
    BY <1>2, RowsTyped DEF Fail, Done, Live, Idle, Workers
  <2>2. job' = job /\ attempt' = attempt
    BY <1>2 DEF Fail
  <2> QED BY <2>1, <2>2, PlainKeepsView
<1>3. CASE Environment
  <2>1. UNCHANGED <<attempt, worker, poll>>
    BY <1>3 DEF Environment, BeginCancel, FinishCancel, CloseLocation, ReopenLocation
  <2>2. \A i \in Jobs : /\ job'[i].claim = job[i].claim
                        /\ job[i].status = "delivery_unknown" => job'[i].status = "delivery_unknown"
    <3>1. CASE job' = job
      BY <3>1
    <3>2. ASSUME NEW j \in Jobs, FinishCancel(j)
          PROVE  \A i \in Jobs : /\ job'[i].claim = job[i].claim
                                 /\ job[i].status = "delivery_unknown" => job'[i].status = "delivery_unknown"
      BY <3>2, RowsTyped DEF FinishCancel, Cancelable, JobRow
    <3>3. ASSUME NEW to \in LocationStatus, CloseLocation(to)
          PROVE  \A i \in Jobs : /\ job'[i].claim = job[i].claim
                                 /\ job[i].status = "delivery_unknown" => job'[i].status = "delivery_unknown"
      BY <3>3, RowsTyped DEF CloseLocation, FailsOnClose, JobRow
    <3> QED BY <1>3, <3>1, <3>2, <3>3 DEF Environment, BeginCancel, ReopenLocation
  <2> QED BY <2>1, <2>2, PlainKeepsView DEF Live
<1>4. CASE Tick
  <2>1. \A i \in Jobs : job'[i].claim = job[i].claim /\ job'[i].status = job[i].status
    BY <1>4, RowsTyped DEF Tick, JobLater, JobRow
  <2>2. UNCHANGED <<attempt, poll>> /\ \A p \in Pollers : Live(p)' => Live(p)
    BY <1>4, RowsTyped DEF Tick, Live, Workers, WorkerState
  <2> QED BY <2>1, <2>2, PlainKeepsView
<1>5. CASE UNCHANGED vars
  BY <1>5, PlainKeepsView DEF vars, Live
<1> QED BY <1>1, <1>2, <1>3, <1>4, <1>5 DEF Skipping

\* A recovery that goes on changes its own poll, and what other polls know stays.
LEMMA RecoveryKeepsView ==
  ASSUME IInv, ViewInv, NEW p \in Pollers, Recovery(p)
  PROVE  ViewInv'
<1> DEFINE s == poll[p].current
<1>1. /\ worker' = worker /\ ~Live(p)
      /\ \A q \in Pollers : q # p => poll'[q] = poll[q]
  <2>1. worker' = worker /\ \A q \in Pollers : q # p => poll'[q] = poll[q]
    BY RowsTyped DEF Recovery, BeginPoll, InspectClaim, MarkUnknown, Requeue, CloseRecovered, ReadDue, EndPoll
  <2>2. poll[p].phase = "sending" => worker[p].pc = "idle"
    BY DEF Recovery, BeginPoll, InspectClaim, MarkUnknown, Requeue, CloseRecovered, ReadDue, EndPoll
  <2> QED BY <2>1, <2>2 DEF ViewInv, PollInv, Live
<1>2. poll[p].phase \in Acting => \A q \in Pollers : q # p /\ poll[q].phase \in Acting =>
        poll[q].current.job \in Jobs /\ poll[q].current.attempt \in Attempts
  BY ActingFacts
<1>3. ASSUME /\ poll'[p].phase \notin Acting => poll'[p].current = None
             /\ poll'[p].phase \in {"idle", "sending"} => poll'[p].stale = {}
      PROVE  PollInv'
  <2>1. \A q \in Pollers : Live(q)' = Live(q)
    BY <1>1 DEF Live
  <2> QED BY <1>1, <1>3, <2>1 DEF ViewInv, PollInv
<1>4. ASSUME UNCHANGED <<job, attempt>>
      PROVE  UnknownInv' /\ \A q \in Pollers : q # p => KnowsCall(q)'
  <2>1. UnknownInv'
    BY <1>4 DEF ViewInv, UnknownInv
  <2>2. ASSUME NEW q \in Pollers, q # p PROVE CallStays(q)
    BY <1>1, <1>4, <2>2 DEF CallStays
  <2> QED BY <2>1, <2>2, VerdictFrame DEF ViewInv
<1>5. ASSUME poll'[p].phase \notin Acting
      PROVE  KnowsCall(p)'
  BY <1>5 DEF KnowsCall, Acting
<1>6. CASE BeginPoll(p) \/ ReadDue(p) \/ EndPoll(p)
  <2>1. /\ UNCHANGED <<job, attempt>> /\ poll'[p].phase \notin Acting
        /\ poll'[p].current = None
        /\ poll'[p].phase \in {"idle", "sending"} => poll'[p].stale = {}
    <3>1. CASE BeginPoll(p)
      BY <3>1, RowsTyped DEF BeginPoll, NoPoll, Acting
    <3>2. CASE ReadDue(p)
      <4>1. poll[p].current = None /\ poll[p].stale = {}
        BY <3>2 DEF ReadDue, Acting, ViewInv, PollInv
      <4> QED BY <3>2, <4>1, RowsTyped DEF ReadDue, Acting, PollState
    <3>3. CASE EndPoll(p)
      BY <3>3, RowsTyped DEF EndPoll, NoPoll, Acting
    <3> QED BY <1>6, <3>1, <3>2, <3>3
  <2> QED BY <1>3, <1>4, <1>5, <2>1 DEF ViewInv, VerdictInv
<1>7. ASSUME NEW c \in poll[p].stale, InspectClaim(p, c) PROVE ViewInv'
  <2> DEFINE a == attempt[c.attempt]
  <2>1. /\ UNCHANGED <<job, attempt>>
        /\ poll'[p].phase = Verdict(a) /\ poll'[p].current = IF a.completed THEN None ELSE c
    BY <1>7, RowsTyped DEF InspectClaim, PollState
  <2>2. /\ c.attempt \in Attempts /\ attempt[c.attempt].job = c.job
        /\ attempt[c.attempt].closed => attempt[c.attempt].completed
        /\ attempt[c.attempt].invoked /\ ~attempt[c.attempt].completed => job[c.job].claim = c.attempt
    BY DEF IInv, RecoveryInv, Abandoned, ViewInv, UnknownInv
  <2>3. PollInv'
    BY <1>3, <2>1 DEF Verdict, Acting
  <2>4. KnowsCall(p)'
    BY <2>1, <2>2 DEF KnowsCall, Verdict
  <2> QED BY <1>4, <2>1, <2>3, <2>4 DEF ViewInv, VerdictInv
<1>8. CASE MarkUnknown(p)
  <2>1. /\ poll[p].phase = "marking_unknown" /\ s.job \in Jobs /\ s.attempt \in Attempts
        /\ job[s.job].status \in {"processing", "delivery_unknown"} /\ job[s.job].claim = s.attempt
        /\ attempt[s.attempt].invoked /\ ~attempt[s.attempt].closed
    BY <1>8, ActingFacts DEF MarkUnknown, Acting, ViewInv, VerdictInv, KnowsCall
  <2>2. /\ attempt' = attempt /\ job'[s.job].status = "delivery_unknown"
        /\ \A i \in Jobs : /\ job'[i].claim = job[i].claim
                           /\ job[i].status = "delivery_unknown" => job'[i].status = "delivery_unknown"
    BY <1>8, <2>1, RowsTyped DEF MarkUnknown, JobRow
  <2>3. poll'[p].phase = "closing_unknown" /\ poll'[p].current = s /\ poll'[p].stale = poll[p].stale
    BY <1>8, RowsTyped DEF MarkUnknown, PollState
  <2>4. UnknownInv'
    BY <2>2, UnknownFrame, ConstantsAssumption DEF ViewInv
  <2>5. KnowsCall(p)'
    BY <2>1, <2>2, <2>3 DEF KnowsCall
  <2>6. ASSUME NEW q \in Pollers, q # p PROVE CallStays(q)
    <3>1. poll[q].phase \in Acting => poll[q].current.job \in Jobs
      BY ActingFacts
    <3> QED BY <1>1, <2>2, <2>6, <3>1 DEF CallStays
  <2>7. PollInv'
    BY <1>3, <2>3 DEF Acting
  <2> QED BY <2>4, <2>5, <2>6, <2>7, VerdictFrame DEF ViewInv, VerdictInv
<1>9. CASE Requeue(p)
  <2> DEFINE matches == job[s.job].status = "processing" /\ job[s.job].claim = s.attempt
  <2>1. /\ poll[p].phase = "requeueing" /\ s.job \in Jobs /\ s.attempt \in Attempts
        /\ ~attempt[s.attempt].invoked
    BY <1>9, ActingFacts DEF Requeue, Acting, ViewInv, VerdictInv, KnowsCall
  <2>2. /\ attempt' = attempt
        /\ \A i \in Jobs : i # s.job \/ ~matches => job'[i] = job[i]
    BY <1>9, <2>1, RowsTyped DEF Requeue
  <2>3. \/ poll'[p] = NoPoll
        \/ poll'[p].phase = "closing_abandoned" /\ poll'[p].current = s
    BY <1>9, RowsTyped DEF Requeue, PollState
  <2>4. UnknownInv'
    BY <2>1, <2>2, UnknownFrame, ConstantsAssumption DEF ViewInv
  <2>5. KnowsCall(p)'
    BY <2>1, <2>2, <2>3 DEF KnowsCall, NoPoll
  <2>6. ASSUME NEW q \in Pollers, q # p PROVE CallStays(q)
    <3>1. poll[q].phase \in {"marking_unknown", "closing_unknown"} =>
            /\ poll[q].current.job \in Jobs /\ attempt[poll[q].current.attempt].invoked
            /\ job[poll[q].current.job].claim = poll[q].current.attempt
      BY ActingFacts DEF Acting, ViewInv, VerdictInv, KnowsCall
    <3> QED BY <1>1, <2>1, <2>2, <2>6, <3>1 DEF CallStays
  <2>7. PollInv'
    BY <1>3, <2>3 DEF Acting, NoPoll
  <2> QED BY <2>4, <2>5, <2>6, <2>7, VerdictFrame DEF ViewInv, VerdictInv
<1>10. CASE CloseRecovered(p)
  <2> DEFINE b == [attempt[s.attempt] EXCEPT
                     !.status = IF poll[p].phase = "closing_unknown" THEN "delivery_unknown" ELSE "abandoned",
                     !.completed = TRUE]
  <2>1. /\ s.job \in Jobs /\ s.attempt \in Attempts /\ attempt[s.attempt].job = s.job
        /\ poll[p].phase = "closing_unknown" =>
             attempt[s.attempt].invoked /\ job[s.job].claim = s.attempt /\ job[s.job].status = "delivery_unknown"
    BY <1>10, ActingFacts DEF CloseRecovered, Acting, ViewInv, VerdictInv, KnowsCall
  <2>2. /\ job' = job /\ \A x \in Attempts : attempt'[x] = IF x = s.attempt THEN b ELSE attempt[x]
    BY <1>10, <2>1, RowsTyped DEF CloseRecovered
  <2>3. /\ b.job = s.job /\ b.invoked = attempt[s.attempt].invoked /\ b.closed = attempt[s.attempt].closed
        /\ b.completed /\ b.status = "delivery_unknown" => poll[p].phase = "closing_unknown"
    BY <2>1, RowsTyped DEF AttemptRow
  <2>4. b.completed
    BY <2>1, RowsTyped DEF AttemptRow
  <2>5. poll'[p].phase = "recovering" /\ poll'[p].current = None
    BY <1>10, RowsTyped DEF CloseRecovered, PollState
  <2> HIDE DEF b
  <2>6. UnknownInv'
    <3>1. \A x \in Attempts : x # s.attempt => attempt'[x] = attempt[x]
      BY <2>2
    <3>2. attempt'[s.attempt] = b
      BY <2>1, <2>2
    <3>3. /\ attempt'[s.attempt].completed
          /\ attempt'[s.attempt].status = "delivery_unknown" =>
               attempt'[s.attempt].invoked /\ job'[attempt'[s.attempt].job].status = "delivery_unknown"
               /\ job'[attempt'[s.attempt].job].claim = s.attempt
      BY <2>1, <2>2, <2>3, <2>4, <3>2
    <3> QED BY <2>2, <3>1, <3>3, UnknownFrame DEF ViewInv
  <2>7. ASSUME NEW q \in Pollers, q # p PROVE CallStays(q)
    <3>1. poll[q].phase \in Acting => poll[q].current.attempt \in Attempts
      BY ActingFacts
    <3> QED BY <1>1, <2>2, <2>3, <2>7, <3>1 DEF CallStays
  <2>8. PollInv'
    BY <1>3, <2>5 DEF Acting
  <2> QED BY <1>5, <2>5, <2>6, <2>7, <2>8, VerdictFrame DEF ViewInv, VerdictInv, Acting
<1> QED BY <1>6, <1>7, <1>8, <1>9, <1>10 DEF Recovery

LEMMA NextKeepsView == IInv /\ ViewInv /\ [Next]_vars => ViewInv'
<1> SUFFICES ASSUME IInv, ViewInv, [Next]_vars PROVE ViewInv'
  OBVIOUS
<1> QED BY HandlingKeepsView, ClaimKeepsView, RecoveryKeepsView, OthersKeepView DEF Next, Claiming

\* In every state the recoveries are where the two invariants say.
THEOREM ViewInvariance == ASSUME Prompt PROVE Spec => []ViewInv
<1>1. Prompt
  OBVIOUS
<1> QED BY <1>1, ViewInit, NextKeepsView, Invariance, PTL DEF Spec

\* What of a job a step leaves alone when its mail looks the same after it.
KeepsRow(i) ==
  /\ job'[i].status = job[i].status /\ job'[i].claim = job[i].claim
  /\ job'[i].retryCount = job[i].retryCount
  /\ job'[i].scheduledAt = None <=> job[i].scheduledAt = None

KeepsAttempts(i) ==
  \A a \in Attempts : attempt'[a] = attempt[a] \/ (attempt[a].job # i /\ attempt'[a].job # i)

KeepsRecoveries(i) == \A a \in Incomplete(i) : BeingRecovered(a)' <=> BeingRecovered(a)

Stage(pc) ==
  CASE pc \in {"claimed", "blocked"} -> "claimed"
    [] pc = "cleared" -> "cleared"
    [] pc \in {"invoked", "calling", "answered"} -> "calling"
    [] OTHER -> "none"

KeepsHandler(i) ==
  \A w \in Workers : /\ Handles(w, i)' <=> Handles(w, i)
                     /\ Handles(w, i) => Stage(worker'[w].pc) = Stage(worker[w].pc)

Keeps(i) == Mail(i)' = Mail(i) /\ Handler(i)' = Handler(i)

\* Without its attempts' recoveries, a mail is its row and its attempts.
LEMMA MailFrame ==
  ASSUME IInv, NEW i \in Jobs, KeepsRow(i), KeepsAttempts(i)
  PROVE  /\ Incomplete(i)' = Incomplete(i)
         /\ Mail(i)' = [Mail(i) EXCEPT !.others = OtherAttempts(i)']
<1>1. Incomplete(i)' = Incomplete(i)
  BY DEF KeepsRow, KeepsAttempts, Incomplete, AttemptsOf, Claims
<1>2. MailStatus(i)' = MailStatus(i)
  BY DEF KeepsRow, MailStatus
<1>3. CallIsClosed(i)' <=> CallIsClosed(i)
  <2>1. /\ UnknownAttempts(i)' = UnknownAttempts(i)
        /\ \A a \in UnknownAttempts(i) : attempt'[a] = attempt[a]
    BY DEF KeepsAttempts, UnknownAttempts, AttemptsOf
  <2> QED BY <2>1 DEF KeepsRow, CallIsClosed
<1>4. job[i].status = "processing" => attempt'[job'[i].claim].invoked = attempt[job[i].claim].invoked
  BY DEF KeepsRow, KeepsAttempts, IInv, ClaimInv
<1>5. (job'[i].status \notin Terminal /\ KeepsTime(i)') <=> (job[i].status \notin Terminal /\ KeepsTime(i))
  BY DEF KeepsRow, KeepsTime
<1>6. (job'[i].status = "processing" /\ attempt'[job'[i].claim].invoked)
        <=> (job[i].status = "processing" /\ attempt[job[i].claim].invoked)
  BY <1>4 DEF KeepsRow
<1>7. Mail(i)' = [status |-> MailStatus(i)',
                  invoked |-> job'[i].status = "processing" /\ attempt'[job'[i].claim].invoked,
                  closed |-> CallIsClosed(i)',
                  deferred |-> job'[i].status \notin Terminal /\ KeepsTime(i)',
                  others |-> OtherAttempts(i)']
  BY DEF Mail
<1>8. [Mail(i) EXCEPT !.others = OtherAttempts(i)'] =
        [status |-> MailStatus(i),
         invoked |-> job[i].status = "processing" /\ attempt[job[i].claim].invoked,
         closed |-> CallIsClosed(i),
         deferred |-> job[i].status \notin Terminal /\ KeepsTime(i),
         others |-> OtherAttempts(i)']
  BY DEF Mail
<1>9. /\ CallIsClosed(i)' = CallIsClosed(i)
      /\ (job'[i].status \notin Terminal /\ KeepsTime(i)') = (job[i].status \notin Terminal /\ KeepsTime(i))
      /\ (job'[i].status = "processing" /\ attempt'[job'[i].claim].invoked)
           = (job[i].status = "processing" /\ attempt[job[i].claim].invoked)
  <2>1. CallIsClosed(i) \in BOOLEAN /\ CallIsClosed(i)' \in BOOLEAN
    BY DEF CallIsClosed
  <2> QED BY <1>3, <1>5, <1>6, <2>1
<1> QED BY <1>1, <1>2, <1>7, <1>8, <1>9, Zenon

LEMMA OthersFrame ==
  ASSUME NEW i, Incomplete(i)' = Incomplete(i), KeepsRecoveries(i)
  PROVE  OtherAttempts(i)' = OtherAttempts(i)
BY DEF OtherAttempts, KeepsRecoveries

LEMMA SameMail ==
  ASSUME IInv, NEW i \in Jobs, KeepsRow(i), KeepsAttempts(i), KeepsRecoveries(i)
  PROVE  Mail(i)' = Mail(i)
<1>1. OtherAttempts(i)' = OtherAttempts(i)
  BY MailFrame, OthersFrame
<1>2. Mail(i)' = [Mail(i) EXCEPT !.others = OtherAttempts(i)]
  BY <1>1, MailFrame
<1> QED BY <1>2 DEF Mail

LEMMA SameRecoveries ==
  ASSUME NEW i,
         \A p \in Pollers : poll'[p].stale \cup {poll'[p].current} = poll[p].stale \cup {poll[p].current}
  PROVE  KeepsRecoveries(i)
BY DEF KeepsRecoveries, BeingRecovered

LEMMA SameHandler ==
  ASSUME NEW i, KeepsHandler(i)
  PROVE  Handler(i)' = Handler(i)
<1>1. \A pcs \in {{"claimed", "blocked"}, {"cleared"}, {"invoked", "calling", "answered"}} :
        Handled(i, pcs)' <=> Handled(i, pcs)
  <2>1. ASSUME NEW w \in Workers, Handles(w, i),
               NEW pcs \in {{"claimed", "blocked"}, {"cleared"}, {"invoked", "calling", "answered"}}
        PROVE  worker'[w].pc \in pcs <=> worker[w].pc \in pcs
    BY <2>1 DEF KeepsHandler, Stage
  <2> QED BY <2>1 DEF KeepsHandler, Handled
<1> QED BY <1>1 DEF Handler

ShowsHandlers ==
  \A j \in Jobs :
    /\ \A w \in Workers : Handles(w, j) => Handler(j) = Stage(worker[w].pc)
    /\ (\A w \in Workers : ~Handles(w, j)) => Handler(j) = "none"

\* The only worker of a job is the one its handler shows.
LEMMA HandlerIs == IInv => ShowsHandlers
<1> SUFFICES ASSUME IInv, NEW j \in Jobs
             PROVE  /\ \A w \in Workers : Handles(w, j) => Handler(j) = Stage(worker[w].pc)
                    /\ (\A w \in Workers : ~Handles(w, j)) => Handler(j) = "none"
  BY DEF ShowsHandlers
<1>1. ASSUME NEW w \in Workers, Handles(w, j) PROVE Handler(j) = Stage(worker[w].pc)
  <2>1. \A pcs : Handled(j, pcs) <=> worker[w].pc \in pcs
    BY <1>1 DEF Handled, IInv, OneWorkerPerJob
  <2> QED BY <2>1 DEF Handler, Stage
<1>2. (\A w \in Workers : ~Handles(w, j)) => Handler(j) = "none"
  BY DEF Handler, Handled
<1> QED BY <1>1, <1>2

LEMMA MailIsRow == IInv => \A j \in Jobs : Mail(j) # None
<1> SUFFICES ASSUME IInv, NEW j \in Jobs PROVE Mail(j) \in Purge!MailRow
  BY NoRowAssumption
<1>1. MailStatus(j) \in Purge!MailStatus
  BY RowsTyped DEF MailStatus, Purge!MailStatus, JobRow, JobStatus, Terminal
<1>2. OtherAttempts(j) \in Purge!Others
  BY DEF OtherAttempts, Purge!Others
<1>3. job[j].status = "processing" => attempt[job[j].claim].invoked \in BOOLEAN
  BY RowsTyped DEF AttemptRow, IInv, ClaimInv
<1>4. /\ (job[j].status = "processing" /\ attempt[job[j].claim].invoked) \in BOOLEAN
      /\ CallIsClosed(j) \in BOOLEAN
      /\ (job[j].status \notin Terminal /\ KeepsTime(j)) \in BOOLEAN
  BY <1>3 DEF CallIsClosed, KeepsTime
<1> QED BY <1>1, <1>2, <1>4, Zenon DEF Mail, Purge!MailRow

LEMMA OneChanges ==
  ASSUME NEW j \in Jobs, \A i \in Jobs : i # j => Keeps(i)
  PROVE  /\ Mails' = [Mails EXCEPT ![j] = Mail(j)'] /\ Handlers' = [Handlers EXCEPT ![j] = Handler(j)']
         /\ Mails[j] = Mail(j) /\ Handlers[j] = Handler(j)
BY DEF Keeps, Mails, Handlers

LEMMA NothingChanges ==
  ASSUME \A i \in Jobs : Keeps(i)
  PROVE  UNCHANGED Purge!mailVars
BY DEF Keeps, Mails, Handlers, Purge!mailVars

\* A step of a worker writes its own job and attempt.
OwnChanges(w) ==
  /\ Live(w)
  /\ \A i \in Jobs : i # worker[w].job => job'[i] = job[i]
  /\ \A x \in Attempts : x # worker[w].attempt => attempt'[x] = attempt[x]
  /\ \A u \in Workers : u # w => worker'[u] = worker[u]
  /\ attempt'[worker[w].attempt].job = worker[w].job
  /\ worker'[w].pc = "idle" \/ worker'[w].job = worker[w].job
  /\ poll' = poll

LEMMA HandlingChanges ==
  ASSUME IInv, NEW w \in Workers, Handling(w)
  PROVE  OwnChanges(w)
<1> DEFINE j == worker[w].job
           a == worker[w].attempt
<1>1. Live(w)
  BY DEF Handling, CheckGates, BlockClaimed, Defer, Invoke, CallProvider, Answer, RecordAccepted,
         RecordFinal, RecordRetry, At, Live
<1>2. j \in Jobs /\ a \in Attempts /\ attempt[a].job = j /\ attempt[a] \in AttemptRow
  BY <1>1, LiveFacts, RowsTyped
<1>3. poll' = poll /\ \A u \in Workers : u # w => worker'[u] = worker[u]
  BY RowsTyped DEF Handling, CheckGates, BlockClaimed, Defer, Invoke, CallProvider, Answer, RecordAccepted,
         RecordFinal, RecordRetry, Goto, Done
<1>4. worker'[w].pc = "idle" \/ worker'[w].job = j
  <2>1. worker[w] \in WorkerState
    BY RowsTyped
  <2>2. CASE Done(w)
    BY <2>2, RowsTyped DEF Done, Idle
  <2>3. ASSUME NEW pc, Goto(w, pc) PROVE worker'[w].job = j
    BY <2>1, <2>3, RowsTyped DEF Goto, WorkerState
  <2>4. ASSUME NEW outcome, Answer(w, outcome) PROVE worker'[w].job = j
    BY <2>1, <2>4, RowsTyped DEF Answer, WorkerState
  <2> QED BY <2>2, <2>3, <2>4 DEF Handling, CheckGates, BlockClaimed, Defer, Invoke, CallProvider,
                                  RecordAccepted, RecordFinal, RecordRetry
<1>5. \A i \in Jobs : i # j => job'[i] = job[i]
  BY RowsTyped DEF Handling, CheckGates, BlockClaimed, Defer, Invoke, CallProvider, Answer, RecordAccepted,
         RecordFinal, RecordRetry
<1>6. \A x \in Attempts : x # a => attempt'[x] = attempt[x]
  BY RowsTyped DEF Handling, CheckGates, BlockClaimed, Defer, Invoke, CallProvider, Answer, RecordAccepted,
         RecordFinal, RecordRetry
<1>7. attempt'[a].job = j
  <2>1. CASE attempt' = attempt
    BY <1>2, <2>1
  <2>2. CASE Invoke(w)
    BY <1>2, <2>2, RowsTyped DEF Invoke, InvokedRow, AttemptRow
  <2>3. CASE BlockClaimed(w)
    BY <1>2, <2>3, RowsTyped DEF BlockClaimed, AttemptRow
  <2>4. CASE Defer(w)
    BY <1>2, <2>4, RowsTyped DEF Defer, AttemptRow
  <2>5. CASE RecordAccepted(w)
    BY <1>2, <2>5, RowsTyped DEF RecordAccepted, AttemptRow
  <2>6. CASE RecordFinal(w)
    <3>1. PICK s : attempt' = [attempt EXCEPT ![a] =
                                [attempt[a] EXCEPT !.status = s, !.completed = TRUE, !.closed = TRUE]]
      BY <2>6 DEF RecordFinal
    <3> QED BY <1>2, <3>1, RowsTyped DEF AttemptRow
  <2>7. CASE RecordRetry(w)
    <3>1. PICK s : attempt' = [attempt EXCEPT ![a] = [attempt[a] EXCEPT !.status = s, !.completed = TRUE]]
      BY <2>7 DEF RecordRetry
    <3> QED BY <1>2, <3>1, RowsTyped DEF AttemptRow
  <2> QED BY <2>1, <2>2, <2>3, <2>4, <2>5, <2>6, <2>7 DEF Handling, CheckGates, CallProvider, Answer
<1> QED BY <1>1, <1>3, <1>4, <1>5, <1>6, <1>7 DEF OwnChanges

\* What the step leaves alone, and what the worker shows before and after it.
LEMMA WorkerStep ==
  ASSUME IInv, IInv', NEW w \in Workers, OwnChanges(w), NEW j, j = worker[w].job
  PROVE  /\ KeepsRecoveries(j) /\ Mails[j] = Mail(j) /\ Mail(j) # None
         /\ Handlers[j] = Stage(worker[w].pc)
         /\ Mails' = [Mails EXCEPT ![j] = Mail(j)']
         /\ Handlers' = [Handlers EXCEPT ![j] = Stage(worker'[w].pc)]
<1> DEFINE a == worker[w].attempt
<1>1. /\ j \in Jobs /\ a \in Attempts /\ job[j].status = "processing" /\ job[j].claim = a
      /\ attempt[a].job = j /\ Live(w)
  BY LiveFacts DEF OwnChanges
<1>2. \A i : KeepsRecoveries(i)
  BY SameRecoveries DEF OwnChanges
<1>3. ASSUME NEW i \in Jobs, i # j PROVE Keeps(i)
  <2>1. KeepsRow(i) /\ KeepsAttempts(i)
    BY <1>1, <1>3 DEF KeepsRow, KeepsAttempts, OwnChanges
  <2>2. KeepsHandler(i)
    BY <1>3 DEF KeepsHandler, Handles, OwnChanges
  <2> QED BY <1>2, <2>1, <2>2, SameMail, SameHandler DEF Keeps
<1>4. Handler(j) = Stage(worker[w].pc)
  BY <1>1, HandlerIs DEF Handles, Live, ShowsHandlers
<1>5. Handler(j)' = Stage(worker'[w].pc)
  <2>1. ShowsHandlers'
    BY HandlerIs, PTL
  <2>2. /\ \A u \in Workers : Handles(u, j)' => Handler(j)' = Stage(worker'[u].pc)
        /\ (\A u \in Workers : ~Handles(u, j)') => Handler(j)' = "none"
    BY <1>1, <2>1 DEF ShowsHandlers
  <2>3. CASE worker'[w].pc # "idle"
    <3>1. Handles(w, j)'
      BY <2>3 DEF Handles, OwnChanges
    <3> QED BY <2>2, <3>1
  <2>4. CASE worker'[w].pc = "idle"
    <3>1. \A u \in Workers : Handles(u, j) => u = w
      BY <1>1 DEF Handles, Live, IInv, OneWorkerPerJob
    <3>2. \A u \in Workers : ~Handles(u, j)'
      BY <2>4, <3>1 DEF Handles, OwnChanges
    <3> QED BY <2>2, <2>4, <3>2 DEF Stage
  <2> QED BY <2>3, <2>4
<1>6. Mail(j) # None
  BY <1>1, MailIsRow
<1> QED BY <1>1, <1>2, <1>3, <1>4, <1>5, <1>6, OneChanges

\* A mail by its columns.
Columns(s, i, c, d, o) == [status |-> s, invoked |-> i, closed |-> c, deferred |-> d, others |-> o]

LEMMA EndedMail ==
  ASSUME NEW j, NEW status, NEW deferred
  PROVE  /\ Purge!Ended(Mail(j), status) = Columns(status, FALSE, TRUE, FALSE, OtherAttempts(j))
         /\ [Purge!Ended(Mail(j), status) EXCEPT !.deferred = deferred]
              = Columns(status, FALSE, TRUE, deferred, OtherAttempts(j))
         /\ [Purge!Ended(Mail(j), status) EXCEPT !.others = Mail(j).others]
              = Columns(status, FALSE, TRUE, FALSE, OtherAttempts(j))
<1>1. Mail(j).others = OtherAttempts(j)
  BY DEF Mail
<1>2. Purge!Ended(Mail(j), status) = Columns(status, FALSE, TRUE, FALSE, OtherAttempts(j))
  BY <1>1 DEF Purge!Ended, Columns
<1>3. PICK row, no, yes : row = Purge!Ended(Mail(j), status) /\ no = FALSE /\ yes = TRUE
  OBVIOUS
<1>4. row = Columns(status, no, yes, no, OtherAttempts(j))
  BY <1>2, <1>3
<1>5. /\ [row EXCEPT !.deferred = deferred] = Columns(status, no, yes, deferred, OtherAttempts(j))
      /\ [row EXCEPT !.others = Mail(j).others] = Columns(status, no, yes, no, OtherAttempts(j))
  BY <1>1, <1>4 DEF Columns
<1> QED BY <1>2, <1>3, <1>5

\* A worker that ends its attempt shows the job's new status and nothing unknown.
LEMMA EndingView ==
  ASSUME IInv, IInv', ViewInv, NEW w \in Workers, OwnChanges(w), worker'[w] = Idle,
         NEW j, NEW a, j = worker[w].job, a = worker[w].attempt,
         attempt'[a].completed, attempt'[a].status = "delivery_unknown" => attempt'[a].closed,
         job'[j].status # "processing",
         job'[j].status = "delivery_unknown" => attempt'[a].status = "delivery_unknown"
  PROVE  /\ Mail(j)' = Columns(MailStatus(j)', FALSE, TRUE,
                               job'[j].status \notin Terminal /\ KeepsTime(j)', OtherAttempts(j))
         /\ Stage(worker'[w].pc) = "none"
<1>1. /\ j \in Jobs /\ a \in Attempts /\ job[j].status = "processing" /\ job[j].claim = a
      /\ attempt[a].job = j /\ attempt'[a].job = j
      /\ \A x \in Attempts : x # a => attempt'[x] = attempt[x]
  BY LiveFacts DEF OwnChanges
<1>2. KeepsRecoveries(j)
  BY WorkerStep
<1>3. Incomplete(j)' = Incomplete(j)
  BY <1>1 DEF Incomplete, AttemptsOf, Claims
<1>4. OtherAttempts(j)' = OtherAttempts(j)
  BY <1>2, <1>3, OthersFrame
<1>5. CallIsClosed(j)' = TRUE
  <2>1. UnknownAttempts(j) = {}
    BY <1>1 DEF UnknownAttempts, AttemptsOf, ViewInv, UnknownInv
  <2>2. \A x \in Attempts : x \in UnknownAttempts(j)' <=> x = a /\ attempt'[a].status = "delivery_unknown"
    BY <1>1, <2>1 DEF UnknownAttempts, AttemptsOf
  <2>3. UnknownAttempts(j)' \subseteq Attempts
    BY DEF UnknownAttempts, AttemptsOf
  <2>4. CallIsClosed(j)'
    BY <1>1, <2>2, <2>3 DEF CallIsClosed
  <2> QED BY <2>4 DEF CallIsClosed
<1>6. Mail(j)' = Columns(MailStatus(j)',
                         job'[j].status = "processing" /\ attempt'[job'[j].claim].invoked,
                         CallIsClosed(j)',
                         job'[j].status \notin Terminal /\ KeepsTime(j)',
                         OtherAttempts(j)')
  BY DEF Mail, Columns
<1>7. (job'[j].status = "processing" /\ attempt'[job'[j].claim].invoked) = FALSE
  OBVIOUS
<1>8. Stage(worker'[w].pc) = "none"
  BY DEF Idle, Stage
<1> QED BY <1>4, <1>5, <1>6, <1>7, <1>8, Zenon

LEMMA EndingAnswers ==
  ASSUME NEW j, NEW row, Mails[j] = Mail(j), Mail(j) # None, Handlers[j] = "calling",
         Mails' = [Mails EXCEPT ![j] = row], Handlers' = [Handlers EXCEPT ![j] = "none"],
         NEW status \in Purge!MailStatus \ {"processing"},
         row = Columns(status, FALSE, TRUE, FALSE, OtherAttempts(j))
  PROVE  Purge!Working(j)
<1>1. Mail(j).others = OtherAttempts(j) /\ OtherAttempts(j) \in Purge!Others
  BY DEF Mail, OtherAttempts, Purge!Others
<1>2. row = [Purge!Ended(Mail(j), status) EXCEPT !.others = Mail(j).others]
  BY EndedMail
<1>3. Mail(j).others \in Purge!OthersAfter(Mail(j))
  BY DEF Purge!OthersAfter
<1>4. Purge!Written(j, [Purge!Ended(Mails[j], status) EXCEPT !.others = Mail(j).others])
  BY <1>2 DEF Purge!Written
<1>5. Purge!Answer(j, status, Mail(j).others)
  BY <1>3, <1>4 DEF Purge!Answer, Purge!Goes
<1> QED BY <1>1, <1>5 DEF Purge!Working

LEMMA HandlingMail ==
  ASSUME IInv, IInv', ViewInv, NEW w \in Workers, Handling(w)
  PROVE  [Purge!MailNext]_(Purge!mailVars)
<1>0. PICK j, a : j = worker[w].job /\ a = worker[w].attempt
  OBVIOUS
<1>1. OwnChanges(w)
  BY HandlingChanges
<1>2. /\ j \in Jobs /\ a \in Attempts /\ job[j] \in JobRow /\ attempt[a] \in AttemptRow
      /\ job[j].status = "processing" /\ job[j].claim = a /\ attempt[a].job = j
      /\ attempt[a].invoked <=> worker[w].pc \notin BeforeBoundary
      /\ job[j].retryCount = worker[w].retryCount /\ Live(w)
  BY <1>0, <1>1, LiveFacts, RowsTyped DEF OwnChanges, KnowsBoundary, IInv, WorkerInv, HoldsClaim
<1>3. /\ KeepsRecoveries(j) /\ Mails[j] = Mail(j) /\ Mail(j) # None
      /\ Handlers[j] = Stage(worker[w].pc)
      /\ Mails' = [Mails EXCEPT ![j] = Mail(j)']
      /\ Handlers' = [Handlers EXCEPT ![j] = Stage(worker'[w].pc)]
  BY <1>0, <1>1, WorkerStep
<1>4. Purge!Working(j) \/ Purge!PassGate(j) => Purge!MailNext
  BY <1>2 DEF Purge!MailNext
<1>5. ASSUME worker'[w] = Idle,
             attempt'[a].completed, attempt'[a].status = "delivery_unknown" => attempt'[a].closed,
             job'[j].status # "processing",
             job'[j].status = "delivery_unknown" => attempt'[a].status = "delivery_unknown",
             NEW status, NEW deferred \in BOOLEAN, status = MailStatus(j)',
             deferred <=> job'[j].status \notin Terminal /\ KeepsTime(j)'
      PROVE  /\ Mails' = [Mails EXCEPT ![j] = Columns(status, FALSE, TRUE, deferred, OtherAttempts(j))]
             /\ Handlers' = [Handlers EXCEPT ![j] = "none"]
  <2>1. /\ Mail(j)' = Columns(MailStatus(j)', FALSE, TRUE,
                              job'[j].status \notin Terminal /\ KeepsTime(j)', OtherAttempts(j))
        /\ Stage(worker'[w].pc) = "none"
    BY <1>0, <1>1, <1>5, EndingView
  <2>2. (job'[j].status \notin Terminal /\ KeepsTime(j)') = deferred
    BY <1>5
  <2>3. Mail(j)' = Columns(status, FALSE, TRUE, deferred, OtherAttempts(j))
    BY <1>5, <2>1, <2>2, Zenon
  <2> QED BY <1>3, <2>1, <2>3
<1>6. ASSUME job' = job, attempt' = attempt
      PROVE  Mails' = Mails
  <2>1. KeepsRow(j) /\ KeepsAttempts(j)
    BY <1>6 DEF KeepsRow, KeepsAttempts
  <2>2. Mail(j)' = Mail(j)
    BY <1>2, <1>3, <2>1, SameMail
  <2> QED BY <1>2, <1>3, <2>2 DEF Mails
<1>7. ASSUME job' = job, attempt' = attempt, Stage(worker'[w].pc) = Stage(worker[w].pc)
      PROVE  UNCHANGED Purge!mailVars
  <2>1. Handlers' = Handlers
    BY <1>2, <1>3, <1>7 DEF Handlers
  <2> QED BY <1>6, <1>7, <2>1 DEF Purge!mailVars
<1>8. CASE CheckGates(w)
  <2>1. CASE Goto(w, "cleared")
    <3>1. Stage(worker[w].pc) = "claimed" /\ Stage(worker'[w].pc) = "cleared"
      BY <1>8, <2>1, RowsTyped DEF CheckGates, At, Goto, Stage, WorkerState
    <3>2. Mails' = Mails
      BY <1>6, <1>8 DEF CheckGates
    <3>3. Purge!PassGate(j)
      BY <1>3, <3>1, <3>2 DEF Purge!PassGate, Purge!Goes
    <3> QED BY <1>4, <3>3
  <2>2. CASE Goto(w, "blocked")
    <3>1. Stage(worker[w].pc) = "claimed" /\ Stage(worker'[w].pc) = "claimed"
      BY <1>8, <2>2, RowsTyped DEF CheckGates, At, Goto, Stage, WorkerState
    <3> QED BY <1>7, <1>8, <3>1 DEF CheckGates
  <2> QED BY <1>8, <2>1, <2>2 DEF CheckGates
<1>9. ASSUME NEW accepted \in BOOLEAN, CallProvider(w, accepted)
      PROVE  UNCHANGED Purge!mailVars
  <2>1. Stage(worker'[w].pc) = Stage(worker[w].pc)
    BY <1>9, RowsTyped DEF CallProvider, At, Goto, Stage, WorkerState
  <2> QED BY <1>7, <1>9, <2>1 DEF CallProvider
<1>10. ASSUME NEW outcome \in Outcomes, Answer(w, outcome)
      PROVE  UNCHANGED Purge!mailVars
  <2>1. Stage(worker'[w].pc) = Stage(worker[w].pc)
    BY <1>10, RowsTyped DEF Answer, At, Stage, WorkerState
  <2> QED BY <1>7, <1>10, <2>1 DEF Answer
<1>11. CASE BlockClaimed(w)
  <2>1. /\ worker'[w] = Idle /\ job'[j].status = "failed"
        /\ attempt'[a].completed /\ attempt'[a].status = "blocked" /\ Stage(worker[w].pc) = "claimed"
    BY <1>0, <1>2, <1>11, RowsTyped DEF BlockClaimed, Done, JobRow, AttemptRow, At, Stage
  <2>2. MailStatus(j)' = "settled" /\ job'[j].status \in Terminal
    BY <2>1 DEF MailStatus, Terminal
  <2>3. /\ Mails' = [Mails EXCEPT ![j] = Columns("settled", FALSE, TRUE, FALSE, OtherAttempts(j))]
        /\ Handlers' = [Handlers EXCEPT ![j] = "none"]
    BY <1>5, <2>1, <2>2
  <2>4. Columns("settled", FALSE, TRUE, FALSE, OtherAttempts(j)) = Purge!Ended(Mail(j), "settled")
    BY EndedMail
  <2>5. Purge!Block(j)
    BY <1>3, <2>1, <2>3, <2>4 DEF Purge!Block, Purge!Written, Purge!Goes
  <2> QED BY <1>4, <2>5 DEF Purge!Working
<1>12. CASE Defer(w)
  <2>1. /\ worker'[w] = Idle /\ job'[j].status = "queued"
        /\ attempt'[a].completed /\ attempt'[a].status = "deferred" /\ Stage(worker[w].pc) = "cleared"
    BY <1>0, <1>2, <1>12, RowsTyped DEF Defer, DeferredRow, Done, JobRow, AttemptRow, At, Stage
  <2>2. MailStatus(j)' = "waiting" /\ job'[j].status \notin Terminal
    BY <2>1 DEF MailStatus, Terminal
  <2>3. PICK deferred \in BOOLEAN : deferred <=> KeepsTime(j)'
    OBVIOUS
  <2>4. /\ Mails' = [Mails EXCEPT ![j] = Columns("waiting", FALSE, TRUE, deferred, OtherAttempts(j))]
        /\ Handlers' = [Handlers EXCEPT ![j] = "none"]
    BY <1>5, <2>1, <2>2, <2>3
  <2>5. Columns("waiting", FALSE, TRUE, deferred, OtherAttempts(j)) =
          [Purge!Ended(Mail(j), "waiting") EXCEPT !.deferred = deferred]
    BY EndedMail
  <2>6. Purge!DeferMail(j, deferred)
    BY <1>3, <2>1, <2>4, <2>5 DEF Purge!DeferMail, Purge!Written, Purge!Goes
  <2> QED BY <1>4, <2>6 DEF Purge!Working
<1>13. CASE Invoke(w)
  <2>1. /\ job' = job /\ attempt'[a] = InvokedRow(attempt[a])
        /\ \A x \in Attempts : x # a => attempt'[x] = attempt[x]
        /\ Stage(worker[w].pc) = "cleared" /\ Stage(worker'[w].pc) = "calling"
    BY <1>0, <1>2, <1>13, RowsTyped DEF Invoke, At, Goto, Stage, WorkerState
  <2>2. /\ attempt'[a].invoked /\ attempt'[a].job = j /\ attempt'[a].status # "delivery_unknown"
        /\ attempt'[a].completed = attempt[a].completed
    BY <1>2, <2>1 DEF InvokedRow, AttemptRow
  <2>3. Incomplete(j)' = Incomplete(j)
    BY <1>2, <2>1, <2>2 DEF Incomplete, AttemptsOf, Claims
  <2>4. OtherAttempts(j)' = OtherAttempts(j)
    BY <1>3, <2>3, OthersFrame
  <2>5. CallIsClosed(j)' = TRUE /\ CallIsClosed(j) = TRUE
    <3>1. UnknownAttempts(j) = {} /\ UnknownAttempts(j)' = {}
      BY <1>2, <2>1, <2>2 DEF UnknownAttempts, AttemptsOf, ViewInv, UnknownInv
    <3> QED BY <1>2, <2>1, <3>1 DEF CallIsClosed
  <2>6. MailStatus(j)' = MailStatus(j) /\ KeepsTime(j)' = KeepsTime(j)
    BY <2>1 DEF MailStatus, KeepsTime
  <2>7. (job'[j].status = "processing" /\ attempt'[job'[j].claim].invoked) = TRUE
    BY <1>2, <2>1, <2>2
  <2>8. Mail(j)' = Columns(MailStatus(j), TRUE, TRUE, job[j].status \notin Terminal /\ KeepsTime(j),
                           OtherAttempts(j))
    <3>1. Mail(j)' = Columns(MailStatus(j)', job'[j].status = "processing" /\ attempt'[job'[j].claim].invoked,
                             CallIsClosed(j)', job'[j].status \notin Terminal /\ KeepsTime(j)', OtherAttempts(j)')
      BY DEF Mail, Columns
    <3> QED BY <2>1, <2>4, <2>5, <2>6, <2>7, <3>1, Zenon
  <2>9. [Mail(j) EXCEPT !.invoked = TRUE] =
          Columns(MailStatus(j), TRUE, TRUE, job[j].status \notin Terminal /\ KeepsTime(j), OtherAttempts(j))
    <3>1. Mail(j) = Columns(MailStatus(j), job[j].status = "processing" /\ attempt[job[j].claim].invoked,
                            TRUE, job[j].status \notin Terminal /\ KeepsTime(j), OtherAttempts(j))
      BY <2>5 DEF Mail, Columns
    <3>2. PICK row, i, d, yes :
            /\ row = Mail(j) /\ d = (job[j].status \notin Terminal /\ KeepsTime(j)) /\ yes = TRUE
            /\ i = (job[j].status = "processing" /\ attempt[job[j].claim].invoked)
      OBVIOUS
    <3>3. row = Columns(MailStatus(j), i, yes, d, OtherAttempts(j))
      BY <3>1, <3>2
    <3>4. [row EXCEPT !.invoked = yes] = Columns(MailStatus(j), yes, yes, d, OtherAttempts(j))
      BY <3>3 DEF Columns
    <3> QED BY <3>2, <3>4
  <2>10. Purge!Call(j)
    BY <1>3, <2>1, <2>8, <2>9 DEF Purge!Call, Purge!Goes
  <2> QED BY <1>4, <2>10 DEF Purge!Working
<1>14. CASE RecordAccepted(w)
  <2>1. /\ worker'[w] = Idle /\ job'[j].status = "sent"
        /\ attempt'[a].completed /\ attempt'[a].status = "succeeded" /\ Stage(worker[w].pc) = "calling"
    BY <1>0, <1>2, <1>14, RowsTyped DEF RecordAccepted, Done, JobRow, AttemptRow, At, Stage
  <2>2. MailStatus(j)' \in {"settled"} /\ job'[j].status \in Terminal
    BY <2>1 DEF MailStatus, Terminal
  <2>3. PICK m \in {"settled"} : m = MailStatus(j)'
    BY <2>2
  <2>4. /\ Mails' = [Mails EXCEPT ![j] = Columns(m, FALSE, TRUE, FALSE, OtherAttempts(j))]
        /\ Handlers' = [Handlers EXCEPT ![j] = "none"]
    BY <1>5, <2>1, <2>2, <2>3
  <2> QED BY <1>3, <1>4, <2>1, <2>4, EndingAnswers DEF Purge!MailStatus
<1>15. CASE RecordFinal(w)
  <2> DEFINE s == IF worker[w].outcome = "unknown" THEN "delivery_unknown" ELSE "failed"
  <2>1. /\ worker'[w] = Idle /\ job'[j] = [job[j] EXCEPT !.status = s, !.scheduledAt = None]
        /\ attempt'[a] = [attempt[a] EXCEPT !.status = s, !.completed = TRUE, !.closed = TRUE]
        /\ Stage(worker[w].pc) = "calling"
    BY <1>0, <1>2, <1>15, RowsTyped DEF RecordFinal, Done, At, Stage
  <2>2. s \in {"failed", "delivery_unknown"}
    OBVIOUS
  <2> HIDE DEF s
  <2>3. /\ job'[j].status = s /\ attempt'[a].status = s /\ attempt'[a].completed /\ attempt'[a].closed
    BY <1>2, <2>1 DEF JobRow, AttemptRow
  <2>4. /\ MailStatus(j)' \in {"settled", "delivery_unknown"} /\ job'[j].status \in Terminal
    BY <2>2, <2>3 DEF MailStatus, Terminal
  <2>5. PICK m \in {"settled", "delivery_unknown"} : m = MailStatus(j)'
    BY <2>4
  <2>6. /\ Mails' = [Mails EXCEPT ![j] = Columns(m, FALSE, TRUE, FALSE, OtherAttempts(j))]
        /\ Handlers' = [Handlers EXCEPT ![j] = "none"]
    BY <1>5, <2>1, <2>2, <2>3, <2>4, <2>5
  <2> QED BY <1>3, <1>4, <2>1, <2>6, EndingAnswers DEF Purge!MailStatus
<1>16. CASE RecordRetry(w)
  <2> DEFINE again == worker[w].retryCount \in DOMAIN RetryDelay
             s == IF again THEN "queued" ELSE "failed"
             z == IF again THEN "retry_scheduled" ELSE "failed"
  <2>1. /\ worker'[w] = Idle /\ Stage(worker[w].pc) = "calling"
        /\ job'[j] = [job[j] EXCEPT !.status = s, !.retryCount = NextRetryCount(worker[w].retryCount),
                                    !.scheduledAt = IF again THEN RetryDelay[worker[w].retryCount] ELSE None]
        /\ attempt'[a] = [attempt[a] EXCEPT !.status = z, !.completed = TRUE]
    BY <1>0, <1>2, <1>16, RowsTyped DEF RecordRetry, Done, At, Stage
  <2>2. s \in {"failed", "queued"} /\ z # "delivery_unknown"
    OBVIOUS
  <2> HIDE DEF s, z
  <2>3. /\ job'[j].status = s /\ attempt'[a].status = z /\ attempt'[a].completed
        /\ job'[j].retryCount = NextRetryCount(worker[w].retryCount)
    BY <1>2, <2>1 DEF JobRow, AttemptRow
  <2>4. MailStatus(j)' \in {"settled", "waiting"}
    BY <2>2, <2>3 DEF MailStatus
  <2>5. ~KeepsTime(j)'
    <3>1. worker[w].retryCount \in Nat
      BY RowsTyped DEF WorkerState
    <3> QED BY <2>3, <3>1 DEF KeepsTime, NextRetryCount
  <2>6. PICK m \in {"settled", "waiting"} : m = MailStatus(j)'
    BY <2>4
  <2>7. /\ Mails' = [Mails EXCEPT ![j] = Columns(m, FALSE, TRUE, FALSE, OtherAttempts(j))]
        /\ Handlers' = [Handlers EXCEPT ![j] = "none"]
    BY <1>5, <2>1, <2>2, <2>3, <2>5, <2>6
  <2> QED BY <1>3, <1>4, <2>1, <2>7, EndingAnswers DEF Purge!MailStatus
<1> QED BY <1>8, <1>9, <1>10, <1>11, <1>12, <1>13, <1>14, <1>15, <1>16 DEF Handling

\* A claim names its new attempt at once; none of the others can still be recovered by it.
LEMMA ClaimMails ==
  ASSUME IInv, IInv', ViewInv, NEW w \in Workers, NEW j \in Jobs, NEW a \in FreshAttempts, Claim(w, j, a)
  PROVE  Purge!MailNext
<1>1. a \in Attempts /\ Unused(a)
  BY DEF FreshAttempts, Unused
<1>2. /\ ~attempt[a].invoked /\ attempt[a].job = None /\ attempt[a] \in AttemptRow
      /\ job[j] \in JobRow /\ None \notin Jobs
  BY <1>1, RowsTyped, ConstantsAssumption DEF IInv, FreshInv
<1>3. /\ attempt'[a].job = j /\ ~attempt'[a].invoked /\ attempt'[a].status = "claimed"
      /\ \A x \in Attempts : x # a => attempt'[x] = attempt[x]
  BY <1>1, <1>2, RowsTyped DEF Claim, AttemptRow
<1>4. /\ job'[j].status = "processing" /\ job'[j].claim = a
      /\ job'[j].retryCount = job[j].retryCount /\ job'[j].scheduledAt = job[j].scheduledAt
      /\ \A i \in Jobs : i # j => job'[i] = job[i]
  BY <1>2, RowsTyped DEF Claim, ClaimedRow, JobRow
<1>5. job[j].status \in {"waiting", "queued"}
  BY DEF Claim, Claimable, WindowOver, RetryDue, LegacyDue
<1>6. /\ worker[w].pc = "idle" /\ worker'[w].pc = "claimed" /\ worker'[w].job = j
      /\ \A u \in Workers : u # w => worker'[u] = worker[u]
  BY RowsTyped DEF Claim, Chooses, Idle
<1>7. \A i : KeepsRecoveries(i)
  <2>1. \A p \in Pollers : poll'[p].current = poll[p].current /\ poll'[p].stale = poll[p].stale
    BY RowsTyped DEF Claim, Taken, PollState
  <2> QED BY <2>1, SameRecoveries
<1>8. ASSUME NEW i \in Jobs, i # j PROVE Keeps(i)
  <2>1. KeepsRow(i) /\ KeepsAttempts(i)
    BY <1>1, <1>2, <1>3, <1>4, <1>8 DEF KeepsRow, KeepsAttempts
  <2>2. KeepsHandler(i)
    BY <1>6, <1>8 DEF KeepsHandler, Handles
  <2> QED BY <1>7, <2>1, <2>2, SameMail, SameHandler DEF Keeps
<1>9. Handler(j) = "none" /\ Handler(j)' = "claimed"
  <2>1. \A u \in Workers : ~Handles(u, j)
    BY <1>5 DEF Handles, IInv, WorkerInv, Live, HoldsClaim
  <2>2. Handler(j) = "none"
    BY <2>1, HandlerIs DEF ShowsHandlers
  <2>3. ShowsHandlers'
    BY HandlerIs, PTL
  <2>4. Handles(w, j)'
    BY <1>6 DEF Handles
  <2>5. Handler(j)' = Stage(worker'[w].pc)
    BY <2>3, <2>4 DEF ShowsHandlers
  <2> QED BY <1>6, <2>2, <2>5 DEF Stage
<1>10. Incomplete(j)' = Incomplete(j)
  BY <1>1, <1>2, <1>3, <1>4, <1>5 DEF Incomplete, AttemptsOf, Claims
<1>11. OtherAttempts(j)' = OtherAttempts(j)
  BY <1>7, <1>10, OthersFrame
<1>12. CallIsClosed(j)' = TRUE /\ CallIsClosed(j) = TRUE
  <2>1. UnknownAttempts(j) = {} /\ UnknownAttempts(j)' = {}
    BY <1>1, <1>2, <1>3, <1>5 DEF UnknownAttempts, AttemptsOf, ViewInv, UnknownInv, Unused
  <2> QED BY <1>4, <1>5, <2>1 DEF CallIsClosed
<1>13. /\ MailStatus(j) = "waiting" /\ MailStatus(j)' = "processing"
       /\ (job'[j].status \notin Terminal /\ KeepsTime(j)') = KeepsTime(j)
       /\ (job[j].status \notin Terminal /\ KeepsTime(j)) = KeepsTime(j)
       /\ (job'[j].status = "processing" /\ attempt'[job'[j].claim].invoked) = FALSE
       /\ (job[j].status = "processing" /\ attempt[job[j].claim].invoked) = FALSE
  BY <1>3, <1>4, <1>5 DEF MailStatus, Terminal, KeepsTime
<1>14. Mail(j) = Columns("waiting", FALSE, TRUE, KeepsTime(j), OtherAttempts(j))
  <2>1. Mail(j) = Columns(MailStatus(j), job[j].status = "processing" /\ attempt[job[j].claim].invoked,
                          CallIsClosed(j), job[j].status \notin Terminal /\ KeepsTime(j), OtherAttempts(j))
    BY DEF Mail, Columns
  <2> QED BY <1>12, <1>13, <2>1, Zenon
<1>15. Mail(j)' = Columns("processing", FALSE, TRUE, KeepsTime(j), OtherAttempts(j))
  <2>1. Mail(j)' = Columns(MailStatus(j)', job'[j].status = "processing" /\ attempt'[job'[j].claim].invoked,
                           CallIsClosed(j)', job'[j].status \notin Terminal /\ KeepsTime(j)', OtherAttempts(j)')
    BY DEF Mail, Columns
  <2> QED BY <1>11, <1>12, <1>13, <2>1, Zenon
<1>16. Mail(j)' = [Mail(j) EXCEPT !.status = "processing"] /\ Mail(j).status = "waiting"
  <2>1. PICK row, i, c, d : row = Mail(j) /\ i = FALSE /\ c = TRUE /\ d = KeepsTime(j)
    OBVIOUS
  <2>2. /\ row = Columns("waiting", i, c, d, OtherAttempts(j))
        /\ Mail(j)' = Columns("processing", i, c, d, OtherAttempts(j))
    BY <1>14, <1>15, <2>1
  <2>3. [row EXCEPT !.status = "processing"] = Columns("processing", i, c, d, OtherAttempts(j))
    BY <2>2 DEF Columns
  <2>4. row.status = "waiting"
    BY <2>2 DEF Columns
  <2> QED BY <2>1, <2>2, <2>3, <2>4
<1>17. Mail(j) # None
  BY MailIsRow
<1>18. /\ Mails' = [Mails EXCEPT ![j] = Mail(j)'] /\ Handlers' = [Handlers EXCEPT ![j] = Handler(j)']
       /\ Mails[j] = Mail(j) /\ Handlers[j] = Handler(j)
  BY <1>8, OneChanges
<1>19. Purge!ClaimMail(j)
  BY <1>9, <1>16, <1>17, <1>18 DEF Purge!ClaimMail, Purge!Has, Purge!Goes
<1> QED BY <1>19 DEF Purge!MailNext, Purge!Working

\* Steps of a poll that leave rows, attempts and workers alone.
LEMMA PollingMail ==
  ASSUME IInv, UNCHANGED <<job, attempt, worker>>, \A i \in Jobs : KeepsRecoveries(i)
  PROVE  UNCHANGED Purge!mailVars
<1>1. ASSUME NEW i \in Jobs PROVE Keeps(i)
  <2>1. KeepsRow(i) /\ KeepsAttempts(i) /\ KeepsHandler(i)
    BY DEF KeepsRow, KeepsAttempts, KeepsHandler, Handles
  <2> QED BY <1>1, <2>1, SameMail, SameHandler DEF Keeps
<1> QED BY <1>1, NothingChanges

\* Any step in which every row, attempt and worker looks as before.
LEMMA ReadingMail ==
  ASSUME IInv, ViewInv, NEW p \in Pollers,
         BeginPoll(p) \/ (\E s \in poll[p].stale : InspectClaim(p, s)) \/ ReadDue(p) \/ EndPoll(p)
         \/ (\E j \in Jobs : NotClaimed(p, j))
  PROVE  UNCHANGED Purge!mailVars
<1>0. UNCHANGED <<job, attempt, worker>>
  BY DEF BeginPoll, InspectClaim, ReadDue, EndPoll, NotClaimed
<1>1. CASE BeginPoll(p)
  <2>1. /\ poll[p].stale = {} /\ poll[p].current = None
        /\ poll'[p].stale = StaleClaims /\ poll'[p].current = None
        /\ \A q \in Pollers : q # p => poll'[q] = poll[q]
    BY <1>1, RowsTyped DEF BeginPoll, NoPoll, ViewInv, PollInv, Acting
  <2>2. ASSUME NEW i \in Jobs, NEW x \in Incomplete(i), NEW s \in StaleClaims
        PROVE  s.attempt # x
    <3>1. PICK k \in Jobs : Stale(k) /\ s = [job |-> k, attempt |-> job[k].claim, retryCount |-> job[k].retryCount]
      BY DEF StaleClaims
    <3>2. job[k].status = "processing" /\ s.attempt = job[k].claim /\ attempt[job[k].claim].job = k
      BY <3>1 DEF Stale, IInv, ClaimInv
    <3> QED BY <3>2 DEF Incomplete, AttemptsOf, Claims
  <2>3. ASSUME NEW i \in Jobs PROVE KeepsRecoveries(i)
    BY <2>1, <2>2 DEF KeepsRecoveries, BeingRecovered
  <2> QED BY <1>0, <2>3, PollingMail
<1>2. ASSUME NEW c \in poll[p].stale, InspectClaim(p, c)
      PROVE  UNCHANGED Purge!mailVars
  <2>1. /\ poll[p].current = None
        /\ poll'[p].stale = poll[p].stale \ {c}
        /\ poll'[p].current = IF attempt[c.attempt].completed THEN None ELSE c
        /\ \A q \in Pollers : q # p => poll'[q] = poll[q]
    BY <1>2, RowsTyped DEF InspectClaim, ViewInv, PollInv, Acting, PollState
  <2>2. ASSUME NEW i \in Jobs, NEW x \in Incomplete(i) PROVE BeingRecovered(x)' <=> BeingRecovered(x)
    <3>1. ~attempt[x].completed
      BY DEF Incomplete
    <3>2. \A s : s # None /\ s.attempt = x =>
            (s \in poll'[p].stale \cup {poll'[p].current} <=> s \in poll[p].stale \cup {poll[p].current})
      BY <2>1, <3>1
    <3>3. \A q \in Pollers : \A s : s # None /\ s.attempt = x =>
            (s \in poll'[q].stale \cup {poll'[q].current} <=> s \in poll[q].stale \cup {poll[q].current})
      BY <2>1, <3>2
    <3> QED BY <3>3 DEF BeingRecovered
  <2> QED BY <1>0, <2>2, PollingMail DEF KeepsRecoveries
<1>3. CASE ReadDue(p) \/ EndPoll(p) \/ \E j \in Jobs : NotClaimed(p, j)
  <2>1. \A q \in Pollers : poll'[q].stale = poll[q].stale /\ poll'[q].current = poll[q].current
    <3>1. CASE ReadDue(p)
      BY <3>1, RowsTyped DEF ReadDue, PollState
    <3>2. CASE EndPoll(p)
      BY <3>2, RowsTyped DEF EndPoll, NoPoll, ViewInv, PollInv, Acting
    <3>3. CASE \E j \in Jobs : NotClaimed(p, j)
      BY <3>3, RowsTyped DEF NotClaimed, Taken, PollState
    <3> QED BY <1>3, <3>1, <3>2, <3>3
  <2>2. \A i : KeepsRecoveries(i)
    BY <2>1, SameRecoveries
  <2> QED BY <1>0, <2>2, PollingMail
<1> QED BY <1>1, <1>2, <1>3

\* The first statement of a recovery that finds the claim it has read.
LEMMA RecoverMails ==
  ASSUME IInv, ViewInv, NEW p \in Pollers, NEW s, NEW j, NEW a, s = poll[p].current, s # None,
         j = s.job, a = s.attempt, Abandoned(s), ClaimedBy(s), UNCHANGED <<attempt, worker>>,
         \A i \in Jobs : i # j => job'[i] = job[i],
         \A q \in Pollers : poll'[q].stale = poll[q].stale /\ poll'[q].current = poll[q].current,
         attempt[a].invoked => job'[j].status = "delivery_unknown",
         ~attempt[a].invoked => job'[j].status \in {"waiting", "queued"} /\ ~KeepsTime(j) /\ ~KeepsTime(j)'
  PROVE  Purge!MailNext
<1>1. /\ j \in Jobs /\ a \in Attempts /\ attempt[a].job = j /\ ~attempt[a].completed
      /\ job[j].status = "processing" /\ job[j].claim = a /\ attempt[a].invoked \in BOOLEAN
      /\ job'[j].status # "processing"
  BY RowsTyped DEF Abandoned, ClaimedBy, IInv, ClaimInv, AttemptRow
<1>2. \A i : KeepsRecoveries(i)
  BY SameRecoveries
<1>3. \A i : KeepsHandler(i)
  BY DEF KeepsHandler, Handles
<1>4. ASSUME NEW i \in Jobs, i # j PROVE Keeps(i)
  <2>1. KeepsRow(i) /\ KeepsAttempts(i)
    BY <1>4 DEF KeepsRow, KeepsAttempts
  <2> QED BY <1>2, <1>3, <2>1, SameMail, SameHandler DEF Keeps
<1>5. Handler(j) = "none" /\ Handler(j)' = "none"
  <2>1. \A u \in Workers : ~Handles(u, j)
    BY <1>1 DEF Handles, IInv, WorkerInv, Live, HoldsClaim, Abandoned
  <2>2. Handler(j) = "none"
    BY <1>1, <2>1, HandlerIs DEF ShowsHandlers
  <2> QED BY <1>3, <2>2, SameHandler
<1>6. OtherAttempts(j)' = (IF OtherAttempts(j) = "lost" THEN "lost" ELSE "closing")
  <2>1. Incomplete(j)' = Incomplete(j) \cup {a} /\ a \notin Incomplete(j)
    BY <1>1 DEF Incomplete, AttemptsOf, Claims
  <2>2. BeingRecovered(a)'
    BY DEF BeingRecovered
  <2>3. \A x \in Incomplete(j) : BeingRecovered(x)' <=> BeingRecovered(x)
    BY <1>2 DEF KeepsRecoveries
  <2>4. (\A x \in Incomplete(j)' : BeingRecovered(x)') <=> (\A x \in Incomplete(j) : BeingRecovered(x))
    BY <2>1, <2>2, <2>3
  <2> QED BY <2>1, <2>4 DEF OtherAttempts
<1>7. UnknownAttempts(j)' = {}
  BY <1>1 DEF UnknownAttempts, AttemptsOf, ViewInv, UnknownInv
<1>8. PICK c \in BOOLEAN : c <=> ~attempt[a].invoked
  BY <1>1
<1>9. CallIsClosed(j)' = c
  BY <1>7, <1>8 DEF CallIsClosed
<1>10. (job'[j].status \notin Terminal /\ KeepsTime(j)') = FALSE
  BY DEF Terminal
<1>11. PICK m : m = MailStatus(j)' /\ m = IF attempt[a].invoked THEN "delivery_unknown" ELSE "waiting"
  BY <1>1 DEF MailStatus
<1>12. Mail(j)' = Columns(m, FALSE, c, FALSE, OtherAttempts(j)')
  <2>1. Mail(j)' = Columns(MailStatus(j)', job'[j].status = "processing" /\ attempt'[job'[j].claim].invoked,
                           CallIsClosed(j)', job'[j].status \notin Terminal /\ KeepsTime(j)', OtherAttempts(j)')
    BY DEF Mail, Columns
  <2>2. (job'[j].status = "processing" /\ attempt'[job'[j].claim].invoked) = FALSE
    BY <1>1
  <2> QED BY <1>9, <1>10, <1>11, <2>1, <2>2, Zenon
<1>13. /\ Mail(j).status = "processing" /\ Mail(j).others = OtherAttempts(j)
       /\ Mail(j).invoked = attempt[a].invoked
       /\ ~attempt[a].invoked => ~Mail(j).deferred
  <2>1. MailStatus(j) = "processing"
    BY <1>1 DEF MailStatus
  <2>2. (job[j].status = "processing" /\ attempt[job[j].claim].invoked) = attempt[a].invoked
    BY <1>1
  <2>3. Mail(j).status = MailStatus(j) /\ Mail(j).others = OtherAttempts(j)
    BY DEF Mail
  <2>4. Mail(j).invoked = (job[j].status = "processing" /\ attempt[job[j].claim].invoked)
    BY DEF Mail
  <2>5. Mail(j).deferred = (job[j].status \notin Terminal /\ KeepsTime(j))
    BY DEF Mail
  <2> QED BY <2>1, <2>2, <2>3, <2>4, <2>5
<1>14. Mail(j) # None
  BY <1>1, MailIsRow
<1>15. /\ Mails' = [Mails EXCEPT ![j] = Mail(j)'] /\ Handlers' = [Handlers EXCEPT ![j] = Handler(j)']
       /\ Mails[j] = Mail(j) /\ Handlers[j] = Handler(j)
  BY <1>1, <1>4, OneChanges
<1>16. Handlers' = Handlers
  BY <1>1, <1>5, <1>15 DEF Handlers
<1>17. [status |-> IF Mail(j).invoked THEN "delivery_unknown" ELSE "waiting",
        invoked |-> FALSE, closed |-> ~Mail(j).invoked, deferred |-> FALSE,
        others |-> IF Mail(j).others = "lost" THEN "lost" ELSE "closing"]
         = Columns(m, FALSE, c, FALSE, OtherAttempts(j)')
  <2>1. (~Mail(j).invoked) = c
    BY <1>1, <1>8, <1>13
  <2>2. (IF Mail(j).invoked THEN "delivery_unknown" ELSE "waiting") = m
    BY <1>11, <1>13
  <2>3. (IF Mail(j).others = "lost" THEN "lost" ELSE "closing") = OtherAttempts(j)'
    BY <1>6, <1>13
  <2> QED BY <2>1, <2>2, <2>3, Zenon DEF Columns
<1>18. Purge!Recover(j)
  <2>1. Purge!Has(j, "processing")
    BY <1>13, <1>14, <1>15 DEF Purge!Has
  <2>2. Mails[j].invoked \/ Purge!Returns(j)
    BY <1>5, <1>13, <1>15 DEF Purge!Returns
  <2>3. Mails' = [Mails EXCEPT ![j] =
          [status |-> IF Mails[j].invoked THEN "delivery_unknown" ELSE "waiting",
           invoked |-> FALSE, closed |-> ~Mails[j].invoked, deferred |-> FALSE,
           others |-> IF Mails[j].others = "lost" THEN "lost" ELSE "closing"]]
    BY <1>12, <1>15, <1>17, Zenon
  <2> QED BY <1>16, <2>1, <2>2, <2>3, Zenon DEF Purge!Recover
<1> QED BY <1>1, <1>18 DEF Purge!MailNext, Purge!Working

\* A poll that is forgotten between the two statements of its recoveries.
LEMMA ForgettingMails ==
  ASSUME IInv, UNCHANGED <<job, attempt>>, \A i \in Jobs : KeepsHandler(i),
         \A p \in Pollers : \/ poll'[p] = NoPoll
                            \/ poll'[p].stale = poll[p].stale /\ poll'[p].current = poll[p].current
  PROVE  Purge!MailNext
<1> DEFINE S == {i \in Jobs : OtherAttempts(i)' # OtherAttempts(i)}
<1>1. \A i \in Jobs : /\ Incomplete(i)' = Incomplete(i)
                      /\ Mail(i)' = [Mail(i) EXCEPT !.others = OtherAttempts(i)']
                      /\ Handler(i)' = Handler(i)
  <2>1. \A i \in Jobs : KeepsRow(i) /\ KeepsAttempts(i)
    BY DEF KeepsRow, KeepsAttempts
  <2> QED BY <2>1, MailFrame, SameHandler
<1>2. \A x : BeingRecovered(x)' => BeingRecovered(x)
  BY DEF BeingRecovered, NoPoll
<1>3. \A i \in S : OtherAttempts(i) = "closing" /\ OtherAttempts(i)' = "lost"
  BY <1>1, <1>2 DEF OtherAttempts
<1>4. \A i : Mail(i).others = OtherAttempts(i)
  BY DEF Mail
<1>5. \A i \in S : Mail(i)' = Purge!Forgotten(Mail(i))
  BY <1>1, <1>3, <1>4 DEF Purge!Forgotten
<1>6. ASSUME NEW i \in Jobs \ S PROVE Mail(i)' = Mail(i)
  <2>1. Mail(i)' = [Mail(i) EXCEPT !.others = OtherAttempts(i)]
    BY <1>1
  <2> QED BY <2>1 DEF Mail
<1>7. \A i \in S : Mails[i] = Mail(i) /\ Mails[i] # None /\ Mails[i].others = "closing"
  BY <1>3, <1>4, MailIsRow DEF Mails
<1>8. Mails' = [i \in Jobs |-> IF i \in S THEN Purge!Forgotten(Mails[i]) ELSE Mails[i]]
  <2>1. \A i \in Jobs : Mail(i)' = IF i \in S THEN Purge!Forgotten(Mails[i]) ELSE Mails[i]
    BY <1>5, <1>6 DEF Mails
  <2> HIDE DEF S
  <2> QED BY <2>1 DEF Mails
<1>9. Handlers' = Handlers
  BY <1>1 DEF Handlers
<1>10. S \in SUBSET Jobs
  OBVIOUS
<1> HIDE DEF S
<1>11. Purge!RecoveriesEnd(S)
  BY <1>7, <1>8, <1>9 DEF Purge!RecoveriesEnd
<1> QED BY <1>10, <1>11 DEF Purge!MailNext

\* The second statement: the attempt is completed, if nothing else completed it.
LEMMA CloseMails ==
  ASSUME IInv, ViewInv, NEW p \in Pollers, CloseRecovered(p)
  PROVE  [Purge!MailNext]_(Purge!mailVars)
<1>0. PICK s, j, a : s = poll[p].current /\ j = s.job /\ a = s.attempt
  OBVIOUS
<1>1. /\ poll[p].phase \in {"closing_unknown", "closing_abandoned"} /\ s # None
      /\ j \in Jobs /\ a \in Attempts /\ attempt[a].job = j /\ attempt[a] \in AttemptRow
      /\ ~Claims(j, a) /\ job' = job /\ worker' = worker
  <2>1. poll[p].phase \in {"closing_unknown", "closing_abandoned"}
    BY DEF CloseRecovered
  <2>2. s \in Snapshot /\ j \in Jobs /\ a \in Attempts /\ attempt[a].job = j
    BY <1>0, <2>1, ActingFacts DEF Acting
  <2>3. s # None
    BY <2>2, NoRowAssumption
  <2>4. ~Claims(j, a)
    BY <1>0, <2>1 DEF IInv, RecoveryInv, ClaimedBy, Claims
  <2> QED BY <2>1, <2>2, <2>3, <2>4, RowsTyped DEF CloseRecovered
<1>2. /\ attempt'[a].completed /\ attempt'[a].job = j /\ attempt'[a].invoked = attempt[a].invoked
      /\ attempt'[a].closed = attempt[a].closed
      /\ attempt'[a].status = (IF poll[p].phase = "closing_unknown" THEN "delivery_unknown" ELSE "abandoned")
      /\ \A x \in Attempts : x # a => attempt'[x] = attempt[x]
  BY <1>0, <1>1, RowsTyped DEF CloseRecovered, AttemptRow
<1>3. /\ poll'[p].current = None /\ poll'[p].stale = poll[p].stale
      /\ \A q \in Pollers : q # p => poll'[q] = poll[q]
  BY RowsTyped DEF CloseRecovered, PollState
<1>4. \A x : x # a => (BeingRecovered(x)' <=> BeingRecovered(x))
  <2>1. \A q \in Pollers : \A c : c # None /\ c # s =>
          (c \in poll'[q].stale \cup {poll'[q].current} <=> c \in poll[q].stale \cup {poll[q].current})
    BY <1>0, <1>3
  <2>2. \A x : x # a => \A c : c.attempt = x => c # s
    BY <1>0
  <2> QED BY <2>1, <2>2 DEF BeingRecovered
<1>5. BeingRecovered(a)
  BY <1>0, <1>1 DEF BeingRecovered
<1>6. \A i : KeepsHandler(i)
  BY <1>1 DEF KeepsHandler, Handles
<1>7. ASSUME NEW i \in Jobs, i # j PROVE Keeps(i)
  <2>1. KeepsRow(i) /\ KeepsAttempts(i)
    BY <1>1, <1>2, <1>7 DEF KeepsRow, KeepsAttempts
  <2>2. KeepsRecoveries(i)
    BY <1>1, <1>4, <1>7 DEF KeepsRecoveries, Incomplete, AttemptsOf
  <2> QED BY <1>6, <2>1, <2>2, SameMail, SameHandler DEF Keeps
<1>8. Incomplete(j)' = Incomplete(j) \ {a}
  BY <1>1, <1>2 DEF Incomplete, AttemptsOf, Claims
<1>9. CallIsClosed(j)' = CallIsClosed(j)
  <2>1. CASE poll[p].phase = "closing_unknown"
    <3>1. /\ ~attempt[a].closed /\ job[j].claim = a /\ job[j].status = "delivery_unknown"
      BY <1>0, <2>1 DEF ViewInv, VerdictInv, KnowsCall
    <3>2. a \in UnknownAttempts(j)' /\ ~attempt'[a].closed
      BY <1>1, <1>2, <2>1, <3>1 DEF UnknownAttempts, AttemptsOf
    <3>3. \A x \in UnknownAttempts(j) : x = a
      BY <3>1 DEF UnknownAttempts, AttemptsOf, ViewInv, UnknownInv
    <3> QED BY <1>1, <3>1, <3>2, <3>3 DEF CallIsClosed
  <2>2. CASE poll[p].phase = "closing_abandoned"
    <3>1. ~attempt[a].invoked
      BY <1>0, <2>2 DEF ViewInv, VerdictInv, KnowsCall
    <3>2. a \notin UnknownAttempts(j) /\ a \notin UnknownAttempts(j)'
      BY <1>1, <1>2, <2>2, <3>1 DEF UnknownAttempts, AttemptsOf, ViewInv, UnknownInv
    <3>3. UnknownAttempts(j)' = UnknownAttempts(j)
      BY <1>2, <3>2 DEF UnknownAttempts, AttemptsOf
    <3>4. \A x \in UnknownAttempts(j) : attempt'[x] = attempt[x]
      BY <1>2, <3>2 DEF UnknownAttempts, AttemptsOf
    <3> QED BY <1>1, <3>3, <3>4 DEF CallIsClosed
  <2> QED BY <1>1, <2>1, <2>2
<1>10. Mail(j)' = [Mail(j) EXCEPT !.others = OtherAttempts(j)']
  <2>1. /\ MailStatus(j)' = MailStatus(j) /\ KeepsTime(j)' = KeepsTime(j)
        /\ (job'[j].status \notin Terminal /\ KeepsTime(j)') = (job[j].status \notin Terminal /\ KeepsTime(j))
    BY <1>1 DEF MailStatus, KeepsTime
  <2>2. (job'[j].status = "processing" /\ attempt'[job'[j].claim].invoked)
          = (job[j].status = "processing" /\ attempt[job[j].claim].invoked)
    BY <1>1, <1>2 DEF IInv, ClaimInv
  <2>3. Mail(j) = Columns(MailStatus(j), job[j].status = "processing" /\ attempt[job[j].claim].invoked,
                          CallIsClosed(j), job[j].status \notin Terminal /\ KeepsTime(j), OtherAttempts(j))
    BY DEF Mail, Columns
  <2>4. Mail(j)' = Columns(MailStatus(j)', job'[j].status = "processing" /\ attempt'[job'[j].claim].invoked,
                           CallIsClosed(j)', job'[j].status \notin Terminal /\ KeepsTime(j)', OtherAttempts(j)')
    BY DEF Mail, Columns
  <2>5. PICK row, i, c, d : /\ row = Mail(j) /\ c = CallIsClosed(j)
                            /\ i = (job[j].status = "processing" /\ attempt[job[j].claim].invoked)
                            /\ d = (job[j].status \notin Terminal /\ KeepsTime(j))
    OBVIOUS
  <2>6. /\ row = Columns(MailStatus(j), i, c, d, OtherAttempts(j))
        /\ Mail(j)' = Columns(MailStatus(j), i, c, d, OtherAttempts(j)')
    BY <1>9, <2>1, <2>2, <2>3, <2>4, <2>5, Zenon
  <2>7. [row EXCEPT !.others = OtherAttempts(j)'] = Columns(MailStatus(j), i, c, d, OtherAttempts(j)')
    BY <2>6 DEF Columns
  <2> QED BY <2>5, <2>6, <2>7
<1>11. Mail(j).others = OtherAttempts(j) /\ Mail(j) # None
  BY <1>1, MailIsRow DEF Mail
<1>12. /\ Mails' = [Mails EXCEPT ![j] = Mail(j)'] /\ Mails[j] = Mail(j)
       /\ Handlers' = [Handlers EXCEPT ![j] = Handler(j)'] /\ Handlers[j] = Handler(j)
  BY <1>1, <1>7, OneChanges
<1>13. Handlers' = Handlers
  BY <1>1, <1>6, <1>12, SameHandler DEF Handlers
<1>14. \/ OtherAttempts(j)' = OtherAttempts(j)
       \/ OtherAttempts(j) = "closing" /\ OtherAttempts(j)' = "none"
  <2>1. \A x \in Incomplete(j) : x # a => (BeingRecovered(x)' <=> BeingRecovered(x))
    BY <1>4
  <2>2. CASE \A x \in Incomplete(j) : BeingRecovered(x)
    <3>1. \A x \in Incomplete(j)' : BeingRecovered(x)'
      BY <1>8, <2>1, <2>2
    <3> QED BY <1>8, <2>2, <3>1 DEF OtherAttempts
  <2>3. CASE ~\A x \in Incomplete(j) : BeingRecovered(x)
    <3>1. PICK x \in Incomplete(j) : ~BeingRecovered(x)
      BY <2>3
    <3>2. x \in Incomplete(j)' /\ ~BeingRecovered(x)'
      BY <1>4, <1>5, <1>8, <3>1
    <3> QED BY <2>3, <3>1, <3>2 DEF OtherAttempts
  <2> QED BY <2>2, <2>3
<1>15. CASE OtherAttempts(j)' = OtherAttempts(j)
  <2>1. Mail(j)' = [Mail(j) EXCEPT !.others = OtherAttempts(j)]
    BY <1>10, <1>15
  <2>2. Mail(j)' = Mail(j)
    BY <2>1 DEF Mail
  <2>3. Mails' = Mails
    BY <1>1, <1>12, <2>2 DEF Mails
  <2> QED BY <1>13, <2>3 DEF Purge!mailVars
<1>16. CASE OtherAttempts(j) = "closing" /\ OtherAttempts(j)' = "none"
  <2>1. Mails' = [Mails EXCEPT ![j] = [Mails[j] EXCEPT !.others = "none"]]
    BY <1>10, <1>12, <1>16
  <2>2. Purge!Complete(j)
    BY <1>11, <1>12, <1>13, <1>16, <2>1 DEF Purge!Complete, Purge!EndedBy
  <2> QED BY <1>1, <2>2 DEF Purge!MailNext, Purge!Working
<1> QED BY <1>14, <1>15, <1>16

LEMMA RecoveringMail ==
  ASSUME IInv, ViewInv, NEW p \in Pollers, Recovery(p)
  PROVE  [Purge!MailNext]_(Purge!mailVars)
<1>0. PICK s, j, a : s = poll[p].current /\ j = s.job /\ a = s.attempt
  OBVIOUS
<1>1. poll[p].phase \in Acting =>
        /\ s \in Snapshot /\ s # None /\ Abandoned(s) /\ j \in Jobs /\ a \in Attempts /\ job[j] \in JobRow
  BY <1>0, NoRowAssumption, RowsTyped DEF IInv, RecoveryInv, Abandoned
<1>2. CASE MarkUnknown(p)
  <2>1. /\ poll[p].phase = "marking_unknown" /\ attempt[a].invoked
        /\ ClaimedBy(s) \/ job[j].status = "delivery_unknown"
        /\ s # None /\ Abandoned(s) /\ j \in Jobs /\ job[j] \in JobRow
    BY <1>0, <1>1, <1>2 DEF MarkUnknown, Acting, IInv, RecoveryInv
  <2>2. /\ UNCHANGED <<attempt, worker>>
        /\ \A q \in Pollers : poll'[q].stale = poll[q].stale /\ poll'[q].current = poll[q].current
    BY <1>2, RowsTyped DEF MarkUnknown, PollState
  <2>3. CASE ClaimedBy(s)
    <3>1. /\ \A i \in Jobs : i # j => job'[i] = job[i]
          /\ job'[j].status = "delivery_unknown"
      BY <1>0, <1>2, <2>1, <2>3, RowsTyped DEF MarkUnknown, ClaimedBy, JobRow
    <3>2. Purge!MailNext
      BY <1>0, <2>1, <2>2, <2>3, <3>1, RecoverMails
    <3> QED BY <3>2
  <2>4. CASE job[j].status = "delivery_unknown"
    <3>1. job' = job
      BY <1>0, <1>2, <2>4 DEF MarkUnknown
    <3>2. \A i : KeepsRecoveries(i)
      BY <2>2, SameRecoveries
    <3> QED BY <2>2, <3>1, <3>2, PollingMail
  <2> QED BY <2>1, <2>3, <2>4
<1>3. CASE Requeue(p)
  <2> DEFINE row == [job[j] EXCEPT
               !.status = IF s.retryCount = 0 /\ j \notin Legacy THEN "waiting" ELSE "queued",
               !.claimAge = None, !.claim = None]
             refused == ClaimedBy(s) /\ ~RowOK(j, row)
  <2>1. /\ poll[p].phase = "requeueing" /\ ~attempt[a].invoked
        /\ s # None /\ Abandoned(s) /\ j \in Jobs /\ job[j] \in JobRow
    BY <1>0, <1>1, <1>3 DEF Requeue, Acting, IInv, RecoveryInv
  <2>2. /\ UNCHANGED <<attempt, worker>>
        /\ job' = IF ClaimedBy(s) /\ ~refused THEN [job EXCEPT ![j] = row] ELSE job
        /\ poll' = [poll EXCEPT ![p] = IF refused THEN NoPoll
                                       ELSE [poll[p] EXCEPT !.phase = "closing_abandoned"]]
    BY <1>0, <1>3 DEF Requeue, ClaimedBy
  <2>3. /\ row.status = (IF s.retryCount = 0 /\ j \notin Legacy THEN "waiting" ELSE "queued")
        /\ row.scheduledAt = job[j].scheduledAt /\ row.retryCount = job[j].retryCount
    BY <2>1 DEF JobRow
  <2>4. CASE ClaimedBy(s) /\ ~refused
    <3>1. /\ \A i \in Jobs : i # j => job'[i] = job[i]
          /\ job'[j] = row
      BY <2>1, <2>2, <2>4, RowsTyped
    <3>2. \A q \in Pollers : poll'[q].stale = poll[q].stale /\ poll'[q].current = poll[q].current
      BY <2>2, <2>4, RowsTyped DEF PollState
    <3>3. job[j].retryCount = s.retryCount
      BY <1>0, <2>1, <2>4 DEF Abandoned
    <3>4. RowOK(j, row)
      BY <2>4
    <3>5. job'[j].status \in {"waiting", "queued"}
      BY <2>3, <3>1
    <3>6. ~KeepsTime(j) /\ ~KeepsTime(j)'
      BY <2>3, <3>1, <3>3, <3>4 DEF KeepsTime, RowOK
    <3> HIDE DEF row, refused
    <3>7. Purge!MailNext
      BY <1>0, <2>1, <2>2, <2>4, <3>1, <3>2, <3>5, <3>6, RecoverMails
    <3> QED BY <3>7
  <2>5. CASE refused
    <3>1. /\ job' = job /\ poll'[p] = NoPoll /\ \A q \in Pollers : q # p => poll'[q] = poll[q]
      BY <2>2, <2>5, RowsTyped
    <3>2. \A i \in Jobs : KeepsHandler(i)
      BY <2>2 DEF KeepsHandler, Handles
    <3> QED BY <2>2, <3>1, <3>2, ForgettingMails
  <2>6. CASE ~ClaimedBy(s)
    <3>1. job' = job /\ \A q \in Pollers : poll'[q].stale = poll[q].stale /\ poll'[q].current = poll[q].current
      BY <2>2, <2>6, RowsTyped DEF PollState
    <3>2. \A i : KeepsRecoveries(i)
      BY <3>1, SameRecoveries
    <3> QED BY <2>2, <3>1, <3>2, PollingMail
  <2> QED BY <2>4, <2>5, <2>6
<1> QED BY <1>2, <1>3, ReadingMail, CloseMails DEF Recovery

LEMMA FailingMail ==
  ASSUME IInv, IInv', ViewInv, NEW w \in Workers, Fail(w)
  PROVE  Purge!MailNext
<1>1. /\ UNCHANGED <<job, attempt>> /\ worker'[w] = Idle
      /\ \A u \in Workers : u # w => worker'[u] = worker[u]
      /\ w \in Pollers => poll'[w] = NoPoll
      /\ \A q \in Pollers : q # w => poll'[q] = poll[q]
  BY RowsTyped DEF Fail, Done, Workers
<1>2. CASE ~Live(w)
  <2>1. \A i \in Jobs : KeepsHandler(i)
    BY <1>1, <1>2 DEF KeepsHandler, Handles, Live, Idle
  <2> QED BY <1>1, <2>1, ForgettingMails
<1>3. CASE Live(w)
  <2>0. PICK j : j = worker[w].job
    OBVIOUS
  <2>1. j \in Jobs
    BY <1>3, <2>0, LiveFacts
  <2>2. \A q \in Pollers : poll'[q].stale = poll[q].stale /\ poll'[q].current = poll[q].current
    <3>1. w \in Pollers => poll[w].stale = {} /\ poll[w].current = None
      BY <1>3 DEF ViewInv, PollInv, Acting
    <3>2. w \in Pollers => poll'[w].stale = {} /\ poll'[w].current = None
      BY <1>1 DEF NoPoll
    <3> QED BY <1>1, <3>1, <3>2
  <2>3. \A i : KeepsRecoveries(i)
    BY <2>2, SameRecoveries
  <2>4. \A i \in Jobs : Mail(i)' = Mail(i)
    <3>1. \A i \in Jobs : KeepsRow(i) /\ KeepsAttempts(i)
      BY <1>1 DEF KeepsRow, KeepsAttempts
    <3> QED BY <2>3, <3>1, SameMail
  <2>5. ASSUME NEW i \in Jobs, i # j PROVE Handler(i)' = Handler(i)
    <3>1. KeepsHandler(i)
      BY <1>1, <2>0, <2>5 DEF KeepsHandler, Handles, Idle
    <3> QED BY <3>1, SameHandler
  <2>6. Handler(j) = Stage(worker[w].pc) /\ Stage(worker[w].pc) # "none" /\ Handler(j)' = "none"
    <3>1. Handles(w, j) /\ worker[w].pc \in PC \ {"idle"}
      BY <1>3, <2>0, RowsTyped DEF Handles, Live, WorkerState
    <3>2. Handler(j) = Stage(worker[w].pc) /\ Stage(worker[w].pc) # "none"
      BY <2>1, <3>1, HandlerIs DEF ShowsHandlers, Stage, PC
    <3>3. \A u \in Workers : Handles(u, j) => u = w
      BY <2>1, <3>1 DEF IInv, OneWorkerPerJob
    <3>4. \A u \in Workers : ~Handles(u, j)'
      BY <1>1, <3>3 DEF Handles, Idle
    <3>5. ShowsHandlers'
      BY HandlerIs, PTL
    <3> QED BY <2>1, <3>2, <3>4, <3>5 DEF ShowsHandlers
  <2>7. /\ Mails' = Mails /\ Handlers' = [Handlers EXCEPT ![j] = "none"] /\ Handlers[j] # "none"
    BY <2>1, <2>4, <2>5, <2>6 DEF Mails, Handlers
  <2>8. Purge!WorkerDies(j)
    BY <2>7 DEF Purge!WorkerDies, Purge!Goes
  <2> QED BY <2>1, <2>8 DEF Purge!MailNext
<1> QED BY <1>2, <1>3

\* Jobs that wait are canceled, or failed with their location.
LEMMA EndingMails ==
  ASSUME IInv, ViewInv, UNCHANGED <<attempt, worker, poll>>, NEW S \in SUBSET Jobs,
         \A i \in Jobs \ S : job'[i] = job[i],
         \A i \in S : /\ job[i].status \in {"waiting", "queued"} /\ job'[i].status \in {"canceled", "failed"}
                      /\ job'[i].claim = job[i].claim
  PROVE  Purge!MailNext
<1>1. \A i : KeepsRecoveries(i) /\ KeepsHandler(i)
  BY SameRecoveries DEF KeepsHandler, Handles
<1>2. \A i \in Jobs : Handler(i)' = Handler(i)
  BY <1>1, SameHandler
<1>3. ASSUME NEW i \in Jobs \ S PROVE Mail(i)' = Mail(i)
  <2>1. KeepsRow(i) /\ KeepsAttempts(i)
    BY <1>3 DEF KeepsRow, KeepsAttempts
  <2> QED BY <1>1, <2>1, SameMail
<1>4. ASSUME NEW i \in S PROVE Mail(i)' = Purge!Ended(Mail(i), "settled")
  <2>1. Incomplete(i)' = Incomplete(i)
    BY <1>4 DEF Incomplete, AttemptsOf, Claims
  <2>2. OtherAttempts(i)' = OtherAttempts(i)
    BY <1>1, <2>1, OthersFrame
  <2>3. UnknownAttempts(i)' = {}
    BY <1>4 DEF UnknownAttempts, AttemptsOf, ViewInv, UnknownInv
  <2>4. /\ MailStatus(i)' = "settled" /\ CallIsClosed(i)' = TRUE
        /\ (job'[i].status = "processing" /\ attempt'[job'[i].claim].invoked) = FALSE
        /\ (job'[i].status \notin Terminal /\ KeepsTime(i)') = FALSE
    BY <1>4, <2>3 DEF MailStatus, CallIsClosed, Terminal
  <2>5. Mail(i)' = Columns(MailStatus(i)', job'[i].status = "processing" /\ attempt'[job'[i].claim].invoked,
                           CallIsClosed(i)', job'[i].status \notin Terminal /\ KeepsTime(i)', OtherAttempts(i)')
    BY DEF Mail, Columns
  <2>6. Mail(i)' = Columns("settled", FALSE, TRUE, FALSE, OtherAttempts(i))
    BY <2>2, <2>4, <2>5, Zenon
  <2> QED BY <2>6, EndedMail
<1>5. \A i \in S : Mails[i] = Mail(i) /\ Mails[i] # None /\ Mails[i].status = "waiting"
  <2>1. \A i \in S : MailStatus(i) = "waiting"
    BY DEF MailStatus
  <2> QED BY <2>1, MailIsRow DEF Mails, Mail
<1>6. Mails' = [i \in Jobs |-> IF i \in S THEN Purge!Ended(Mails[i], "settled") ELSE Mails[i]]
  <2>1. \A i \in Jobs : Mail(i)' = IF i \in S THEN Purge!Ended(Mails[i], "settled") ELSE Mails[i]
    BY <1>3, <1>4 DEF Mails
  <2> QED BY <2>1 DEF Mails
<1>7. Handlers' = Handlers
  BY <1>2 DEF Handlers
<1>8. Purge!EndMails(S)
  BY <1>5, <1>6, <1>7 DEF Purge!EndMails, Purge!Has
<1> QED BY <1>8 DEF Purge!MailNext

LEMMA EnvironmentMails ==
  ASSUME IInv, ViewInv, Environment \/ Tick
  PROVE  [Purge!MailNext]_(Purge!mailVars)
<1>1. ASSUME NEW j \in Jobs, FinishCancel(j), Cancelable(j) PROVE Purge!MailNext
  <2>1. /\ UNCHANGED <<attempt, worker, poll>> /\ job[j].status = "waiting"
        /\ \A i \in Jobs \ {j} : job'[i] = job[i]
        /\ job'[j].status = "canceled" /\ job'[j].claim = job[j].claim
    BY <1>1, RowsTyped DEF FinishCancel, Cancelable, JobRow
  <2> QED BY <2>1, EndingMails
<1>2. ASSUME NEW to \in LocationStatus, CloseLocation(to) PROVE Purge!MailNext
  <2> DEFINE S == {i \in Jobs : FailsOnClose(i)}
  <2>1. /\ UNCHANGED <<attempt, worker, poll>>
        /\ \A i \in Jobs \ S : job'[i] = job[i]
        /\ \A i \in S : /\ job[i].status = "queued" /\ job'[i].status = "failed"
                        /\ job'[i].claim = job[i].claim
    BY <1>2, RowsTyped DEF CloseLocation, FailsOnClose, JobRow
  <2>2. S \in SUBSET Jobs
    OBVIOUS
  <2> HIDE DEF S
  <2> QED BY <2>1, <2>2, EndingMails
<1>3. CASE UNCHANGED <<job, attempt, worker, poll>>
  <2>1. \A i : KeepsRecoveries(i)
    BY <1>3, SameRecoveries
  <2> QED BY <1>3, <2>1, PollingMail
<1>4. CASE Tick
  <2>1. /\ UNCHANGED <<attempt, poll>>
        /\ \A u \in Workers : worker'[u].pc = worker[u].pc /\ worker'[u].job = worker[u].job
    BY <1>4, RowsTyped DEF Tick, WorkerState
  <2>2. \A i \in Jobs : KeepsRow(i)
    <3>1. \A i \in Jobs : job[i] \in JobRow /\ job'[i] = JobLater(job[i])
      BY <1>4, RowsTyped DEF Tick
    <3>2. ASSUME NEW r \in JobRow
          PROVE  LET x == JobLater(r) IN
                 /\ x.status = r.status /\ x.claim = r.claim /\ x.retryCount = r.retryCount
                 /\ x.scheduledAt = None <=> r.scheduledAt = None
      BY ConstantsAssumption DEF JobLater, JobRow, Left
    <3> QED BY <3>1, <3>2 DEF KeepsRow
  <2>3. \A i \in Jobs : KeepsAttempts(i) /\ KeepsHandler(i) /\ KeepsRecoveries(i)
    BY <2>1, SameRecoveries DEF KeepsAttempts, KeepsHandler, Handles
  <2> QED BY <2>2, <2>3, SameMail, SameHandler, NothingChanges DEF Keeps
<1>5. CASE Environment
  <2>1. ASSUME NEW j \in Jobs, FinishCancel(j), ~Cancelable(j)
        PROVE  UNCHANGED <<job, attempt, worker, poll>>
    BY <2>1 DEF FinishCancel
  <2> QED BY <1>1, <1>2, <1>3, <1>5, <2>1 DEF Environment, BeginCancel, ReopenLocation
<1> QED BY <1>4, <1>5

LEMMA NextKeepsMail == IInv /\ IInv' /\ ViewInv /\ [Next]_vars => [Purge!MailNext]_(Purge!mailVars)
<1> SUFFICES ASSUME IInv, IInv', ViewInv, [Next]_vars PROVE [Purge!MailNext]_(Purge!mailVars)
  OBVIOUS
<1>1. CASE UNCHANGED vars
  <2>1. \A i : KeepsRecoveries(i)
    BY <1>1, SameRecoveries DEF vars
  <2> QED BY <1>1, <2>1, PollingMail DEF vars
<1>2. ASSUME NEW p \in Pollers, Skipping(p) PROVE UNCHANGED Purge!mailVars
  BY <1>2, ReadingMail DEF Skipping
<1> QED BY <1>1, <1>2, RecoveringMail, ClaimMails, HandlingMail, FailingMail, EnvironmentMails
        DEF Next, Claiming

LEMMA MailStarts == Init => Purge!MailInit
<1> SUFFICES ASSUME Init PROVE Purge!MailInit
  OBVIOUS
<1>1. \A i : AttemptsOf(i) = {} \/ i \notin Jobs
  BY ConstantsAssumption DEF Init, AttemptsOf, UnusedAttempt
<1>2. ASSUME NEW i \in Jobs PROVE Mail(i) = Purge!NewMail /\ Handler(i) = "none"
  <2>1. job[i].status \in {"queued", "waiting"} /\ job[i].scheduledAt = None
    BY DEF Init, NewJob
  <2>2. UnknownAttempts(i) = {} /\ Incomplete(i) = {}
    BY <1>1, <1>2 DEF UnknownAttempts, Incomplete
  <2>3. /\ MailStatus(i) = "waiting" /\ OtherAttempts(i) = "none" /\ CallIsClosed(i) = TRUE
        /\ (job[i].status = "processing" /\ attempt[job[i].claim].invoked) = FALSE
        /\ (job[i].status \notin Terminal /\ KeepsTime(i)) = FALSE
    BY <2>1, <2>2 DEF MailStatus, OtherAttempts, CallIsClosed, KeepsTime
  <2>4. Mail(i) = Columns(MailStatus(i), job[i].status = "processing" /\ attempt[job[i].claim].invoked,
                          CallIsClosed(i), job[i].status \notin Terminal /\ KeepsTime(i), OtherAttempts(i))
    BY DEF Mail, Columns
  <2>5. Mail(i) = Columns("waiting", FALSE, TRUE, FALSE, "none")
    BY <2>3, <2>4, Zenon
  <2>6. Handler(i) = "none"
    BY DEF Init, Idle, Handler, Handled, Handles
  <2> QED BY <2>5, <2>6 DEF Columns, Purge!NewMail
<1> QED BY <1>2 DEF Mails, Handlers, Purge!MailInit

\* What the tenant's deletion, its restoration and its purge are checked against is
\* what the delivery does: every step of the pollers, requests, recoveries, crashes
\* and cancellations is, in the columns the purge reads, a step of TenantMail or none.
THEOREM ImplementsTenantMail == ASSUME Prompt PROVE Spec => KeepsPurgeView
<1>1. Prompt
  OBVIOUS
<1>2. Spec => [](IInv /\ ViewInv)
  BY <1>1, Invariance, ViewInvariance, PTL
<1>3. IInv /\ ViewInv /\ [Next]_vars => IInv'
  BY <1>1, NextKeepsInv
<1> QED BY <1>2, <1>3, MailStarts, NextKeepsMail, PTL DEF Spec, KeepsPurgeView, Purge!MailSpec
=============================================================================
