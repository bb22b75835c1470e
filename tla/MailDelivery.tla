---------------------------- MODULE MailDelivery ----------------------------
(***************************************************************************)
(* Delivery of the notification mail of a scan: the rows of mail_jobs and  *)
(* mail_delivery_attempts, the pollers (one per backend instance) that     *)
(* recover stale claims and send due jobs, the HTTP requests that send a   *)
(* job by hand, the operator's cancellation, and the mail provider.        *)
(*                                                                         *)
(* Time is relative: a stamp of the database is kept as the ticks left     *)
(* until it (scheduledAt, window) or the ticks since it, saturated         *)
(* (claimAge), so that the clock never has to stop.                        *)
(***************************************************************************)
EXTENDS Naturals, FiniteSets

CONSTANTS
  Jobs,          \* mail jobs, one per scan event
  Legacy,        \* the jobs older than the cancellation window: send_not_before is null
  Attempts,      \* ids a claim can draw; their number bounds the claims of a behaviour
  Pollers,       \* backend instances: one poll at a time each
  Senders,       \* HTTP requests that send a job by hand
  Oci,           \* TRUE: the OCI provider; FALSE: the sandbox provider
  Prompt,        \* TRUE: a live worker finishes before its claim is stale
  Window,        \* ticks of the cancellation window
  StaleAfter,    \* ticks after which a claim is recovered
  RetryDelay,    \* ticks until the retry after failure 0, 1, 2, ...
  DeferDelay,    \* ticks until a rate-limited job is due again
  TxTimeout,     \* ticks a cancel transaction may wait for its lock
  MaxFailures,   \* bound: crashes and failed statements in a behaviour
  MaxDeferrals,  \* bound: rate-limit deferrals in a behaviour
  None           \* null

ASSUME ConstantsAssumption ==
  /\ Legacy \subseteq Jobs
  /\ Pollers \cap Senders = {}
  /\ Oci \in BOOLEAN /\ Prompt \in BOOLEAN
  /\ Window \in Nat /\ DeferDelay \in Nat /\ TxTimeout \in Nat
  /\ StaleAfter \in Nat \ {0}
  /\ \A n \in DOMAIN RetryDelay : RetryDelay[n] \in Nat
  /\ MaxFailures \in Nat /\ MaxDeferrals \in Nat
  /\ None \notin Jobs /\ None \notin Attempts /\ None \notin Nat

\* The delays are a list, of the failures 0, 1, 2, ... as many as it is long.
ASSUME RetriesAssumption ==
  /\ IsFiniteSet(DOMAIN RetryDelay)
  /\ \A n \in DOMAIN RetryDelay : n \in Nat /\ n < Cardinality(DOMAIN RetryDelay)

VARIABLES
  job,        \* the mail_jobs rows
  attempt,    \* the mail_delivery_attempts rows
  worker,     \* the job a poller or a request is handling, and how far it is
  poll,       \* where each poller is in its poll
  request,    \* ticks a cancel transaction that began inside the window has left, or 0
  canceled,   \* the jobs whose scan event has canceled_at set
  location,   \* status of the jobs' location
  calls,      \* history: the attempts whose provider call was made
  mailed,     \* history: the attempts whose mail the provider accepted
  failures, deferrals

vars == <<job, attempt, worker, poll, request, canceled, location,
          calls, mailed, failures, deferrals>>
rest == <<request, canceled, location, failures>>

Workers == Pollers \cup Senders
Terminal == {"sent", "failed", "canceled", "delivery_unknown"}
JobStatus == Terminal \cup {"waiting", "queued", "processing"}
AttemptStatus == {"unused", "claimed", "invoked", "deferred", "abandoned", "blocked",
                  "retry_scheduled", "failed", "succeeded", "delivery_unknown"}
RefusedByOci == {"suppressed", "permanent", "transient"}
Outcomes == IF Oci THEN RefusedByOci \cup {"accepted", "unknown"} ELSE {"accepted", "refused"}
RetriesUnknown == {"transient", "refused", "unknown"}
Transient == {"transient", "refused"}
LocationStatus == {"active", "inactive", "pending_delete"}

(***************************************************************************)
(* Rows and their constraints.                                             *)
(***************************************************************************)
JobRow == [status : JobStatus, retryCount : Nat, scheduledAt : Nat \cup {None},
           window : Nat, claimAge : Nat \cup {None}, claim : Attempts \cup {None}]
AttemptRow == [job : Jobs \cup {None}, status : AttemptStatus, invoked : BOOLEAN,
               completed : BOOLEAN, closed : BOOLEAN]
Snapshot == [job : Jobs, attempt : Attempts \cup {None}, retryCount : Nat]

\* The CHECK constraints of mail_jobs.
RowOK(j, r) ==
  /\ r.status = "waiting" => j \notin Legacy /\ r.scheduledAt = None
  /\ r.status = "queued" => r.scheduledAt # None \/ j \in Legacy
  /\ r.status = "processing" => r.claimAge # None /\ r.claim # None

NewJob(j) ==
  [status |-> IF j \in Legacy THEN "queued" ELSE "waiting", retryCount |-> 0,
   scheduledAt |-> None, window |-> Window, claimAge |-> None, claim |-> None]

UnusedAttempt == [job |-> None, status |-> "unused", invoked |-> FALSE,
                  completed |-> FALSE, closed |-> FALSE]
Idle == [pc |-> "idle", job |-> None, attempt |-> None, retryCount |-> 0,
         sendable |-> FALSE, outcome |-> None, age |-> 0]
NoPoll == [phase |-> "idle", stale |-> {}, due |-> {}, current |-> None]

Init ==
  /\ job = [j \in Jobs |-> NewJob(j)]
  /\ attempt = [a \in Attempts |-> UnusedAttempt]
  /\ worker = [w \in Workers |-> Idle]
  /\ poll = [p \in Pollers |-> NoPoll]
  /\ request = [j \in Jobs |-> 0]
  /\ canceled = {}
  /\ location = "active"
  /\ calls = {} /\ mailed = {}
  /\ failures = 0 /\ deferrals = 0

(***************************************************************************)
(* One poll: recover the stale claims, then send the due jobs in turn.     *)
(***************************************************************************)
WindowOver(j) == job[j].status = "waiting" /\ job[j].window = 0
RetryDue(j) == job[j].status = "queued" /\ job[j].scheduledAt = 0
LegacyDue(j) == job[j].status = "queued" /\ job[j].scheduledAt = None /\ j \in Legacy
ForgetsRetries(j) == WindowOver(j) \/ LegacyDue(j)
Due(j) == WindowOver(j) \/ RetryDue(j) \/ LegacyDue(j)

StaleEarly(j) == job[j].status = "processing" /\ job[j].claimAge + 1 >= StaleAfter
StaleNever(j) == job[j].status = "processing" /\ job[j].claimAge > StaleAfter
Stale(j) == job[j].status = "processing" /\ job[j].claimAge = StaleAfter
StaleClaims == {[job |-> j, attempt |-> job[j].claim, retryCount |-> job[j].retryCount] :
                j \in {i \in Jobs : Stale(i)}}

\* The timer fires, and the poll in progress, if any, makes it a no-op.
BeginPoll(p) ==
  /\ poll[p].phase = "idle"
  /\ poll' = [poll EXCEPT ![p] = [NoPoll EXCEPT !.phase = "recovering", !.stale = StaleClaims]]
  /\ UNCHANGED <<job, attempt, worker, calls, mailed, deferrals, rest>>

ForgetsInvoked(a) == IF a.completed THEN "recovering" ELSE "requeueing"
Verdict(a) == IF a.completed THEN "recovering"
              ELSE IF a.invoked THEN "marking_unknown" ELSE "requeueing"

\* Reads the attempt of one claim of the list; a completed one is left alone.
InspectClaim(p, s) ==
  /\ poll[p].phase = "recovering" /\ s \in poll[p].stale
  /\ LET a == attempt[s.attempt] IN
     poll' = [poll EXCEPT ![p].stale = @ \ {s},
                          ![p].current = IF a.completed THEN None ELSE s,
                          ![p].phase = Verdict(a)]
  /\ UNCHANGED <<job, attempt, worker, calls, mailed, deferrals, rest>>

\* The job's row: any claim of a processing job is overwritten.
MarkUnknown(p) ==
  /\ poll[p].phase = "marking_unknown"
  /\ LET j == poll[p].current.job IN
     job' = IF job[j].status = "processing"
            THEN [job EXCEPT ![j] = [@ EXCEPT !.status = "delivery_unknown"]]
            ELSE job
  /\ poll' = [poll EXCEPT ![p] = [@ EXCEPT !.phase = "closing_unknown"]]
  /\ UNCHANGED <<attempt, worker, calls, mailed, deferrals, rest>>

\* The job's row, if the claim is still this one. A row that breaks a CHECK
\* constraint is refused by the database, and the error ends the whole poll.
Requeue(p) ==
  /\ poll[p].phase = "requeueing"
  /\ LET s == poll[p].current
         matches == job[s.job].status = "processing" /\ job[s.job].claim = s.attempt
         row == [job[s.job] EXCEPT
                  !.status = IF s.retryCount = 0 /\ s.job \notin Legacy THEN "waiting" ELSE "queued",
                  !.claimAge = None, !.claim = None]
         refused == matches /\ ~RowOK(s.job, row)
     IN /\ job' = IF matches /\ ~refused THEN [job EXCEPT ![s.job] = row] ELSE job
        /\ poll' = [poll EXCEPT ![p] =
                     IF refused THEN NoPoll ELSE [@ EXCEPT !.phase = "closing_abandoned"]]
  /\ UNCHANGED <<attempt, worker, calls, mailed, deferrals, rest>>

\* The attempt's row, in a statement of its own after the job's.
CloseRecovered(p) ==
  /\ poll[p].phase \in {"closing_unknown", "closing_abandoned"}
  /\ attempt' = [attempt EXCEPT ![poll[p].current.attempt] =
       [@ EXCEPT !.status = IF poll[p].phase = "closing_unknown" THEN "delivery_unknown" ELSE "abandoned",
                 !.completed = TRUE]]
  /\ poll' = [poll EXCEPT ![p] = [@ EXCEPT !.phase = "recovering", !.current = None]]
  /\ UNCHANGED <<job, worker, calls, mailed, deferrals, rest>>

ReadDue(p) ==
  /\ poll[p].phase = "recovering" /\ poll[p].stale = {}
  /\ poll' = [poll EXCEPT ![p] = [@ EXCEPT !.phase = "sending", !.due = {j \in Jobs : Due(j)}]]
  /\ UNCHANGED <<job, attempt, worker, calls, mailed, deferrals, rest>>

EndPoll(p) ==
  /\ poll[p].phase = "sending" /\ poll[p].due = {} /\ worker[p].pc = "idle"
  /\ poll' = [poll EXCEPT ![p] = NoPoll]
  /\ UNCHANGED <<job, attempt, worker, calls, mailed, deferrals, rest>>

(***************************************************************************)
(* Handling one job: claim, gates, attempt boundary, call, result.         *)
(***************************************************************************)
\* What the claim's WHERE lets this worker take: a waiting job only a poller.
Claimable(w, j) == (w \in Pollers /\ WindowOver(j)) \/ RetryDue(j) \/ LegacyDue(j)

Chooses(w, j) ==
  /\ worker[w].pc = "idle"
  /\ w \in Pollers => poll[w].phase = "sending" /\ j \in poll[w].due

Taken(w, j) == poll' = IF w \in Pollers
                       THEN [poll EXCEPT ![w].due = @ \ {j}] ELSE poll

ClaimedRow(r, a) == [r EXCEPT !.status = "processing", !.claimAge = 0, !.claim = a]

\* A random UUID: which unused id is drawn does not matter.
FreshAttempts ==
  LET unused == {a \in Attempts : attempt[a].status = "unused"}
  IN  IF unused = {} THEN {} ELSE {CHOOSE a \in unused : TRUE}

\* Claim transaction: the job's row, a fresh attempt, the resources' statuses.
Claim(w, j, a) ==
  /\ Chooses(w, j) /\ Claimable(w, j)
  /\ job' = [job EXCEPT ![j] = ClaimedRow(@, a)]
  /\ attempt' = [attempt EXCEPT ![a] = [@ EXCEPT !.job = j, !.status = "claimed"]]
  /\ worker' = [worker EXCEPT ![w] =
       [Idle EXCEPT !.pc = "claimed", !.job = j, !.attempt = a,
                    !.retryCount = job[j].retryCount, !.sendable = (location = "active")]]
  /\ Taken(w, j)
  /\ UNCHANGED <<calls, mailed, deferrals, rest>>

\* The conflict of a row that is not claimable is swallowed by the poll.
NotClaimed(p, j) ==
  /\ Chooses(p, j) /\ ~Claimable(p, j)
  /\ Taken(p, j)
  /\ UNCHANGED <<job, attempt, worker, calls, mailed, deferrals, rest>>

At(w, pc) == worker[w].pc = pc
Goto(w, pc) == worker' = [worker EXCEPT ![w] = [@ EXCEPT !.pc = pc]]
Done(w) == worker' = [worker EXCEPT ![w] = Idle]

\* The location was read by the claim. The person, read with it, and the
\* subscription, read now, change at any time: either may block.
CheckGates(w) ==
  /\ At(w, "claimed")
  /\ \/ worker[w].sendable /\ Goto(w, "cleared")
     \/ Goto(w, "blocked")
  /\ UNCHANGED <<job, attempt, poll, calls, mailed, deferrals, rest>>

BlockClaimed(w) ==
  /\ At(w, "blocked")
  /\ job' = [job EXCEPT ![worker[w].job] = [@ EXCEPT !.status = "failed", !.scheduledAt = None]]
  /\ attempt' = [attempt EXCEPT ![worker[w].attempt] =
                  [@ EXCEPT !.status = "blocked", !.completed = TRUE]]
  /\ Done(w)
  /\ UNCHANGED <<poll, calls, mailed, deferrals, rest>>

DeferredUnscheduled(r) == [r EXCEPT !.status = "queued", !.claimAge = None, !.claim = None]
DeferredRow(r) ==
  [r EXCEPT !.status = "queued", !.scheduledAt = DeferDelay, !.claimAge = None, !.claim = None]

\* The rate limiter defers the job (OCI only) ...
Defer(w) ==
  /\ At(w, "cleared") /\ Oci /\ deferrals < MaxDeferrals
  /\ deferrals' = deferrals + 1
  /\ job' = [job EXCEPT ![worker[w].job] = DeferredRow(@)]
  /\ attempt' = [attempt EXCEPT ![worker[w].attempt] =
                  [@ EXCEPT !.status = "deferred", !.completed = TRUE]]
  /\ Done(w)
  /\ UNCHANGED <<poll, calls, mailed, rest>>

InvokedRow(r) == [r EXCEPT !.status = "invoked", !.invoked = TRUE]

\* ... or the attempt is stamped as invoked before the provider is called.
Invoke(w) ==
  /\ At(w, "cleared")
  /\ attempt' = [attempt EXCEPT ![worker[w].attempt] = InvokedRow(@)]
  /\ Goto(w, "invoked")
  /\ UNCHANGED <<job, poll, calls, mailed, deferrals, rest>>

\* The call leaves; the provider accepts the mail or not, whatever is heard of it.
CallProvider(w, accepted) ==
  /\ At(w, "invoked")
  /\ calls' = calls \cup {worker[w].attempt}
  /\ mailed' = IF accepted THEN mailed \cup {worker[w].attempt} ELSE mailed
  /\ Goto(w, "calling")
  /\ UNCHANGED <<job, attempt, poll, deferrals, rest>>

\* A definite answer is truthful; an exception or a malformed receipt is "unknown".
Answer(w, outcome) ==
  /\ At(w, "calling") /\ outcome \in Outcomes
  /\ worker[w].attempt \in mailed => outcome \in {"accepted", "unknown"}
  /\ worker[w].attempt \notin mailed => outcome # "accepted"
  /\ worker' = [worker EXCEPT ![w] = [@ EXCEPT !.pc = "answered", !.outcome = outcome]]
  /\ UNCHANGED <<job, attempt, poll, calls, mailed, deferrals, rest>>

\* The three result transactions address the job by its id alone.
RecordAccepted(w) ==
  /\ At(w, "answered") /\ worker[w].outcome = "accepted"
  /\ job' = [job EXCEPT ![worker[w].job] = [@ EXCEPT !.status = "sent", !.scheduledAt = None]]
  /\ attempt' = [attempt EXCEPT ![worker[w].attempt] =
                  [@ EXCEPT !.status = "succeeded", !.completed = TRUE]]
  /\ Done(w)
  /\ UNCHANGED <<poll, calls, mailed, deferrals, rest>>

RecordFinal(w) ==
  /\ At(w, "answered") /\ worker[w].outcome \in {"suppressed", "permanent", "unknown"}
  /\ LET status == IF worker[w].outcome = "unknown" THEN "delivery_unknown" ELSE "failed" IN
     /\ job' = [job EXCEPT ![worker[w].job] = [@ EXCEPT !.status = status, !.scheduledAt = None]]
     /\ attempt' = [attempt EXCEPT ![worker[w].attempt] =
                     [@ EXCEPT !.status = status, !.completed = TRUE, !.closed = TRUE]]
  /\ Done(w)
  /\ UNCHANGED <<poll, calls, mailed, deferrals, rest>>

NextRetryCount(n) == n + 1

RecordRetry(w) ==
  /\ At(w, "answered") /\ worker[w].outcome \in Transient
  /\ LET n == worker[w].retryCount
         again == n \in DOMAIN RetryDelay
     IN /\ job' = [job EXCEPT ![worker[w].job] =
             [@ EXCEPT !.status = IF again THEN "queued" ELSE "failed",
                       !.retryCount = NextRetryCount(n),
                       !.scheduledAt = IF again THEN RetryDelay[n] ELSE None]]
        /\ attempt' = [attempt EXCEPT ![worker[w].attempt] =
             [@ EXCEPT !.status = IF again THEN "retry_scheduled" ELSE "failed", !.completed = TRUE]]
  /\ Done(w)
  /\ UNCHANGED <<poll, calls, mailed, deferrals, rest>>

\* A crash of the process, or a statement that fails: what was committed stays,
\* the job being handled and the rest of the poll are forgotten.
Fail(w) ==
  /\ worker[w].pc # "idle" \/ (w \in Pollers /\ poll[w].phase # "idle")
  /\ failures < MaxFailures
  /\ failures' = failures + 1
  /\ Done(w)
  /\ poll' = IF w \in Pollers THEN [poll EXCEPT ![w] = NoPoll] ELSE poll
  /\ UNCHANGED <<job, attempt, request, canceled, location, calls, mailed, deferrals>>

(***************************************************************************)
(* The operator's cancellation, the location, time.     *)
(***************************************************************************)
\* CURRENT_TIMESTAMP is the start of the transaction, before its advisory lock.
BeginCancel(j) ==
  /\ request[j] = 0 /\ j \notin Legacy /\ job[j].window > 0
  /\ request' = [request EXCEPT ![j] = TxTimeout]
  /\ UNCHANGED <<job, attempt, worker, poll, canceled, location, calls, mailed,
                 failures, deferrals>>

CancelsClaimed(j) == job[j].status \in {"waiting", "processing"}
Cancelable(j) == job[j].status = "waiting"

FinishCancel(j) ==
  /\ request[j] > 0
  /\ request' = [request EXCEPT ![j] = 0]
  /\ IF Cancelable(j)
     THEN /\ job' = [job EXCEPT ![j] = [@ EXCEPT !.status = "canceled"]]
          /\ canceled' = canceled \cup {j}
     ELSE UNCHANGED <<job, canceled>>
  /\ UNCHANGED <<attempt, worker, poll, location, calls, mailed, failures, deferrals>>

FailsOnClose(j) == job[j].status = "queued"

\* Deactivating or deleting the location fails its queued jobs in the same
\* transaction; its status was compared before, and may have changed since.
CloseLocation(to) ==
  /\ to # "active"
  /\ location' = to
  /\ job' = [j \in Jobs |-> IF FailsOnClose(j)
                            THEN [job[j] EXCEPT !.status = "failed"] ELSE job[j]]
  /\ UNCHANGED <<attempt, worker, poll, request, canceled, calls, mailed,
                 failures, deferrals>>

\* Reactivated, or restored to the status it was deleted from.
ReopenLocation(to) ==
  /\ to = "active" \/ (location = "pending_delete" /\ to = "inactive")
  /\ location' = to
  /\ UNCHANGED <<job, attempt, worker, poll, request, canceled, calls, mailed,
                 failures, deferrals>>

LeftUnclamped(t) == t - 1
Left(t) == IF t = 0 THEN 0 ELSE t - 1
Aged(t) == IF t < StaleAfter THEN t + 1 ELSE t

\* A claim's age is read only while its job is processing.
JobLater(r) ==
  [r EXCEPT !.scheduledAt = IF @ = None THEN None ELSE Left(@),
            !.window = Left(@),
            !.claimAge = IF r.status = "processing" /\ @ # None THEN Aged(@) ELSE @]

InTime(w) == worker[w].pc = "idle" \/ worker[w].age + 1 < StaleAfter

Tick ==
  /\ Prompt => \A w \in Workers : InTime(w)
  /\ job' = [j \in Jobs |-> JobLater(job[j])]
  /\ worker' = [w \in Workers |->
       IF worker[w].pc = "idle" THEN worker[w] ELSE [worker[w] EXCEPT !.age = Aged(@)]]
  /\ request' = [j \in Jobs |-> Left(request[j])]
  /\ UNCHANGED <<attempt, poll, canceled, location, calls, mailed, failures, deferrals>>

-----------------------------------------------------------------------------
Recovery(p) ==
  \/ BeginPoll(p)
  \/ \E s \in poll[p].stale : InspectClaim(p, s)
  \/ MarkUnknown(p)
  \/ Requeue(p)
  \/ CloseRecovered(p)
  \/ ReadDue(p)
  \/ EndPoll(p)

Handling(w) ==
  \/ CheckGates(w)
  \/ BlockClaimed(w)
  \/ Defer(w)
  \/ Invoke(w)
  \/ \E accepted \in BOOLEAN : CallProvider(w, accepted)
  \/ \E outcome \in Outcomes : Answer(w, outcome)
  \/ RecordAccepted(w)
  \/ RecordFinal(w)
  \/ RecordRetry(w)

Claiming(w) == \E j \in Jobs : \E a \in FreshAttempts : Claim(w, j, a)
Skipping(p) == \E j \in Jobs : NotClaimed(p, j)

Environment ==
  \/ \E j \in Jobs : BeginCancel(j) \/ FinishCancel(j)
  \/ \E to \in LocationStatus : CloseLocation(to) \/ ReopenLocation(to)

Next ==
  \/ \E p \in Pollers : Recovery(p)
  \/ \E w \in Workers : Claiming(w)
  \/ \E p \in Pollers : Skipping(p)
  \/ \E w \in Workers : Handling(w)
  \/ \E w \in Workers : Fail(w)
  \/ Environment
  \/ Tick

Spec == Init /\ [][Next]_vars

\* The interval timer and the event loop run every poll and every handler to
\* its end, and time passes; nothing makes an operator or a request act.
Fairness ==
  /\ \A p \in Pollers : WF_vars(Recovery(p) \/ Claiming(p) \/ Skipping(p) \/ Handling(p))
  /\ \A w \in Senders : WF_vars(Handling(w))
  /\ WF_vars(Tick)

FairSpec == Spec /\ Fairness

-----------------------------------------------------------------------------
(***************************************************************************)
(* Properties.                                                             *)
(***************************************************************************)
PC == {"idle", "claimed", "blocked", "cleared", "invoked", "calling", "answered"}
PollPhase == {"idle", "recovering", "marking_unknown", "requeueing",
          "closing_unknown", "closing_abandoned", "sending"}
WorkerState == [pc : PC, job : Jobs \cup {None}, attempt : Attempts \cup {None},
                retryCount : Nat, sendable : BOOLEAN, outcome : Outcomes \cup {None}, age : Nat]
PollState == [phase : PollPhase, stale : SUBSET Snapshot, due : SUBSET Jobs,
              current : Snapshot \cup {None}]

Assigned == \A w \in Workers : worker[w].pc # "idle" => worker[w].attempt \in Attempts

\* The variables keep their types, and a busy worker has an attempt.
TypeOK ==
  /\ job \in [Jobs -> JobRow]
  /\ attempt \in [Attempts -> AttemptRow]
  /\ worker \in [Workers -> WorkerState]
  /\ Assigned
  /\ poll \in [Pollers -> PollState]
  /\ request \in [Jobs -> Nat]
  /\ canceled \subseteq Jobs
  /\ location \in LocationStatus
  /\ calls \subseteq Attempts /\ mailed \subseteq calls
  /\ failures \in Nat /\ deferrals \in Nat

AttemptsOf(j) == {a \in Attempts : attempt[a].job = j}
Handles(w, j) == worker[w].pc # "idle" /\ worker[w].job = j

\* No statement of a handler leaves a row of mail_jobs that one of its CHECK
\* constraints forbids: waiting jobs are unscheduled, queued ones scheduled,
\* processing ones carry their claim.
RowConstraints == \A j \in Jobs : RowOK(j, job[j])

\* A committed cancellation is the proof that the provider is never called:
\* the event and the job agree, and no attempt of the job has made a call.
CanceledNeverCalled ==
  \A j \in Jobs : /\ j \in canceled <=> job[j].status = "canceled"
                  /\ j \in canceled => AttemptsOf(j) \cap calls = {}

\* No call leaves while its job can still be canceled, by anyone, however the
\* job came to be claimed (poll, request by hand, retry, recovery).
NoCallInsideWindow ==
  \A j \in Jobs \ Legacy : job[j].window > 0 => AttemptsOf(j) \cap calls = {}

\* One worker at a time handles a job, although claims are taken from dead
\* workers, and the job's row names that worker's attempt.
OneWorkerPerJob ==
  \A j \in Jobs : \A v, w \in Workers : Handles(v, j) /\ Handles(w, j) => v = w

\* The person is notified at most once for a scan: the provider never accepts
\* two attempts of one job, whatever crashes, retries and recoveries happen.
AtMostOneMail ==
  \A j \in Jobs : Cardinality(AttemptsOf(j) \cap mailed) <= 1

\* The call is never made without the persisted boundary a recovery relies on:
\* an attempt that made its call is stamped as invoked before and ever after.
CallIsRecorded == \A a \in calls : attempt[a].invoked

\* A processing job can always be recovered: its row names an attempt of its
\* own that is not completed (a completed one is skipped by every recovery).
ClaimIsRecoverable ==
  \A j \in Jobs : job[j].status = "processing" =>
    job[j].claim \in AttemptsOf(j) /\ ~attempt[job[j].claim].completed

\* The retry counter counts the transient refusals, and nothing else: neither
\* deferrals nor recoveries use up the budget, and no failure is forgotten.
Refusals(j) == {a \in AttemptsOf(j) : attempt[a].status = "retry_scheduled"
                                     \/ (attempt[a].status = "failed" /\ ~attempt[a].closed)}
RetryCountIsRefusals ==
  \A j \in Jobs : /\ job[j].retryCount = Cardinality(Refusals(j))
                  /\ job[j].retryCount <= Cardinality(DOMAIN RetryDelay) + 1

\* A terminal status is never left: in particular a sent or unknown delivery
\* is never made sendable again.
TerminalIsFinal ==
  [][\A j \in Jobs : job[j].status \in Terminal => job'[j].status = job[j].status]_vars

\* Also when workers outlive their claims: a terminal status is left only by the
\* write of a worker that still handles the job, and whose claim the row has lost
\* or ended (mail-jobs.service.ts:405, an answer recorded by the job's id alone).
\* No claim, recovery, cancellation or closing location takes it up again.
TerminalLeftLate ==
  [][\A j \in Jobs : job[j].status \in Terminal /\ job'[j].status # job[j].status =>
       \E w \in Workers : Handles(w, j) /\ Handling(w)]_vars

\* The abstract life of a job: calling while the attempt that its row names has
\* made its call, open before and between the calls.
Phase(j) ==
  IF job[j].status \in Terminal THEN job[j].status
  ELSE IF job[j].status = "processing" /\ job[j].claim \in calls THEN "calling" ELSE "open"

Life == [j \in Jobs |-> Phase(j)]
Notified == {j \in Jobs : AttemptsOf(j) \cap mailed # {}}

Promise == INSTANCE DeliveryPromise
             WITH phase <- Life, notified <- Notified

\* Every step of the pollers, requests, recoveries, crashes and cancellations
\* is one the abstract life of a job allows, or none.
KeepsPromise == Promise!Spec

\* A job as the purge of its tenant sees it: the columns it reads, and the worker.
Handled(j, pcs) == \E w \in Workers : Handles(w, j) /\ worker[w].pc \in pcs
Handler(j) ==
  IF Handled(j, {"claimed", "blocked"}) THEN "claimed"
  ELSE IF Handled(j, {"cleared"}) THEN "cleared"
  ELSE IF Handled(j, {"invoked", "calling", "answered"}) THEN "calling" ELSE "none"

Claims(j, a) == job[j].status = "processing" /\ job[j].claim = a
Incomplete(j) == {a \in AttemptsOf(j) : ~attempt[a].completed /\ ~Claims(j, a)}
BeingRecovered(a) ==
  \E p \in Pollers : \E s \in poll[p].stale \cup {poll[p].current} : s # None /\ s.attempt = a
OtherAttempts(j) ==
  IF Incomplete(j) = {} THEN "none"
  ELSE IF \A a \in Incomplete(j) : BeingRecovered(a) THEN "closing" ELSE "lost"

UnknownAttempts(j) == {a \in AttemptsOf(j) : attempt[a].status = "delivery_unknown"}
CallIsClosed(j) ==
  /\ job[j].status = "delivery_unknown" => \E a \in UnknownAttempts(j) : attempt[a].closed
  /\ \A a \in UnknownAttempts(j) : attempt[a].closed

MailStatus(j) ==
  CASE job[j].status \in {"waiting", "queued"} -> "waiting"
    [] job[j].status \in {"sent", "failed", "canceled"} -> "settled"
    [] OTHER -> job[j].status

\* Its own time, kept since a deferral, forbids a recovery to give it back.
KeepsTime(j) == j \notin Legacy /\ job[j].retryCount = 0 /\ job[j].scheduledAt # None

Mail(j) ==
  [status |-> MailStatus(j),
   invoked |-> job[j].status = "processing" /\ attempt[job[j].claim].invoked,
   closed |-> CallIsClosed(j),
   deferred |-> job[j].status \notin Terminal /\ KeepsTime(j),
   others |-> OtherAttempts(j)]

Mails == [j \in Jobs |-> Mail(j)]
Handlers == [j \in Jobs |-> Handler(j)]

Purge == INSTANCE TenantMail WITH Tenants <- Jobs, mail <- Mails, sender <- Handlers

\* null is neither a mail nor a claim that was read.
ASSUME NoRowAssumption == None \notin Purge!MailRow /\ None \notin Snapshot

\* What the purge and the deletion of a tenant assume of its mail is so.
KeepsPurgeView == Purge!MailSpec

\* A waiting job reaches the end of its life: canceled, sent, failed or unknown.
WaitingSettles == \A j \in Jobs : job[j].status = "waiting" ~> job[j].status \in Terminal

\* A claim does not stay behind for ever when its worker is gone: the job is
\* sent, given back or marked unknown.
ClaimIsResolved == \A j \in Jobs : job[j].status = "processing" ~> job[j].status # "processing"
=============================================================================
