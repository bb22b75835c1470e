# Poolduck Mail: specifications and proofs

This directory holds TLA+ models of the backend of Poolduck Mail, the TLC
configurations that check them on small instances, and TLAPS proofs of the
properties that matter most. Poolduck Mail is a multi-tenant service: an
operator scans a person's code at a location, the system records a scan event
and, after a short window in which the scan can be canceled, notifies the person
by mail. The backend is a NestJS application over PostgreSQL; several instances
may run side by side, each with its own timers, and share nothing but the
database.

Paths below are relative to `src/backend/src/` unless they start with `docs/`
or `prisma/`.

## Inventory

### Parts, their state and their operations

**Mail delivery** (`mail-jobs/mail-jobs.service.ts`, `mail-job-processor.service.ts`,
`mail-job-claim.sql.ts`, the two providers). State: `mail_jobs` (status, retry
count, `scheduled_at`, `send_not_before`/`cancel_until`, `claimed_at`,
`claim_attempt_id`) and `mail_delivery_attempts` (status, `provider_invoked_at`,
`completed_at`, `provider_call_closed_at`). Operations: a poll per backend
(recover stale claims, list due jobs, handle each in turn), a send by hand over
HTTP, and inside both the claim, the gates (subscription, location, person), the
attempt boundary, the provider call and one of three result transactions. Hard:
several workers, calls outside any transaction, crashes between any two
statements, recovery of claims whose worker may be alive, retries, time. Correct
when a person gets at most one mail per scan, a canceled scan never calls the
provider, rows satisfy the table's CHECK constraints, a final status is final,
and every job comes to an end.

**OCI pacing** (`mail-jobs/oci-mail-rate-limiter.ts`). State: the reservations,
i.e. `provider_invoked_at` of the attempts of all tenants. One transaction under
an advisory lock admits an attempt or defers its job. Hard: the time it decides
with is the start of its transaction, before the lock was granted.

**Scan intake and cancellation** (`scan-events/scan-events.service.ts`,
`scan-cancellation.sql.ts`). State: `scan_events`, their mail jobs,
`scan_request_idempotencies`. Operations: create a scan (gates, replay of an
Idempotency-Key, a transaction under the lock of the key and then of the person,
merge into a recent scan or create event and waiting job, store the key's
record) and cancel one. Hard: requests racing for two locks with stamps taken
before they wait.

**Tenant deletion, restoration and purge** (`platform/platform-tenants.service.ts`,
`platform-tenant-purge*.ts`). State: `tenants` (status, `purge_after`, the status
and subscription status to restore), `subscriptions` (status, version).
Operations of administrators: change a subscription, delete, restore; of a
scheduler per backend: purge the due tenants. In staging a tenant is deleted at
once, in two transactions. Hard: optimistic versions, repeated requests, the
boundary of the restoration period, mail still under way.

**Record retention** (`retention/*.ts`). One year after the scan its record
family (event, job, attempts, idempotency records) is destroyed, if the mail is
over; audit records likewise. Hard: it must not pull rows from under a worker or
a recovery, and must not keep a family for ever.

**Locations and people** (`locations/locations.service.ts`,
`deletion-purge.service.ts`). State: rows with a status and, once deletion is
scheduled, a deadline and the status to restore; the tenant's limit of
locations. Operations: create, rename or edit, activate, deactivate, schedule
the deletion of, and restore a location or a person; a platform administrator
changes the limit; a purge per backend, every 60 seconds. Closing a location fails its
queued jobs. Hard: status is compared in one statement and written in another;
the quota; the purge racing restorations. Correct when the quota holds, what is
purged stays purged and empty, no deletion comes before its time, and each comes.

**Tenant provisioning** (`createTenant` of `platform/platform-tenants.service.ts`).
State: tenants, their first manager, `platform_tenant_idempotency`. Hard: an
answer with a temporary password that is stored nowhere may be lost, and the
request repeated. Correct when a key makes one tenant and every answer's password
opens it.

**Tenant sessions** (`auth/auth.service.ts`) and **platform sessions**
(`platform/platform-auth.service.ts`). State: sessions with the hash of their
current refresh token, accounts; in the browser the cookies and the calls under
way (`src/frontend/src/api/client.ts`). Hard: rotation of one token by two
requests, a login racing a revocation, a revocation apart from its cause, a refresh
that fails. Correct when what is revoked stays so, when a session that can be refreshed
was opened with the current password, and when nobody is signed out for nothing; the
code falls short of the last two in the ways the properties name.

**Login limiter** (`auth/login-rate-limiter.service.ts`). State: counters in the
memory of a process. Hard: a bounded table, pruned only when it is full, and four
keys counted one after the other.

**Operators and their assignments** (`users/users.service.ts`,
`src/frontend/app/users/page.tsx`). State: accounts, the set of locations of each,
and what each manager's page shows of it. Hard: a set is replaced by two
statements, from a page read earlier, by two managers.

**Records and audit** (`scan-events` lists, `mail-jobs` lists, `audit/*.ts`,
`platform/platform-audit.service.ts`). State: append-only rows. Operations: append,
read page by page below a cursor, destroy after a year. Hard: pages of a table that
changes, rows of the same time, a pass whose batch is full of rows it may not take.

**The page of people** (`src/frontend/app/people/page.tsx`). State: the chosen location,
the list shown and the reads under way, the form, the act under way and its reload, the
notice of what was done. Hard: answers are shown in whatever order they come, and an act
goes to the location of the render that was clicked in.

**The workbench** (`src/frontend/app/page.tsx`). State: the selected location, filter
and page, the records shown, the loads under way. Hard: answers come late and out of
order, a handler goes on with the values of the render that started it.

**Licence gate** (`license/license.service.ts`): reads the subscription and says
whether scanning and sending are allowed. No state of its own.

**OCI metrics**, **code generators**, **scripts and deployment**: see "Not modelled".

### How they interact

A scan creates a `waiting` job in its own transaction. The pollers find it when
its window is over. Everything else meets in the rows: a cancellation and a
claim race for a waiting job with conditional updates; closing a location fails
queued jobs; deleting a tenant suspends its subscription, which the gate of a
worker reads; the purge and the retention look at the columns of the attempts to
see whether a call may still be under way. There are no in-process calls between
these parts that carry state, so each module takes the others' effects on its
rows as actions.

## Modules

| module | models | kind |
| --- | --- | --- |
| `MailDelivery` | jobs, attempts, pollers, requests, recovery, cancellation, failures, time | the core, detailed |
| `DeliveryPromise` | the life of a job as its operator sees it | abstract, refined by `MailDelivery` |
| `OciPacing` | the decision `MailDelivery` leaves open between `Invoke` and `Defer` | component |
| `ScanIntake` | scan requests, keys, merges, cancellations | component |
| `TenantLifecycle` | subscription changes, deletion, restoration, purge, over the tenant's mail | component |
| `TenantMail` | a mail job, its attempts and its worker as the purge of the tenant sees them | extended by `TenantLifecycle`, implemented by `MailDelivery` |
| `RecordRetention` | the destruction of record families, composed with `MailDelivery` | composition |
| `Records` | scan, audit and platform records: appended, listed, destroyed by passes | component |
| `Locations` | locations and people, quota, delayed deletion, restoration, purge | component |
| `Provisioning` | the creation of a tenant under an idempotency key | component |
| `Sessions` | sessions and accounts of a tenant or of the platform, with the page that uses them | component |
| `LoginLimiter` | the counters of login attempts | component |
| `Assignments` | an operator's locations: managers' pages and the server's statements | component |
| `Workspace` | the workbench: loads, polls, filters, pages, scans and cancellations | component |
| `Directory` | the page of people: reads, the form, acts and their reloads | component |
| `MailDeliveryProofs`, `TenantLifecycleProofs`, `ScanIntakeProofs`, `LocationsProofs`, `SessionsProofs` | theorems about the module each is named for | proofs |
| `AdmissionsProofs` | theorems about `OciPacing`, `LoginLimiter` and `Provisioning` | proofs |
| `RecordRetentionProofs` | theorems about `RecordRetention`, on top of `MailDeliveryProofs`, and about `Records` | proofs |
| `PagesProofs` | theorems about `Assignments`, `Workspace` and `Directory` | proofs |
| `MCMailDelivery`, `MCScanIntake`, `MCLocations`, `MCSessions` | values for the constants, symmetry | TLC |
| `MCAdmissions`, `MCRecordRetention`, `MCPages` | several components in one run | TLC |

The last three check components that share nothing. Their variable `part` is chosen
in the initial state and says which component moves; the others stay as they start.
The behaviours are those of each component by itself, and a product of them is
never built.

### MailDelivery

`job` and `attempt` are the two tables, restricted to the columns some handler
decides with. `worker[w]` is a handler in progress: a poller (one job at a time)
or a request by hand; its `pc` names the last statement it finished. `poll[p]` is
the poll around it. One action per statement or transaction of the code:

| action | code |
| --- | --- |
| `BeginPoll`, `ReadDue`, `EndPoll` | `processDueJobs` |
| `InspectClaim`, `MarkUnknown`, `Requeue`, `CloseRecovered` | `recoverStaleProcessingJobs`, statement by statement |
| `Claim`, `NotClaimed` | `CLAIM_DUE_MAIL_JOB_SQL` in its transaction; its conflict |
| `CheckGates`, `BlockClaimed` | licence and resources; `blockClaimedJob` |
| `Defer`, `Invoke` | `OciMailRateLimiter.reserve`, or the sandbox boundary |
| `CallProvider`, `Answer` | the provider's side: accepted or not, and what is heard of it |
| `RecordAccepted`, `RecordFinal`, `RecordRetry` | the three result transactions |
| `Fail` | a crash, or a statement that throws; what was committed stays |
| `BeginCancel`, `FinishCancel` | the cancellation with its early stamp |
| `CloseLocation`, `ReopenLocation` | the location handlers that touch what a claim reads |

The database refuses a row that breaks a CHECK constraint (`RowOK`, translated
from the migration `20260806010000`); `Requeue` models the refusal, which ends
the whole poll. The time of the database is kept relative: `scheduledAt` and
`window` are the ticks left, `claimAge` the ticks passed (saturated at the stale
bound, the only value it is compared with). So the clock never stops and the
liveness runs need no last tick.

`Prompt` is the assumption on which the safety of the code rests: a live worker
finishes its handler before its claim is `STALE_CLAIM_MS` old. The code has no
mechanism that enforces it (no lease renewal, no check of the claim before the
call or in the result). With `Prompt = TRUE` time does not pass while a worker is
at the limit; workers may still die anywhere. With `Prompt = FALSE` the
configurations `MailDelivery_two_mails.cfg` and `MailDelivery_late_answer.cfg` show
what happens without it.

Abstractions: the `LIMIT`s of the poll's queries (20 jobs) only split a poll in
several; audit records are written best effort and decide nothing; which error
message is stored is left out; the locations of the jobs are one location, kept
since closing it also writes to the jobs. The person's status and the
subscription write nothing here and change at any time, so `CheckGates` may block
any claim. The location's status may be overwritten by a handler that compared it
earlier, so `CloseLocation` and `ReopenLocation` have almost no guard.

### DeliveryPromise

A job is `open`, `calling`, or ended (`sent`, `failed`, `canceled`,
`delivery_unknown`), and its person is notified or not. A step may cancel an open
job, start a call, notify during a call, and end. `MailDelivery` implements it
with `phase <- Life, notified <- Notified`: `calling` means that the attempt which
the row names has made its call.

### OciPacing

`Begin` takes the stamp of the transaction, `Admit` or `Defer` is its decision
under the lock; between them the clock and other attempts go on. `InWindow` is
the query's `WHERE`: it has no upper bound, so stamps later than the reader's own
count too, and the properties depend on that. `DeferralIsEnough` says the time
given to a deferred job waits for every reservation it saw; only that rests on
`PaceAssumption`, the code's 20 reservations 50 ms apart that fill the second. The pacing is of
reservations: nothing bounds the time between a reservation's commit and the
call that follows it, so no property is stated about the calls themselves
(`docs/decisions/ADR-019-oci-email-delivery-provider.md:156` speaks of 20
submissions a second).

### ScanIntake

A request is a value of `Requests`, also the name of the event it may create; a
client's retry is another request with the same key. `pc` says how far a request
is and thereby which advisory locks it holds (`keyed`: the key's, `decided`: the
person's too). Gates that read other components' rows (location, person,
subscription) find either value. Keys are of one tenant, since the lock and the
record both carry the tenant. Collisions of `hashtext` are left out: they only
add waiting. `FinishCancel` waits for the person's lock as the code does. That nobody
waits for ever is stated with `CanGoOn`, what a request needs for its next step; that
this is the step's ENABLED is checked as `GoesOnIsEnabled`.

### TenantLifecycle

`production` is chosen once at the start (`APP_ENV`) and never changes. `seen` is
what an administrator has on screen, with the version a change must name. `asked`
is a staging deletion between its two transactions. The purge locks the tenant's row
with `FOR UPDATE`, and an attempt's foreign key needs that row, so a claim and a purge
exclude each other and the purge is one step. `before` is a history variable.

Three things keep a due tenant from being purged for good, and `DueTenantIsPurged` names
them: a call whose worker died and whose attempt the recovery marked without closing it
(`LeftOpen`); an attempt that a recovery ended with a crash between its two statements,
which no later recovery looks at (`LeftIncomplete`); and a job that was deferred before
its first refusal and left by a crash, which the recovery may not give back
(`LeftProcessing`, the row of `MailDelivery_poison.cfg`). Since the first tenant that
cannot be purged ends the run, another's mail is enough.

### TenantMail

`mail` and `sender` are the columns of the purge's query, for one job of the tenant, and
how far the worker is that holds its claim. `others` sums up the attempts no claim names
any more: a recovery ends a claim in one statement (`Recover`) and completes its attempt
in another (`Complete`), the answer of the call may come in between (`answered`) or the
poll may end there (`RecoveriesEnd`, `lost`). `Recover` closes no call
(`provider_call_closed_at` stays null), `Answer` does.

It is not a second guess at the delivery: `KeepsPurgeView` in `MailDelivery` says that
the detailed module implements it, with `mail <- Mails` and `sender <- Handlers`. `Mails`
computes, from the rows and attempts of a job and from what the recoveries have before
them, what the purge reads; `Handlers` is the `pc` of the live worker that names the
job. The answer of a worker that outlived its claim is a step of `TenantMail` but of
`MailDelivery` only without `Prompt`, so `TenantLifecycle` is checked with more than the
implementation does.

### RecordRetention

Extends `MailDelivery` with `aged` (a year has passed; it passes at any time),
`frozen` (the tenant is pending deletion) and `destroyed`. The last rows of a
destroyed family stay in the variables, and `Deliver` is a step of `MailDelivery`
that finds its rows; a poll that names a destroyed one runs into the error of
`LosePoll` (`NotFoundException` is not the conflict that the poll swallows).

`SentIsDestroyed` names the one thing, beside a deletion, that keeps the family of a sent
scan: a recovery that gave the job back and ended before its second statement
(`LeftHalf`). It takes two failures, and the run has two. `EverySentIsDestroyed` is the
claim without it, which the code does not keep.

The disagreements shown by `RecordRetention_half.cfg` and
`RecordRetention_scheduled.cfg` are described under "Further configurations".

### Records

One module for the three kinds of record, since their lists and their retention are
the same code three times: `ORDER BY created_at DESC, id DESC` below a cursor, one
row more than the page, and a pass of 50 rows of each kind. A row has its time when it
is made; a scan event is `open` from then until its transaction commits, so it may
appear below a cursor that has passed it: `WalkIsExact` promises only what was there
when the walk began. `layout` says which table each id belongs to and which rows name
the tenant; a list's filters do not change during a walk. Querying an audit list
writes a record itself: best effort for a tenant's, obligatory for the platform's.
`Held` is what a pending deletion suspends; audit records of a purged tenant (written
by a handler that outlived it) may go, families of one no longer exist. `unsettled`
stands for all that `RecordRetention` checks of a family.

### Locations

A location and a person are rows of one table here, because their handlers are the
same statements. A request reads (`ReadPlace`; for a person `LookForPerson`, the check
of its location, and `ReadPerson`), and writes in a later step; `seen` and `now` are
what it took along. Only `Restore`, the purge and the two operations under the
tenant's lock look at the row again. `Fail` ends a request anywhere before its write.
The assignments are those of one operator. `queued` are the locations with queued
mail, which closing and deleting a location fail in the same transaction.
A request is over within a tick, and the period of grace is longer than two; the code
has 14 days and no mechanism that keeps a request from lasting longer.
`Init` starts from rows that earlier requests may have left.

### Provisioning

`LockKey` to `CreateTenant` is the transaction under the advisory lock of the key. A
collision of the drawn code fails the transaction, and with it gives the lock back
before the next draw. The password is a pair of the key and the body: what the code
derives with an HMAC is a function of them. (That the secret of the derivation is
replaced between a request and its repetition is left out.) After the commit the audit
and the answer may fail, which is a `failed` request whose tenant exists. `EndTenant`
is what the purge and the deletion in staging take away.

### Sessions

`realm` is chosen once: the two services are the same protocol with the differences the
actions name (`Usable`, `DenyRefresh`). The tenant's access token is a signed value
that the server trusts for 15 minutes if the account is active and its tenant is served
(`Admitted`); the platform's names a session that is looked up. `served` ends when the
deletion of a tenant in staging begins (`BlockTenant`): its calls and refreshes are
refused with its sessions still open, and a trigger refuses every write of its users and
sessions. `jar` is what the browser holds, `call` the calls of the page: sent, answered
401, refreshed, repeated once. The console's calls to `/api/platform/auth` are not
refreshed (`Refusal`). `CompareToken` and `WriteHash` are the two statements of a
rotation; `VerifyPassword` and `CreateSession` those of a login; `ManageOperator` and
`RevokeUserSessions` those of an administrator, with a failure between them.

`Fail` is a call, or a refresh, that does not succeed and is not refused: a statement of
the server or the connection fails. The client throws the 401 it had before the refresh,
whatever the refresh was answered (`client.ts:396-411`), so the page may sign out
(`SignOut`); a failure it knows as one it only shows. `SignedOutForACause` says what is
true of this: the session ended (`Ended`: its row, the version of its identity, or its
tenant), or the page acted on a failed call, or since the login two refreshes overlapped,
the answer to one was lost, or a call was older than the login (`upset`). The page is one
that is loaded: a page that loads and fails to learn who is logged in shows the login form.

`OpenMeansCurrent` is about sessions that can be refreshed. A tenant's revoked session is
refused a refresh, but its access token is accepted until it expires; `RevokedIsRefused`
is the claim without that (see "Further configurations"). `overtaken`, `password` and
`upset` are history.

### LoginLimiter

`Login` is one call of `assertAllowed`, which runs without an await, so it is a step.
`Decision` folds over the keys in the code's order, carrying the table and the verdict.
A counter starts a fixed window with its first attempt, and a full table is pruned before
anything is counted. `tried` and `passed` are history: for each key the times at which
it was tried and let through, in order, since the process started.

### Assignments

The upper half is the page (`screen`): a reload in two rounds that is shown only when
both are read, the editor with its ticks, the confirmation of what will be revoked. The
lower half is the transaction (`save`) at READ COMMITTED: the deletion's snapshot, the
wait for rows another transaction deletes, the insertion that skips rows which are
there and waits for those under way, the commit. `gained`, `lost`, `confirmed` and `fresh` are
history. Deadlocks of two saves are an error of one (`SaveFails`).

### Workspace

A step is a change of React state with the effects it runs. `calls` are the loads of
records; `latest` is the comparison with the request number that makes older answers
ignored, and an answer is what the server said when it was served (`Serve`), not when it arrives.
`view` in `submit` and `cancel` is the closure's: the query of the render in which the
user acted. `crossed` and `stranded` are history, and mark the two exceptions which the
properties name. One cancellation is under way at a time; the page disables only the
button of the record being canceled (`src/frontend/app/page.tsx:808`), and the answers to
two would each do what the answer to one does. The licence always allows sending; the number of an act bounds
the user, `MaxPolls` is the page's own.

### Directory

The page has no guard against late answers: `ShowRead` shows whatever list arrives, and
`FillForm` fills the form with the answer to a click, whatever location has been chosen
since. `errand` is the one act under way with its reload (`run` in the code); the choice
of a location is not held up by it. `edition` counts the changes of a location's people
and stands for their content; `newest` is history. `NoticeIsShown` leaves out the moment
in which an answer older than one shown before is on the page.

## Runs

| run | shows |
| --- | --- |
| `delivery_safety` | OCI, two backends, a request by hand, two failures, a deferral, under `Prompt`: types, row constraints, cancellation as proof of no call, one worker per job, at most one mail, refinement of `DeliveryPromise` |
| `delivery_live` | a job with a window and one without, retries to the last, a failure, fair scheduling: waiting jobs settle, claims are resolved |
| `scan_intake` | three requests, two persons, one key: spacing of scans, one event per key, truthful answers, no deadlock of the two locks |
| `tenant_lifecycle` | an administrator, two backends, two deaths (of workers or recoveries), a failed purge: suspension, exact restoration, no call after the purge, due tenants are purged |
| `admissions` | pacing (four attempts): spacing of reservations, sufficient deferrals; limiter (five logins): at most twice the limit in any window, refusals only for a cause; provisioning (three requests): one tenant per key, answers that open their tenant |
| `record_retention` | families (two backends, two crashes): sent families are destroyed in the end, but for a recovery that ended half way; records: walks that miss and repeat nothing, nothing destroyed while a deletion can be undone, the backlog is cleared |
| `locations` | two requests, two locations, a person, a purge that fails once: quota, purged rows final and empty, the period of grace kept, what is due is purged |
| `sessions` | two calls of a page, two sessions, both realms, failures, a tenant being deleted: revocation final, a refreshable session has the current password, signed out for a cause |
| `pages` | workbench: what is shown is selected, settled stays settled, waiting is answered; operators: a save replaces, and revokes only what was confirmed; people: what the page says was done is in its list |
| `deletion_undone` | *violation*: a deactivation that read the location earlier overwrites its scheduled deletion, and the location ends inactive although its deletion was answered |
| `sessions_parallel` | *violation*: of two refreshes of one page the second is refused and signs it out, while the session goes on (no failures are allowed here) |
| `assignments_merged` | *violation*: two saves leave the union of their sets |

Each violation is a finding in `PROJECT.json`, with the sentence of the
repository's documents it contradicts.

### Further configurations

Kept beside the runs, and started by hand with
`tlc -workers 2 -config X.cfg M`:

* `*_more.cfg` (all pass) check what adds to the runs on the same instances: the type
  invariants (that of `Locations` is only proved, `LocationsTypes`), `NoCallInsideWindow`, `CallIsRecorded`, `ClaimIsRecoverable`,
  `RetryCountIsRefusals` (the counter of retries counts the provider's refusals),
  `MergesIntoActive`, `RepeatGetsSameScan`, `StagingAnswerIsTrue`, `NoLostUpdate`,
  `ReservationRate`, `DestroyedStaysGone` (`TenantLifecycle_more.cfg` has a second
  administrator, who shares screens and deletions with the first), and `GoesOnIsEnabled`, which is about the model
  alone.
* `MailDelivery_purge.cfg` (passes) checks `KeepsPurgeView`, that the delivery implements
  `TenantMail`: two backends, two failures, a deferral.
* `MailDelivery_poison.cfg`: violates `ClaimIsResolved`. A rate-limited job is claimed
  again and left by a crash; the recovery's write breaks a CHECK constraint, and every poll
  ends there.
* `MailDelivery_late_answer.cfg` (violates `TerminalIsFinal`) and
  `MailDelivery_two_mails.cfg` (violates `AtMostOneMail`), without `Prompt`: a
  worker that outlives its claim reopens `delivery_unknown`, or mails a second time.
* `TenantLifecycle_blocked.cfg`: violates `SettledTenantIsPurged`. One tenant that cannot
  be purged stops those due after it.
* `RecordRetention_half.cfg` (violates `EverySentIsDestroyed`) and
  `RecordRetention_scheduled.cfg` (violates `FailedIsDestroyed`): a family is kept for ever after a
  crash between the recovery's two statements, or because a job failed by a closing
  location keeps its schedule.
* `Pages_crossed.cfg`: violates `OnlySelectedRecords`. A scan that fails after the user has
  gone on to another location loads the records of the first one.

* `Sessions_revoked.cfg`: violates `RevokedIsRefused`. After a logout or a reset the
  tenant's access token is still accepted, up to 15 minutes, where `docs/admin-guide.md:55`,
  `docs/api.md:327` and `docs/testing.md:136` speak of sessions that end at once.

Read from the code while modelling, and not shown by a configuration:

* A reset of a password does not stop a login that has verified the old one: a tenant's
  session bears no version of the password (`overtaken` in `OpenMeansCurrent`).
* Two changes of the initial password at a time both succeed; the second wins.
* A logout during a refresh leaves the refreshed session open, without a cookie.
* `TENANT_CODE_GENERATION_EXHAUSTED` is never answered: the last collision is answered
  as any other conflict. The `expires_at` of a provisioning record is never read.
* The platform page makes a new key for each submission
  (`src/frontend/app/platform/page.tsx:161`), so a user's second click is another request.
* A load in the background that takes the place of the load the page waits for leaves
  its sign of loading on (`stranded`); a failing `getMe` clears a page that was logged
  in meanwhile.
* Saving an operator's assignments revokes those of inactive locations, since only active
  ones may be sent; the page asks for confirmation (`RevokedIsConfirmed`).

### Bounds and why they are enough

* Jobs are independent but for the poll that handles them in turn: one job and
  two workers give every race of a job, two jobs in `delivery_live` give the poll
  something to go on to. The theorems hold for any number.
* Four attempts (`delivery_safety`) allow a first worker, a recovery or deferral,
  and two retries; five (`delivery_live`) let two jobs with one retry each use up
  their budget with one attempt lost to a failure. `MCOneRetry` shortens the three
  delays of the code to one there; the other runs have all three.
* `Window = 1`, `StaleAfter = 2`, `TxTimeout = 2` keep the order of the deadlines:
  a claim can outlive the window, a cancellation that began inside the window
  can finish after it (`TxTimeout = 1` in `delivery_live`, which is not about
  cancellations). Delays of one tick are enough since due and not yet due are all
  that is compared.
* `MaxFailures`: one failure reaches every half-done handler, two a half-done
  recovery, which `record_retention` needs. `MaxDeferrals = 1` suffices to make a first attempt scheduled.
* `ScanIntake`: three requests are the fewest in which a key's record is stored by
  a merged request and then repeated; the window is one tick, the record's life
  two, so a record outlives a window, and `MaxTime = 2` reaches the expiry of both.
* `TenantLifecycle`: three changes allow delete, restore, delete, or a change
  between a screen and its submission; `MaxTime = 3` passes the end of a grace
  period of two. Two deaths make a crash and then one of the recovery that follows it,
  or a deferred job that is left again. One job stands for the mail of a tenant: the
  purge's query is a disjunction over them. `TenantLifecycle_blocked.cfg` has the second
  tenant, `TenantLifecycle_more.cfg` the second administrator.
* `OciPacing`: a limit of two in a window of two paces, four attempts, so that a
  full window is met and left.
* `LoginLimiter`: the limits differ by dimension, so that each is reached first in some
  attempt; two addresses and two identifiers make nine keys, for six places in
  the table; five logins fill it, and the last tick is two windows on, so that counters
  are over, pruned and started again.
* `Provisioning`: two codes and two draws make collisions and a last draw; three requests
  under two keys make a replay beside a refusal; two tenants are enough for a key to make
  a second one.
* `Records`: four ids, of which one may belong to no table; pages and passes of one row
  make a cursor and a full batch of any two; rows of the same tick meet the order by id.
* `Locations`: two requests meet in every pair of operations; a limit of two with two
  locations is reached and lowered; `Retention = 3` is the least the assumption allows
  and `MaxTime = 3` lets deletions of the initial rows fall due beside new ones; a
  batch of one leaves rows for the next run, one failure ends a run half-way.
* `Sessions`: two calls are the fewest that overlap, two sessions the fewest for another
  device, three tokens allow a login and a rotation, or two rotations; two changes
  allow disable and enable. Failures need no bound. A tenant's account starts with its
  initial password, which it may keep: one without it does nothing more.
* `Workspace`: two records and a page of one make a second page; two loads under way
  are the fewest that come in either order; three acts allow two changes of the view
  and a scan between them.
* `Assignments`: two managers, two locations, two saves, one other change.
* `Directory`: two locations and two persons, three reads (the first, one of another
  location, the reload of an act), three acts and one change by others.

Symmetry is used in `scan_intake`, `admissions`, `sessions` and `pages`, which check
safety only.

### Fairness

* `WF` of a poller's steps together: its timer (`setInterval`, one second) starts a
  poll when none is running, and the event loop runs each handler to its end.
  After `Fail` the poller starts again, as a restarted process does.
* `WF` of a request's handling: once begun it is carried to its end; nothing makes
  a client send one.
* `WF(Tick)`: time passes.
* `WF` of the purge scheduler of each backend and of the retention scheduler: timers
  too. `DestroyFamily` is fair per job, because the candidates' query leaves out
  families that cannot be destroyed and so no family hides another. The purge of
  tenants has no such query: `TenantLifecycle_blocked.cfg`.
* `WF` of the pass over the records, and of the purge of locations: timers. `WF` of the
  requests' handling in `Locations`, without which a lock could be kept for ever.
* No fairness for operators, administrators, clients, cancellations or deferrals.

`delivery_live` uses the sandbox provider: with OCI deferrals may go on for ever,
and a crash meets the defect of `MailDelivery_poison.cfg`.

## Proofs

`MailDeliveryProofs` proves, for any finite or infinite set of jobs, attempts,
backends and requests, with windows or without (`Legacy`), for either provider,
and any delays:

| theorem | states |
| --- | --- |
| `TypeCorrect` | `Spec => []TypeOK`, also without `Prompt` |
| `ClaimsAreExclusive` | `OneWorkerPerJob` and `ClaimIsRecoverable` |
| `AtMostOnce` | `AtMostOneMail` |
| `CancellationIsProof` | `CanceledNeverCalled`, `NoCallInsideWindow`, `CallIsRecorded` |
| `RowsAreValid` | `RowConstraints` |
| `OnlyLateWrites` | `TerminalLeftLate`, also without `Prompt` |
| `RetriesAreCounted` | `RetryCountIsRefusals` |
| `Refinement` | `KeepsPromise` |
| `ViewInvariance` | `ViewInv`, what recoveries know between their statements |
| `ImplementsTenantMail` | `KeepsPurgeView` |

All but `TypeCorrect` and `OnlyLateWrites` assume `Prompt`. Without it a terminal status
is left, and `OnlyLateWrites` says by what: the write of a worker that still handles the
job (`MailDelivery_late_answer.cfg` shows one). The assumptions on the constants are those of
`ConstantsAssumption` in `MailDelivery`; TLC evaluates them in each run.

The argument. `OneWorkerPerJob` is not inductive: that a second worker cannot
claim a job rests on the recovery not touching a live claim, hence on the claim's
age, hence on the ages of worker and claim advancing together. The inductive
invariant `IInv` adds, in named parts, that a live worker's job is processing and
names its attempt, that the claim's age is the worker's and below the bound, that a
recovery's snapshot is of a claim whose worker is gone, and how far each attempt
is: an attempt that is not stamped has made no call, a job with an accepted mail
is sent, unknown, or in the hands of the attempt that was accepted. From these
`AtMostOneMail` follows: another claim would need the job to be waiting or queued.
The preservation proof has one lemma per action, each reduced to how the action
updates one row of each table; the temporal steps are a line of `PTL`. `RetriesAreCounted`
has a further invariant, `CountInv`: the refusals of a job are finitely many and as many as
it has counted, only a job that has failed has counted more than there are delays, and an
attempt that a recovery may still close was never refused. Its assumption
(`RetriesAssumption`) is that the delays are a list.

`ImplementsTenantMail` makes one argument of the two about the mail: what
`TenantLifecycleProofs` proves of a purged tenant is proved over the mail that
`MailDelivery` has. The initial states map to initial states (`MailStarts`), every step
to a step of `TenantMail` or a stutter (`NextKeepsMail`). `IInv` is not enough for it,
since it forgets what a recovery has read. `ViewInv` adds three parts. `PollInv`: a poll
has a claim before it, or claims still to look at, only while it recovers, so that the
end of a poll outside a recovery leaves no attempt behind. `UnknownInv`: a closed attempt is
completed, an unknown outcome is that of a stamped call of a job that is unknown too, and it
or a stamped attempt not yet completed is the one the job names last; so one attempt
alone decides whether the call of a job is closed. `VerdictInv`: what a recovery found (stamped or not)
is still so at each of its statements, and the job names the attempt whose call it is
about to call unknown. Each action then is one lemma: it changes the row of one job
as the action of `TenantMail` says, and what the other jobs show stays as it was, which
lemmas about the pieces of the view say once (`SameMail`, `SameHandler`, `OneChanges`).
The further assumption, `NoRowAssumption`, is that `None` is neither a row nor a claim
that was read. Under `Prompt` a recovery acts only after its worker is gone, so no
answer comes between its two statements, and the mapping never yields `answered`.

`AdmissionsProofs` is about three components that admit something.

* `OciPacing`: `SpacingHolds` (`ReservationsSpaced`), `RateHolds` (`ReservationRate`) and
  `DeferralSuffices` (`DeferralIsEnough`), for any number of attempts, any limit, and any
  pace that is at most the second the query counts. An admission reads the reservations
  of the last second only; one outside that window is further away than the pace. So the
  spacing is inductive with the types of the stamps. For the rate, stamps may be old when
  their transaction decides; but what any window of a second holds when an attempt joins
  it is among what the attempt has read, which had room. The deferral schedules a
  `CHOOSE` over the reservations; it is the latest of the times to wait for, and at that
  time the window is not full either. This needs the spacing again, and `PaceAssumption`:
  reservations later than the one that has to leave the window are a pace apart, so
  fewer than the limit of them fit into a second.
* `LoginLimiter`: `SlidingHolds` (`SlidingBound`), `RefusalsHaveCauses`
  (`RefusedForACause`) and `LimiterTypes`, for any keys, limits, window and bound of the
  table. `SlidingBound` is not inductive. The invariant is of one key at a time: without a
  counter, all that has passed is over, and what passed a limit ago is a window old; with
  one, what passed before the counted attempts is before the counter's window, and a limit
  before that a window older; and the counted tries are all of that window. From the
  last follows that a refused key was tried up to its limit. An attempt counts four keys
  that differ, so each is counted once; the table's bound is followed through the four.
* `Provisioning`: `OneTenant` (`OneTenantPerKey`), `AnswerOpens` (`AnswerOpensTenant`) and
  `ProvisioningTypes`, for any requests, keys, bodies, administrators and codes.
  `OneTenantPerKey` is not inductive: that a creation finds no living tenant of its key
  rests on the record. The invariant says that a record names a living tenant of its key
  whose password was made for its body (or changed), that a living tenant has its
  record, and that a request under way or answered was given a tenant of its own key and
  body, or one that is gone. The lock is not needed for either: the creation is one step
  that reads the record it writes. (The unique key of the record would do in its place.)

`RecordRetentionProofs` takes the invariant of `MailDelivery` along beside the destruction
of families: `RetentionSafe` and `DestroyedStays` (`DestroyedStaysGone`), under `Prompt`. A
destroyed family has ended and no call of it is open; a live worker's job is processing,
and a recovery acts on an attempt of a job that is, so neither holds a destroyed one, and
`MailDeliveryProofs` has shown that a final status is not left. For `Records`, with any rows, layout, page and
batch, it proves `WalksAreExact` (`WalkIsExact`) and `PendingHolds`
(`NothingGoesWhilePending`). The order of the rows is total, and the page is the first
rows behind the cursor; the invariant of a walk says that what it has shown is at the
cursor or ahead of it, and that what was there at the first page and was not shown is
behind it. Nothing is behind a walk that has ended.

`PagesProofs` is about three pages.

* `Assignments`: `Replaces` (`SaveReplaces`), `RevokedWasConfirmed` (`RevokedIsConfirmed`)
  and `AssignmentsTypes`, for any managers and locations. The invariant follows a save
  statement by statement: what it doomed was assigned, is not asked for, and is still there
  or was lost to another; what remains beyond the set has been gained since; what it
  inserts was asked for; and what a page has not been told of is fresh.
* `Workspace`: `ShownIsTheSelected` (`ShownIsSelected`), `WaitingHasItsCall`
  (`WaitingIsAnswered`), `SettledIsKept` (`SettledStaysShown`) and `WorkspaceTypes`, for any
  locations, size of a page and numbers of polls, scans, calls and acts. The invariant
  `WorkspaceInv` says that one load at most is looked at, that it is of the view, or the page
  is `crossed`; that what is settled on the page is settled on the server, and in the rows
  of an answer on its way that is looked at: a load is served after it was started, and
  a settled row that came to the page since took the load's place. A load, a change of
  the view and an answer each are one lemma; the handlers are made of them.
* `Directory`: `NoticeIsTrue` (`NoticeIsShown`) and `DirectoryTypes`, for any people, locations
  and numbers of reads. The reload of an act is a read that is asked for after the act; reads
  are numbered, and each one that was asked for no sooner than the reload of a notice
  tells of the notice's change once it is served.

`TenantLifecycleProofs` proves `Suspended`, `RestoresWhatWas`, `NoCallSurvives`,
`NoUpdateIsLost` (`NoLostUpdate`), `AnsweredIsGone` (`StagingAnswerIsTrue`) and `TypesHold` for
any tenants, administrators and backends. The third needs an invariant of the mail: a call
that is open has an attempt whose columns tell so, and a purged tenant has no worker, no
claim and no open call. The second needs that what was noted for the restoration is what
the tenant was when it was deleted (`before`). For the last two it also needs that what an
administrator has on screen is the tenant's subscription while its version is the one on
screen, and that a tenant that is gone has no mail and never comes back.

`ScanIntakeProofs` proves `Spaced`, `OnePerKey`, `AnswersAreRight`, `MergesStayActive`,
`NobodyWaitsForEver` (`SomeoneGoesOn`), `RepeatsAgree` (`RepeatGetsSameScan`) and `IntakeTypes` for any
requests, keys, persons, window and life of a record. None is inductive: each rests on
what a request knows under its locks. Under its key's lock there is no record of the
key, or one that is over by the request's stamp; under its person's lock there is no
active scan in its window, or one of its own action that it merges into. The invariant
adds that the locks exclude, that events are named after requests that were answered,
and that the record of a key tells of an event and outlives the window of each event
of that key. Somebody can go on since whoever holds a person's lock waits for nothing,
and whoever holds a key's lock only for a person's; and since among the scans in a
window, whose stamps are past and so bounded, there is a latest. A repeated request
gets the same scan because the record stands until it expires.

`LocationsProofs` proves `QuotaHolds`, `PurgedIsEmpty`, `PurgedStays`, `InItsTime` and
`LocationsTypes` for any places, people, requests, limit and period of grace. What a request has read is "safe"
when no purge can take it in the ticks the request may still last: visible, or due no
sooner than that; a person is safe while its location is. Every write keeps what others
hold to be safe, since a new deadline is `Retention` away from a time that was noted at
most a tick ago, and a purge takes only rows that are not safe. The quota follows from
what was counted under the tenant's lock, which no other request can make untrue. The
assumptions are that a request lasts less than two ticks and that `Retention >= 3`: in
the code a request against 14 days.

`SessionsProofs` proves `OpenIsCurrent`, `RevokedStays`, `SignedOutRightly` and `SessionsTypes` for any
sessions, calls and tokens, in both realms. A platform's identity version only grows and
stands for a password, also in the login that has read it; a tenant's account has a
revocation on its way, or a failed one, when an open session bears an older password.
For the third the invariant describes a page that nothing has upset: all its calls are
about the session of its cookies, at most one of them is at a refresh, the session's token
is the cookie's but for the answer on its way, and a call that was denied for good has
seen a session that can never pass a check again (`Dead`), since a revoked row stays
revoked, a version only grows and a tenant is not served again. A call that failed has
seen nothing, and is named as a cause.

Four of the proofs need the least or greatest element of a set of numbers. The library's
induction theorems take an operator as their parameter and cannot be used; that `<` is
well-founded on the numbers can, with the theorem that a non-empty set has a minimal
element of a well-founded relation (lemmas `Least`, `Greatest`).

All invariants of the passing runs and all of their action properties are proved. Only
model-checked are

* the liveness properties `WaitingSettles`, `ClaimIsResolved`, `DueTenantIsPurged`,
  `SentIsDestroyed`, `BacklogIsCleared` and `DueIsPurged`: liveness under fairness is beyond
  TLAPS as used here;
* `GoesOnIsEnabled`, which speaks of ENABLED;
* what the configurations beyond the runs show to be violated.

## Not modelled

* What an audit entry says, and masks; summaries and exports, which read once and decide
  nothing; validation of inputs.
* OCI metrics: counts sent to a monitoring service; their only state is the flag that
  one run is under way.
* Code generators but for the draws of `Provisioning`: pure functions (person codes with
  their check character, mail subjects), which the unit tests cover exhaustively enough.
* The calendar computation of the licence's answer.
* The pages of locations, mail and of the platform: they load once, submit, and
  load again, and keep no state across an answer that another part decides with.
* Scripts, deployment and migrations, but for the constraints and unique keys the
  models use and the script that looks after platform administrators (`Sessions`).
* What happens between a reservation of the pacing and the call it admits: nothing in
  the code bounds it, so nothing is stated about the times of the calls.
* The order of locks of the purge of a tenant against a claim: PostgreSQL would end one of
  the two with an error, which both models allow anywhere.

## Plan

1. `MailDelivery` with its proofs, `DeliveryPromise` (done).
2. `ScanIntake`, `OciPacing`, `TenantLifecycle`, `RecordRetention` (done).
3. `Locations`, `Provisioning`, `Sessions`, `LoginLimiter`, `Assignments`, `Records`,
   `Workspace`, `Directory` (done).
4. Proofs of `Provisioning`, `Assignments`, `TenantLifecycle`,
   `ScanIntake`, `Locations` and `Sessions` (done).
5. Proofs of `RecordRetention`, `Records`, `LoginLimiter`, `Workspace`, `Directory`, the
   rate and the deferrals of `OciPacing`, the retries of `MailDelivery`; `TenantMail`, and
   that `MailDelivery` implements it (done).
6. Pure modules: person codes with their check character, each against a reference
   definition.
