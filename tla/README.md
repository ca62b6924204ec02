# GO Kick in TLA+

Models, model-checked properties and proofs for GO Kick: a Go application on one
SQLite database (commands and queries over a bus, a persistent job queue, refresh-token
sessions) with a Vue client. File names below are relative to `src/`; the doc paths are
those of the repository.

- [The system](#the-system)
- [Modules and the code](#modules-and-the-code)
- [Runs, bounds and fairness](#runs-bounds-and-fairness)
- [Proofs](#proofs)
- [Where code and documents disagree](#where-code-and-documents-disagree)
- [Not modelled](#not-modelled)
- [Plan](#plan)

## The system

| Component | State | Operations | Hard because |
|---|---|---|---|
| Job queue (`app/infrastructure/sqlite/job`, `.../worker`, `.../job`) | table `jobs`: run_at, attempts, max_retries, locked_until, completed_at, failed_at; a slot's copy of its row | Enqueue (in or out of a transaction), ClaimDue, MarkComplete, Reschedule, MarkFailed | several slots and processes, leases that run out, crashes between claim and outcome, an outcome write that fails, a write lock a long handler keeps for itself |
| Refresh tokens (`app/application/auth/command`, `sqlite/token`, `handler/auth.go`) | table `refresh_tokens`, a cookie in each browser | login, refresh (rotation), logout, cleanup, ON DELETE CASCADE | every statement of a refresh commits alone, calls with one cookie overlap, replies are lost or overtaken |
| Login lock (`login.go`, `sqlite/user/repository.go`) | failed_login_attempts, last_failed_login_at, locked_until | RecordFailedLogin, ResetFailedLogin | the decision is taken on a copy that bcrypt has made 250 ms old |
| Command bus (`app/application/bus`, `database/sqlite_manager.go`) | the transaction in the context, EventCollector, AuditCollector | Recovery, Logging, Authorize, Audit, JobDispatcher, DispatchEvents, Transaction around a handler; change of password as one that verifies what it read | order of the middleware on the way out, failing commits, panics, writes through the pool under one's own write lock |
| User commands and rights (`application/user`, `application/profile`, `security/jwt.go`, `middleware/auth.go`) | table `users`, the role inside each access token | sign-in, create, update, delete, change of password, console create-user and seed | each reads a row, changes it and writes all of it back; rights are those of a token, not of the row; the console works outside the bus |
| Browser session (`assets/app.ts`, `assets/app-ui/Auth`) | auth state, the timer, inFlight, retries; the hint cookie | bootstrap, refresh, retry, login, logout, authFetch | code between awaits interleaves; every mistake with two rotations looks like a theft to the server |
| Serve process (`console/serve.go`, `http/server`, `scheduler`, `worker`) | two contexts, a channel of the listener's error, two done channels | start, graceful shutdown, join | a listener that fails by itself, a grace period that ends, loops that must not be killed |
| Rate limiter (`http/middleware/ratelimit.go`) | a map of token buckets, one rule | parsing of the rule, allow, the janitor | the clock is read before the mutex is taken; buckets are dropped |
| Error reporting (`http/middleware`, `bus/middleware/recovery.go`, `bus/event.go`, `worker`, `cmd/sentry.go`, `cmd/logger.go`, `cmd/main.go`) | Sentry hubs in contexts, the transport's buffer | scope of a request or job, breadcrumb, capture, flush | three recoveries in one chain, hubs that are shared pointers, a process that exits on what is still in the buffer |

How they interact: an HTTP handler runs a command on the bus. The bus opens a transaction
with `BEGIN IMMEDIATE`, which owns SQLite's only write lock; the handler writes and
enqueues jobs through the transaction it finds in its context. After the commit the
events go to their subscribers and the audit records to the log. The worker's slots poll
the same database, and run a job's handler in a transaction that also completes its row.
Login and refresh opt out of the bus transaction (`SkipTransaction`), so that a failed
login is counted although the command fails. The client keeps the access token in memory
and depends on the refresh cookie for everything else. One signal ends server, scheduler
and worker together, and what they reported to the error tracker is flushed last.

## Modules and the code

| Module | Component | Composed with |
|---|---|---|
| `DurableQueue` | what the queue promises: submit, perform once, give up | |
| `JobQueue` | table, dispatcher, slots and processes | implements `DurableQueue` (`KeepsPromise`) |
| `JobQueueProofs` | the theorems on `JobQueue` | |
| `SessionChain` | what refresh tokens promise: a login, renewals, an end | |
| `TokenRotation` | tokens, calls, cookies, users that are deleted, the scheduler's cleanup | implements `SessionChain` (`OneChainPerLogin`) |
| `TokenRotationProofs` | the theorems on `TokenRotation` | |
| `LoginLock` | one account's lock | |
| `LoginLockProofs` | the theorems on `LoginLock` | |
| `SerialCommands` | what a command promises: it happens whole, at one moment, or never | |
| `CommandBus` | the chain, its transactions and SQLite's write lock | implements `SerialCommands` (`CommandsAreAtomic`) |
| `CommandBusProofs` | the theorems on `CommandBus` | |
| `ClientSession` | one tab | |
| `SessionAndServer` | a tab, its server and the network between them | EXTENDS `ClientSession`, INSTANCEs `TokenRotation` |
| `SessionAndServerProofs` | the theorems on `SessionAndServer` | |
| `ServeLifecycle` | server, scheduler loop, worker loop and exit code | |
| `RateLimiter` | the bucket of one address and its janitor | |
| `HttpServerProofs` | the theorems on `ServeLifecycle` and on `RateLimiter` | EXTENDS both, which is why the names of the one begin with `Serve` |
| `ErrorReporting` | requests through the HTTP chain and the buses, jobs in the worker, reporter and flush | |
| `ErrorReportingProofs` | the theorems on `ErrorReporting` | |
| `UserAdmin` | users, their roles, access tokens and administrators' requests | `CommandBus` justifies that a command is one step; `TokenRotation` has the refresh tokens behind the sign-ins |
| `UserAdminProofs` | the theorems on `UserAdmin` | |

Each `MC...` module gives the constants their values. Every module puts, right before
some definition, a `Bad...` variant of it: the slip a test would hardly notice, which the
properties are known to tell from the definition itself. No specification uses them.

**JobQueue.** One action is one SQL statement or one transaction end, because that is the
granularity at which the processes see each other. `writer` is SQLite's write lock; a
statement that writes needs it free, and a slot that begins a transaction while it is
taken either waits (the step is not enabled) or fails as busy (`BeginTxBusy`). `held` and
`heldAttempts` are the `*job.Job` that `ClaimDue` returned: `handleFailure` decides on
that copy and writes by id. `Tick` moves `runAt` and `lockedUntil`, kept relative to now.
`BeginCommand`, `CommandEnqueue`, `CommandCommits`, `CommandRollsBack` are a bus command
that enqueues; `EnqueueNow` is an event handler that does, after the commit. `Crash`,
`Shutdown`, `SlotExits`, `ProcessExits` and `Restart` are the life of a process.

**TokenRotation.** `FindByHash`, `FindByID`, `SaveNew`, `MarkUsed`, `Revoke` and `Lapse`
are the statements of `RefreshTokenHandler.Handle` in its order; the replacement is saved
before the old token is consumed. `Fail` is any statement that returns a transient error.
`Granted` and `Denied` are the reply and what the browser does with its Set-Cookie,
whatever cookie it holds by then; a lost reply leaves the jar alone. `about` is the
owner, the login and the parent of a token, kept as history for the properties.

**LoginLock.** `Read`, `Decide`, `Record`, `Reset` and `Issue` are the steps of a login
for a nickname that exists; `Record` is the UPDATE with its CASE branches. Ages saturate
one past `Window`, where they all behave alike.

**CommandBus.** A column of the row is the command that wrote it last. The handlers read
the row and write all of it back (`Repository.Update`): `UpdateUser` with the profile
replaced by its form ("edit") and with a new password also the password ("reset", nothing is
verified), `ChangePassword` ("password") with the password replaced, when the row still has
the one that it names. `CreateUser` ("create") inserts a row of its own and is the only
command with an event. A "login" stands for the commands with `SkipTransaction`. Any handler
may enqueue a job, as the dispatcher in its context offers; none of the repository's
handlers does so yet. `pc` is where a command is in the chain; `Cancel` is the
request's context ending under the handler, upon which database/sql rolls back; `Panic`
unwinds past every middleware but Recovery, and `ContextDone` is the end of the request,
which frees the lock.

`SerialCommands` is what this implements: a command happens whole, at one moment, on what
the one before has left, or never. It has no lock, no transaction and no way to fail. A
command has happened there when the bus returns its success (`Acknowledged`), so one that
was refused, cancelled, killed or stopped by a panic must leave nothing. It does not say
that an acknowledged change lasts: a later edit replaces nickname, email and role whatever
they have become since its form was loaded, and a reset replaces a password that a user has
just changed (`update_user.go:78-97`; no version is compared). What it says is that nothing
else is lost: an edit takes no password back to what it had read, and of two changes that
name the same old password the second is refused.

**ClientSession.** A step is the code between two awaits. `Settle` is the `finally` block
of a refresh together with everybody who awaits its promise. `Reload` loses everything but
the cookies. `LoginSucceeds` is a 200 and `LoginMisses` any other end of a login; a
`RefreshMisses` may have brought its cookies, when it was a 200 with a malformed body. What a
reply says is otherwise left open here, and has no run of its own.

**SessionAndServer.** Here the replies are the server's. `Asks` is a step of the tab that
may post a refresh, `Handles` a statement of the server, `RefreshReplied`, `LoginReplied`
and `LogoutReplied` a reply, which is a step of both and sets the browser's cookie.
`...Breaks` is a call that the page gives up on, because it never reached the server, was
answered by a 5xx, or its reply is lost; the server may still be at work on it, and its
cookies may still arrive (`Orphaned`). `Trouble` is the budget of what goes wrong.
`excused` remembers that the session has had a cause to be lost, so that the properties
can speak of all the others.

**ServeLifecycle.** `main` is the goroutine of RunE through `runWithShutdown`; scheduler
jobs and worker slots are goroutines of one shape (call, then select on context and
ticker) and share the actions of a `Loop`.

**RateLimiter.** A token is `Per` units and a tick refills `Tokens` units, so the
arithmetic of the code's floats is exact. `Init` chooses one of the rules that
`ParseRateRule` accepts; `Arrive` reads the clock, `Admit` and `Refuse` hold the mutex.
`admitted[a]` is the history: how many of the admitted requests read the clock at most `a`
ticks ago, so that a window's admissions are a difference of two of its values. `Longest`
bounds the `Per` of a rule, so that ages and the history have fixed ranges; an age
saturates at `Far`, beyond which neither clamp nor janitor can tell it from a greater one.
`Gift` is what one `Sweep` costs when the rule is longer than `DropAfter`, and `GivenAway`
what the sweeps of a window cost together: they are at least `Idled` apart.

**UserAdmin.** `Read`, `Mint`, `Save` and `Deliver` are what a login or a refresh does with
the role: it reads it, signs it, saves a refresh token (which takes a user that exists) and
answers. `Arrive` is the middleware, which admits a request by its claims; `CreateUser`,
`UpdateUser` and `DeleteUser` are whole transactions with their guards. `LookUp` and
`Insert` are the two statements of the console, on the pool. `access` is the time left to a
user's best token with role admin, since no other token admits to these commands.

**ErrorReporting.** `pc` walks a request through the chain of `buildMiddlewareChain`, the
command or query bus and the subscribers of its event, and a job through its attempts.
`hub` holds the Sentry hubs and `hubOf` the pointer in a context; a log line that is given
the context becomes a breadcrumb of that hub (`Log`), and `Report` is a capture from it,
which the transport takes or drops. A line is its origin, its attempt and its name, so a
trail that mixes two of them can be told. `phase` is the end of the process: drain, flush,
exit. `raised`, `said`, `unmarked`, `before` and `ending` are history.

## Runs, bounds and fairness

| Run | Question | Why these bounds |
|---|---|---|
| `queue_safety` | exclusive claims, atomic completion, the retry budget, cascades, refinement of `DurableQueue`, to which a row with two outcomes is in no state at all | two slots in two replicas are the fewest that can race; one replica lacks a handler; j1 has a retry and enqueues j2, j3 is independent so that the due order matters; a lease of 3 ticks leaves room for all steps of a slot; two faults allow one during the recovery of the other |
| `queue_liveness` | every enqueued row ends | slow handlers and stalls allowed, one fault, leases of 2 |
| `queue_slow_handler` | `OneOutcome` when a handler outlives its lease | violated |
| `token_safety` | single use, final revocation, useless denials, refinement of `SessionChain` | three calls: two that race and one that revokes, from the tabs of one browser; three tokens are a login and two successors, or two logins and one; every event the code handles. (`TypeOK` is checked by `session_server`, in `SystemTypeOK`) |
| `token_false_race` | "0 rows means that somebody rotated" | violated |
| `lock_burst` | a burst locks; the lock is not prolonged and ends | threshold 3 with three logins in flight, so a whole burst can overlap; ticks of five minutes make Window 2 and LockDuration 3 |
| `bus_chain` | refinement of `SerialCommands`, effects follow commits, records survive, no self-deadlock | three commands of any kinds, so that two changes of one password can meet an edit, a reset, a new user or a failed login, two faults among statement errors, cancelled requests, panics and crashes |
| `session_server` | whoever is shown as signed in is, an error does not sign anybody out, a session is tended, whoever is not signed in finds out, retries and calls end | two calls at the server, so that one can overtake the other, and three tokens: a login and two rotations, or two logins and one; one authFetch, a budget of one retry and one trouble, since liveness keeps every state in memory. With two troubles and the safety properties alone (730 thousand states) nothing else is found |
| `serve_shutdown` | nothing is killed, the exit code is honest, the process ends | one loop of each kind, two connections, whose requests may never end |
| `limiter_bucket` | no window exceeds the rule, refusals are earned | a rule of 3 per 4 ticks, so that tokens and ticks do not divide, one of 2 per 7 that outlasts the janitor's 5, and one of no tokens, which is refused; two requests that may overtake each other by a tick |
| `user_rights` | nicknames are unique, rights expire, an administrator remains | three users, so that two administrators can meet a third, and three names, so that all three can exist at once or clash; two calls at once; a token lives two ticks, a sign-in or a request takes one at most |
| `error_reports` | every panic is reported once and nothing else is, each report is true to its origin, and the flush delivers | one request with one subscriber and one job with one retry, beside the hub of the process; a buffer of one, so that the second report may be dropped; three faults reach two panics and a failed flush. Two requests (3.3 million states) find nothing else |

Every counter that could grow is bounded in a guard (`MaxFaults`, `MaxTroubles`,
`MaxClaims`) or saturates where its values stop mattering (`Horizon`, `Old`, `Far`). No run
uses a state constraint. `CHECK_DEADLOCK FALSE` is given where the system really stops: all
commands answered, the process exited, all tokens minted.

Symmetry is used for tokens and calls, for commands, and for users, names and calls, which
nothing tells apart. No run with liveness uses it.

**Fairness.**
- *Queue*: slots poll for ever and statements end by `busy_timeout` (weak fairness);
  a statement that waits for the write lock gets it when it keeps coming free (strong
  fairness on ClaimDue, UnknownKind and HandleFailure), since commands hold it for
  milliseconds and a slot that polls every second tries again for ever. That a handler
  succeeds or that a transaction begins in time is not assumed: `HandlerFails` and
  `BeginTxBusy` share their fairness with the good outcome. A stopped process is
  restarted in the end, as any supervisor does.
- *Lock*: the clock runs and logins in flight proceed. New failed logins never cease.
- *Tab and server*: timers fire, the bootstrap asks, every call ends (by its reply or by
  an error, so with weak fairness on the disjunction and none on the good outcome), and
  the server goes on with a call it has begun. The user owes nothing. With this every call
  of `authFetch` returns and a bootstrap ends (`WaitingEnds`), and a tab that shows a session
  which the server has ended finds out (`GhostsEnd`), if only at its next refresh.
- *Process*: goroutines run and functions that were given a cancelled context return. A
  `select` with both cases ready chooses at random, so it does not prefer its ticker for
  ever: strong fairness on `LoopEnds`. Requests may never end.

## Proofs

All that can be is proved: every invariant and every action property of a passing run, and
the refinements of `DurableQueue`, `SessionChain` and `SerialCommands`. The theorems are about the queue, the
tokens, the bus, the lock, users and rights, the tab with its server, the serve process,
the rate limiter and error reporting. Every theorem is about the component's specification
with its constants left open, and none uses fairness. Each `...Proofs` module names its
inductive invariant and the parts of it at its top, the ones of a refinement where it is
proved.

### The queue

`JobQueueProofs` proves, for any number of jobs, slots, processes, retries and faults and
any lease and delays:

| Theorem | Statement | Timing assumed |
|---|---|---|
| `TypeCorrect` | `Spec => []TypeOK` | none |
| `CascadeIsAtomic` | `Spec => []FollowUpsOfCommitted` | none |
| `ClaimIsExclusive` | `Spec => []SoleHolder` | `Prompt` |
| `CompletionIsAtomic` | `Spec => []EffectsMatchRow` | `Prompt` |
| `OutcomesAreExclusive` | `Spec => []OneOutcome` | `Prompt` |
| `RetriesAreBudgeted` | `Spec => []Budgeted`: the budget is kept, and only a spent one fails a row | `Prompt` |
| `FinishedRowsStay` | `Spec => FinishedIsFinal` | `Prompt` |
| `QueueKeepsPromise` | `Spec => KeepsPromise`, i.e. `Durable!Spec` | `Prompt` |

The assumptions are `ConstantsOK` (types of the constants) and, where the table says so,
`Prompt == ~SlowHandlers /\ ~Stalls`: no lease runs out while its slot still holds the
row. The code has no means to enforce that; `defaultLockFor` is five minutes on the
premise that handlers are shorter. `queue_slow_handler` shows that it is needed.

The argument. `TypeOK` is not inductive: that `MarkComplete` keeps `completed` inside
`enqueued` needs a slot that runs to hold a row of the table, and that a commit by one
slot is not a commit of another's buffer needs the lock to be the runner's. `BaseInv`
adds these (`HoldsARow`, `WriterRuns`, `DownMeansStopped`). `LeaseInv` says why claims are
exclusive: a held row is pending and under its lease, so `Claimable` cannot contain it,
and `Tick` may not end the lease. `BudgetInv` says that the slot's copy of `attempts`
equals the column (`CopyIsFresh`), and that a pending row nobody works with has an attempt
in reserve, up to faults. `CascadeInv` says that the open transaction holds follow-ups of
its own slot's job only. The four invariants are preserved by four lemmas, one step per
action, and `InvariantsHold` combines them. For the refinement, each action is shown to
be a submission, a completion or a final failure of `DurableQueue` under `RowState`, or a
stutter (`PromiseStep`). `RowState` maps a row with both outcomes to no state of
`DurableQueue`, so that `KeepsPromise` says what `OneOutcome` does; the latter has the
violated run of its own.

### The tokens

`TokenRotationProofs` proves, for any number of users, browsers, tokens, calls and faults
and any of the events:

| Theorem | Statement |
|---|---|
| `TypeCorrect` | `Spec => []TypeOK` |
| `RotationIsSingleUse` | `Spec => []SingleUse` |
| `RevocationIsFinal` | `Spec => []RevocationHolds` |
| `DenialIsFinal` | `Spec => []DeniedIsUseless` |
| `SessionsAreChains` | `Spec => OneChainPerLogin`, i.e. `Chain!Spec` |

The only assumption is `TokenAssumption`: types, finite sets, some browser. Nothing is
assumed of time or order. The argument, `TokenInv`: a token is handed to one call only
(`MintedInv`, `NewInv`), a call keeps the token it presents and its user (`CallInv`), and a
rotation stays in its family and with its owner (`FamilyInv`), so that what
`DeleteByUserID` deletes are whole families. The parent of a token that was granted is not
live (`SpentInv`); since `MarkUsed` succeeds on a live row only, no second call is granted a
child of it. A call that has saved its replacement and is caught by a revocation finds
its old row gone, since rows of revoked families that were granted are never live again
(`RevokedInv`): what it saved is deleted as well, or stays behind in nobody's hands. The deletion after
an expired token may fail, which is harmless because the token is expired (`LapseInv`).

For the refinement, a token is `Issued` when it is on its way to a browser or was, and the
`Bearer` of a login is its issued token that is live. `ChainInv` adds that there is one at
most. `LoginSave` opens a session, a `MarkUsed` that touches its row hands it on to the
token saved before (or to none, when that one expired and was cleaned up meanwhile), and
every other step leaves what is issued and brings no issued row to life (`OnlyEnds`), so
that sessions end at most (`EndsOrStutters`). A replacement that was saved in vain is never
seen. The chain says more than `SingleUse` and `RevocationHolds`: no order of calls can
leave a login with two live tokens, or wake up a session that has none.

### The bus

`CommandBusProofs` proves, for any number of commands of any kinds and any faults:

| Theorem | Statement |
|---|---|
| `TypeCorrect` | `Spec => []TypeOK` |
| `CommandsAreSerial` | `Spec => CommandsAreAtomic`, that is `Serial!Spec` |
| `EffectsFollow` | `Spec => []EffectsFollowCommit` |
| `TrailHolds` | `Spec => []TrailSurvives` |
| `NoSelfDeadlock` | `Spec => []NeverWaitsForItself` |

The only assumption is `BusAssumption`, the types of the constants. The argument,
`BusInv`: whoever holds the lock is between BEGIN and the end of its transaction
(`LockInv`), so nobody else writes. What it has read is therefore what the tables hold, and
what it is going to commit is one of the results that it would have alone (`TxInv`, with
`ResultOfWrite` for the write itself). A result is given once (`ResultInv`), so no refusal
takes back a success, and a user that an event tells of is in the table (`EventInv`). For
the refinement, a successful commit is `Happens` of its command (`CommitHappens`); every
other step, the panics, cancellations, crashes and refusals among them, leaves tables and
successes alone and stutters (`OthersAreHidden`). `TrailInv` adds to `TrailSurvives` that a command that has not begun has no
record.

### The lock

`LoginLockProofs` proves `TypeCorrect` (`Spec => []TypeOK`; in particular the counter stays
below the threshold), `BurstsLock` (`Spec => []BurstLocks`) and `LockNotProlonged`
(`Spec => LockIsNotProlonged`), for any number of overlapping logins, any threshold, window
and duration of the lock; the first two with or without logins slower than a tick, the last
for quicker ones (`Quick`), which the property names. The only assumption is
`LockAssumption`, the types of the constants.

The argument, `LockInv`: the counter is the length of a chain of failures of which each
fell into the window of the one before, and every failure older than the chain is already
out of the window; no failure is younger than `last_failed_login_at` (`BurstInv`). A
failure that would make `Threshold` recent ones therefore finds the counter at
`Threshold - 1`, and `Record` locks.

For the lock, `CopyInv`: a login's copy of `locked_until` is still right, or another login
has cleared the lock or set one since; a login that has seen a tick goes before the next,
so a lock it does not know of has lost one tick at most. A login that records has seen no
lock, so with more than that gone from the lock there is none left that could.
`LockIsNotProlonged` is the safety half of `LockEnds`, which stays with TLC.

### Users and rights

`UserAdminProofs` proves, for any users, names and calls and any lives of tokens:

| Theorem | Statement |
|---|---|
| `TypeCorrect` | `Spec => []TypeOK`: nicknames are unique, too |
| `RightsEnd` | `Spec => []RightsExpire` |
| `LastAdminStands` | `Spec => AnAdminRemains` |

The only assumption is `AdminAssumption`. The argument, `AdminInv`: `ceased` counts the
time since a user stopped being an administrator, and every carrier of the old role has an
account of it (`AgeInv`). A role read by a sign-in is no older than the sign-in; the time a
token has left and the time since the demotion add up to at most `Life + Patience`; and a
request in flight was admitted while such a token lived. `TypeOK` and `CallInv` give each
call its sender and its role. `AnAdminRemains` needs of the invariant only that a request
has a sender: the last administrator falls to an update or a deletion whose guard has
refused the sender's own row.

### The tab and its server

`SessionAndServerProofs` proves, for any number of tokens, calls at the server, calls of
`authFetch`, retries and troubles:

| Theorem | Statement |
|---|---|
| `SystemWellFormed` | `SystemSpec => []SystemTypeOK` |
| `TabTended` | `SystemSpec => []Tended` |
| `RealSession` | `SystemSpec => []SessionIsReal` |
| `OutOnlyForCause` | `SystemSpec => StaysSignedIn` |

The assumptions are `SessionAssumption` (some retry) and `SystemAssumption` (tokens and
calls are numbers, and "no token" and "no user" are none of them).

The argument, `SystemInv`, has a part for each side and one that ties them together.
`ServerInv` and `CallInv`: a call presents a token that has been answered, and one that it
has minted is its own and has not been. (`TokenInv` of `TokenRotationProofs` does not carry
over: a logout on another device, `EndsElsewhere`, is no step of `TokenRotation`.)
`PageInv`: one refresh at most is in flight, which may have gone without a cookie
(`RotationInv`); a timer or a refresh is there while the tab is signed in (`TimerInv`); what
is awaited is a call that the page has made, one of each kind (`AwaitInv`).

`RealInv` is what makes a session real. Unless it is excused, the browser's cookie is live
or its successor is granted and on its way (`CookieHolds`), and every call at the server is
`Harmless`: it is a login, or it is *the* refresh that the page awaits and the token it
presents is live. This is where the single flight of `refresh.ts` meets the compare-and-swap
of `refresh_token.go`. A refresh is posted only when none is awaited, so its cookie is live
(`AskKeepsReal`); as long as it is at work, no other call presents that token, so `MarkUsed`
finds it live and nothing is taken for a theft (`HandlesKeepsReal`); the reply hands the
browser the successor (`GrantKeepsReal`). A refresh that the page gives up while the server
is at work on it would leave a call that is not harmless, and is an excuse. A login that
begins afresh owes nothing to what was before (`LoginEndsReal`). `StaysSignedIn` follows:
without an excuse there is no call to be denied and no refresh without a cookie, so only a
spent budget is left.

The invariant, checked on the run's instance before it was proved, was broken by the model
of that time: a login that succeeded could go by the branch of one that failed and leave
the hint alone. `LoginSucceeds` and `LoginMisses` are apart since, and a refresh answered by
a malformed 200 keeps the cookies it has brought.

### The serve process

`HttpServerProofs` proves, for any scheduler jobs, worker slots and connections:

| Theorem | Statement |
|---|---|
| `ServeTypeCorrect` | `ServeSpec => []ServeTypeOK` |
| `NobodyIsKilled` | `ServeSpec => []NothingKilled` |
| `ExitIsHonest` | `ServeSpec => []CleanExit` |

There is no assumption. The argument, `LifecycleInv`: a loop that has left its first call
has run, and a drained loop stays so (`LoopInv`); the channel `serverErr` tells whether the
listener failed or was closed, and it is closed by Shutdown alone (`ListenerInv`); requests
left over when the server has returned have a reason, the end of the grace period or a
failed listener, and then the exit code is an error (`RequestInv`).

### The rate limiter

`HttpServerProofs` proves, for any rules, any number of requests that wait for the mutex,
any wait between clock and mutex and any patience of the janitor:

| Theorem | Statement |
|---|---|
| `TypeCorrect` | `Spec => []TypeOK` |
| `LimitIsKept` | `Spec => []LimitHolds` |
| `RefusalsAreEarned` | `Spec => RefusalIsEarned` |

`LimiterAssumption` gives the types of the constants, excludes periods of zero or below
(see the next section) and asks for `2 * Delay <= DropAfter`: a request or the janitor waits
for a mutex that is held for microseconds at most half of the five minutes after which a
bucket counts as idle.

The argument, `LimitInv`. The level `units + age * Tokens`, before any clamp, says what the
bucket can pay for now, and is never negative (`Solvent`). `WindowInv` is an account of
every window of time: its admissions and what the bucket still has were paid for by one
full bucket, the refill since the window began and the gifts of the sweeps in it. A sweep
throws away an account that was at most a burst short of full, and as it needs an idle
bucket, two sweeps are at least `Idled` apart (`Spaced`), which bounds their number in
`LimitHolds`. A request that was overtaken pays with an older clock, so the account goes
back as far as the oldest clock that waits. `EarnedInv` is the converse, what is missing in
the bucket was let through in the last ticks, and gives `RefusalIsEarned`.
Multiplication and division need lemmas of their own (`Monotone`, `Distributes`,
`Quotient`), which is most of the module. The proof found what the run had not: an age
used to saturate too early for rules longer than the janitor's patience, where the bucket
goes on refilling. `Far` depends on `Longest` for that reason, and `limiter_bucket`
contains such a rule.

### Error reporting

`ErrorReportingProofs` proves, for any requests, jobs and subscribers, any retry limit and
buffer and any number of faults:

| Theorem | Statement |
|---|---|
| `TypeCorrect` | `Spec => []TypeOK` |
| `EachFailureIsReportedOnce` | `Spec => []OneReport` |
| `FlushDelivers` | `Spec => []Delivered` |
| `ReportsTellTheTruth` | `Spec => ReportsAreTrue` |

The only assumption is `ReportingAssumption`. The argument, `ReportInv`: an activity that
has begun has a hub of its own, whose trail is what it has said in its present scope, and
nothing is ever written to the process's hub (`ScopeInv`); that is why a report cannot
carry the lines of another. Every panic is counted by `raised`, and is reported already or
on its way to the one recovery that will (`CountInv`); a job's terminal failures are those
reported, up to the ones whose `MarkFailed` was lost. What was captured before the end is
delivered or was dropped when the flush ended well (`FlushInv`). `Count` is a cardinality
over the sequence of reports, so `CountAfter` and `CountStays` say what an append does to
it.

### What is only model-checked

Liveness: `EveryJobFinishes`, `LockEnds`, `GhostsEnd`, `WaitingEnds`, `ShutdownEnds`. The
proof system handles neither fairness nor ENABLED here. Nothing in the models is recursive,
so no theorem had to stop at an induction over data.

## Where code and documents disagree

Two runs end in a violation, on purpose:

1. `queue_slow_handler`: `MarkFailed` and `Reschedule` have no guard but the id. A slot
   whose lease ran out during its handler marks as failed a row that another slot has
   completed; `app/domain/job/job.go:9` derives one state from the columns.
2. `token_false_race`: `MarkUsed` touches 0 rows also when the row has been deleted
   meanwhile. The comment at `refresh_token.go:149` takes it for a concurrent rotation;
   a theft is recorded and the user's tokens are deleted, those of a later login included.

Seen while modelling, without a run of their own:

- A `BEGIN IMMEDIATE` that times out counts as a failed attempt. With `max_retries` 0 the
  row is failed though its handler was never called
  (`docs/framework/infrastructure/job-queue.md:24` promises at least once).
- `ClaimDue` does not look at `max_retries`: attempts lost to crashes come on top of the
  "up to N retries" of `job.go:22`. `RetryBudget` is stated with the faults added.
- The backoff of the 56th and later attempts is 0: the product overflows to exactly 0.
- A refresh reply lost after `MarkUsed` committed leaves the browser with a used token;
  its retry ends every session of the user, against `refresh.ts:47`; so does a reload while
  a refresh is in flight. `SessionIsReal` and `StaysSignedIn` count both as causes
  (`excused`). That two tabs which refresh at once look like a theft is a known trade-off
  (`docs/roadmap.md:298`).
- A refresh that was sent before a login and refused after it signs the new session out:
  `refresh.ts` does not ask whether the session it was sent for is still the one it ends.
- A logout clears the browser's cookie and revokes the tokens of the access token's user.
  When another user has signed in with that browser meanwhile (a second tab), the cookie is
  the other's and its token stays live, against the "cleared IFF the server actually revoked
  the tokens" of `handler/auth.go:157`. `DeniedIsUseless` therefore speaks of the tokens of
  the user that was denied. `token_safety` has one user; two users with two calls
  (3.1 million states) find nothing else, and the theorem holds for any number.
- A change of password leaves the user's refresh tokens and access tokens as they are.
- `DeleteByUserID` is by user: an expired cookie of one device ends the sessions of all.
- A late reply to a logout clears the cookie of a login that came after it, and a late
  reply to a refresh signs a tab in again after its logout.
- A failure recorded by a login that read the row before the lock still moves counter and
  lock (`docs/guides/auth.md:109` says that it does not), and the window is measured from the
  last failure, not the first. `LockIsNotProlonged` is about the rest of the lock; it and
  `LockEnds` are for logins shorter than a tick (`Quick = TRUE`); `Quick = FALSE` breaks
  `LockEnds`.
- The first failure after a lock has expired is announced as `auth.account.locked`, as
  `locked_until` is still set.
- A later `UpdateUser` overwrites what an earlier one was acknowledged for, and a reset an
  acknowledged `ChangePassword`: the form carries every field and no version is compared, so
  an edit from an old form can restore a role that has been taken away meanwhile.
- An audit record is written also for a change whose commit failed, and none for a command
  that panicked. A panic leaves its transaction open until the request's context ends.
- Rights are those of the access token, up to 15 minutes old. A demoted administrator can
  make itself administrator again while its token lasts (the guard of `update_user.go:53`
  is about other roles), and two administrators can remove each other. `AnAdminRemains`
  therefore says that the last one falls only to a sender who no longer is one.
- `retries` of `refresh.ts` survives login and logout, so a new session may start with a
  spent budget and a single blip ends it, against `refresh.ts:47`.
- `login.ts` does not check the shape of a 200 reply, as `refresh.ts` does; without a
  lifetime in it no timer is armed.
- With a rate rule over more than five minutes the janitor drops buckets that have not
  refilled, and the address gets a new burst. `LimitHolds` bounds what that gives away
  (`GivenAway`); the defaults are per minute. Requests that overtake each other can lose
  the refill between them.
- `ParseRateRule` accepts a period of zero or below (`10/0s`, `10/-5m`): the refill is then
  infinite, not a number or negative. `LimiterAssumption` excludes such rules.
- `worker.go:226` calls retries "NOT reported", but the report precedes `MarkFailed`: when
  that write is lost, the job that was reported as failed runs and is reported again.
  `OneReport` counts these (`unmarked`).
- `docs/guides/sentry.md:78` promises user and request with every backend event. A panic
  that a bus recovers is reported without the request, one that reaches the HTTP recovery
  without the user's id, and a job's failure with neither. `ReportsAreTrue` says which
  parts can be relied on.

## Not modelled

- Queries, dashboards and lists: they read, and change nothing.
- Token signing and password hashing, which are library calls; permissions that every
  signed-in user has.
- Migrations and the set-up of the database, before any concurrency. The modes it sets up
  (immediate transactions, the busy timeout, foreign keys) are part of the models.
- Configuration, masking and the wording of logs. HTTP headers, status codes and bodies.
- Views, forms and toasts; fixtures, the documentation site and tooling.

`PROJECT.json` lists them with their sources. Two hazards have no property, with the
reason beside them: a `BEGIN IMMEDIATE` that times out counts as an attempt, and the
client's `retries` outlives its session. Both are what the code does, and above.

## Plan

Written in the order of what the application promises its users most: the queue with its
abstract specification and proofs; tokens; the lock; the bus; then tab, process and
limiter, users and rights; then the tab together with its server, and error reporting.
Next:

1. *Model*: the backoff over int64 against its reference; the client around its session
   (toasts and their timers, the route guards, the administrators' forms); two tabs of one
   browser at one server, which `SessionAndServer` would need a second `ClientSession` for.
2. *Runs*: each new question should replace a weaker one or join a run that has its state.
