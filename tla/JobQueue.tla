------------------------------ MODULE JobQueue ------------------------------
(***************************************************************************)
(* The persistent job queue: the SQLite table jobs, the dispatcher that    *)
(* inserts into it, and the worker slots that claim and run its rows.      *)
(*                                                                         *)
(* One step is one SQL statement, or one whole transaction end, because    *)
(* that is the granularity at which the processes see each other: every    *)
(* transaction starts with BEGIN IMMEDIATE (sqlite_manager.go), so it owns *)
(* the database's only write lock until Commit or Rollback, and a          *)
(* statement of anybody else waits or fails as busy meanwhile.             *)
(*                                                                         *)
(* Time is relative: runAt and lockedUntil count the ticks that separate a *)
(* column from now, so the state space stays finite without a last tick.   *)
(***************************************************************************)
EXTENDS Integers

CONSTANTS
    Job,            \* the rows that may ever be enqueued
    Worker,         \* the worker slots (goroutines of Worker.Run)
    Process,        \* the OS processes (serve, worker replicas)
    ProcessOf,      \* the process a slot runs in
    Handles,        \* the jobs whose kind a process has a handler for
    MaxRetries,     \* the max_retries column of each job
    FollowUps,      \* the jobs a job's handler may enqueue (cascade)
    Delays,         \* the WithDelay values producers use, in ticks
    LockFor,        \* defaultLockFor, in ticks
    BackoffCap,     \* the cap of backoff, in ticks
    Horizon,        \* how far in the past a due time is still told apart
    MaxFaults,      \* bound: crashes, shutdowns and lost writes in a run
    SlowHandlers,   \* may a handler hold its transaction past the lease?
    Stalls,         \* may a slot sit past the lease outside the transaction?
    Nobody, Command, NoJob

ASSUME ConstantsOK ==
    /\ ProcessOf \in [Worker -> Process]
    /\ Handles \in [Process -> SUBSET Job]
    /\ MaxRetries \in [Job -> Nat]
    /\ FollowUps \in [Job -> SUBSET Job]
    /\ Delays \subseteq Nat
    /\ LockFor \in Nat \ {0}
    /\ BackoffCap \in Nat \ {0}
    /\ Horizon \in Nat
    /\ MaxFaults \in Nat
    /\ SlowHandlers \in BOOLEAN
    /\ Stalls \in BOOLEAN
    /\ Nobody \notin Worker
    /\ Command \notin Worker
    /\ Nobody # Command
    /\ NoJob \notin Job

VARIABLES
    enqueued,       \* the rows of the table, as other connections see it
    runAt,          \* run_at minus now, no lower than -Horizon
    attempts,       \* the attempts column
    lockedUntil,    \* locked_until minus now; 0 is NULL or in the past
    completed,      \* the rows with completed_at set
    failed,         \* the rows with failed_at set
    writer,         \* who holds SQLite's write lock
    buffer,         \* the rows inserted by the open transaction
    pc,             \* where a slot stands in processOne
    held,           \* the row ClaimDue returned to the slot
    heldAttempts,   \* j.Attempts of that copy, never refreshed
    status,         \* the life cycle of a process
    faults,         \* how many faults have occurred
    effects         \* history: committed handler transactions per job

table     == <<enqueued, runAt, attempts, lockedUntil, completed, failed>>
txVars    == <<writer, buffer>>
slotVars  == <<pc, held, heldAttempts>>
vars == <<table, txVars, slotVars, status, faults, effects>>

-----------------------------------------------------------------------------

Phase == {"poll", "claimed", "running", "failing", "stopped"}

(***************************************************************************)
(* Deliberately wrong variants.  Nothing below uses the operators whose    *)
(* names start with Bad: each is what a plausible slip would make of the   *)
(* definition it is named after, and the runs' properties must tell them   *)
(* from it.                                                                *)
(***************************************************************************)

\* ClaimDue forgets AND failed_at IS NULL.
BadPending == enqueued \ completed

\* ClaimDue forgets the locked_until condition.
BadClaimable == {j \in enqueued \ (completed \cup failed) : runAt[j] <= 0}

\* handleFailure compares with >=.
BadExhaustedEarly(w) == heldAttempts[w] >= MaxRetries[held[w]]

\* The deferred Rollback is forgotten, the pool's next user commits the rest.
BadRollBack ==
    /\ writer' = Nobody
    /\ buffer' = {}
    /\ enqueued' = enqueued \cup buffer
    /\ UNCHANGED runAt

\* MarkComplete forgets to set completed_at, or is left out of the handler's
\* transaction and lost with it.
BadMarkComplete(j) ==
    /\ lockedUntil' = [lockedUntil EXCEPT ![j] = 0]
    /\ UNCHANGED completed

\* locked_until IS NULL is the only condition: a lease never runs out.
BadRunDown(lease) == lease

\* The time left is not clamped at now.
BadRunDownTo(lease) == lease - 1

-----------------------------------------------------------------------------

\* Pending: not finished in either way, as both NULL checks of ClaimDue say.
Pending == enqueued \ (completed \cup failed)

\* The rows the inner SELECT of ClaimDue may return.
Claimable == {j \in Pending : runAt[j] <= 0 /\ lockedUntil[j] = 0}

\* ORDER BY julianday(run_at) LIMIT 1.
NextDue == {j \in Claimable : \A k \in Claimable : runAt[j] <= runAt[k]}

Slots(p) == {w \in Worker : ProcessOf[w] = p}

Up(w) == status[ProcessOf[w]] = "up"

\* The kind is in the registry of the binary that runs the slot.
Knows(w, j) == j \in Handles[ProcessOf[w]]

\* The delay of the next retry in units of baseBackoff.  The product of the
\* code is an int64 of nanoseconds: 5 s is an odd multiple of 2^9 ns, so from
\* 2^55 units on it is 0, which the test for d < 0 lets pass; the products
\* that overflow before come out negative or too large, and are capped.
Backoff(n) ==
    LET d == 2 ^ ((IF n < 1 THEN 1 ELSE n) - 1)
    IN  IF n > 55 THEN 0 ELSE IF d \in 0..BackoffCap THEN d ELSE BackoffCap

\* The slot's processOne returns: the copy of the row is gone.
Release(w, phase) ==
    /\ pc' = [pc EXCEPT ![w] = phase]
    /\ held' = [held EXCEPT ![w] = NoJob]
    /\ heldAttempts' = [heldAttempts EXCEPT ![w] = 0]

\* handleFailure: the copy's attempts, 1-based, have used up the retries.
Exhausted(w) == heldAttempts[w] > MaxRetries[held[w]]

\* Commit makes the transaction's rows visible and frees the write lock.
Commit ==
    /\ writer' = Nobody
    /\ buffer' = {}
    /\ enqueued' = enqueued \cup buffer

\* The open transaction disappears with everything it wrote.
RollBack ==
    /\ writer' = Nobody
    /\ buffer' = {}
    /\ runAt' = [j \in Job |-> IF j \in buffer THEN 0 ELSE runAt[j]]
    /\ UNCHANGED enqueued

\* UPDATE jobs SET completed_at, locked_until = NULL WHERE id = ?
MarkComplete(j) ==
    /\ completed' = completed \cup {j}
    /\ lockedUntil' = [lockedUntil EXCEPT ![j] = 0]

\* UPDATE jobs SET failed_at, locked_until = NULL WHERE id = ?: no other guard.
MarkFailed(j) ==
    /\ failed' = failed \cup {j}
    /\ lockedUntil' = [lockedUntil EXCEPT ![j] = 0]
    /\ UNCHANGED <<enqueued, runAt, attempts, completed>>

\* UPDATE jobs SET run_at, locked_until = NULL WHERE id = ?: no other guard.
Reschedule(j, delay) ==
    /\ runAt' = [runAt EXCEPT ![j] = delay]
    /\ lockedUntil' = [lockedUntil EXCEPT ![j] = 0]
    /\ UNCHANGED <<enqueued, attempts, completed, failed>>

\* A lease as the next tick finds it.
RunDown(lease) == IF lease > 0 THEN lease - 1 ELSE 0

-----------------------------------------------------------------------------

Init ==
    /\ enqueued = {}
    /\ runAt = [j \in Job |-> 0]
    /\ attempts = [j \in Job |-> 0]
    /\ lockedUntil = [j \in Job |-> 0]
    /\ completed = {}
    /\ failed = {}
    /\ writer = Nobody
    /\ buffer = {}
    /\ pc = [w \in Worker |-> "poll"]
    /\ held = [w \in Worker |-> NoJob]
    /\ heldAttempts = [w \in Worker |-> 0]
    /\ status = [p \in Process |-> "up"]
    /\ faults = 0
    /\ effects = [j \in Job |-> 0]

-----------------------------------------------------------------------------
(***************************************************************************)
(* Producers.  Dispatcher.Enqueue inserts through Conn(ctx): inside the    *)
(* open transaction when the context carries one, on the pool otherwise.   *)
(***************************************************************************)

\* A job is a root when no handler enqueues it.
Root == {j \in Job : \A k \in Job : j \notin FollowUps[k]}

CanEnqueue(j) ==
    /\ \E p \in Process : status[p] = "up" /\ j \in Handles[p]
    /\ j \notin enqueued \cup buffer

\* TransactionMiddleware opens the transaction of a command.
BeginCommand ==
    /\ writer = Nobody
    /\ \E j \in Root : CanEnqueue(j)
    /\ writer' = Command
    /\ UNCHANGED <<table, buffer, slotVars, status, faults, effects>>

\* A command handler enqueues beside its business write.
CommandEnqueue(j, delay) ==
    /\ writer = Command
    /\ j \in Root
    /\ CanEnqueue(j)
    /\ buffer' = buffer \cup {j}
    /\ runAt' = [runAt EXCEPT ![j] = delay]
    /\ UNCHANGED <<enqueued, attempts, lockedUntil, completed, failed,
                   writer, slotVars, status, faults, effects>>

CommandCommits ==
    /\ writer = Command
    /\ Commit
    /\ UNCHANGED <<runAt, attempts, lockedUntil, completed, failed,
                   slotVars, status, faults, effects>>

CommandRollsBack ==
    /\ writer = Command
    /\ RollBack
    /\ UNCHANGED <<attempts, lockedUntil, completed, failed, slotVars,
                   status, faults, effects>>

\* An event handler, which runs after the commit, enqueues on the pool.
EnqueueNow(j, delay) ==
    /\ writer = Nobody
    /\ j \in Root
    /\ CanEnqueue(j)
    /\ enqueued' = enqueued \cup {j}
    /\ runAt' = [runAt EXCEPT ![j] = delay]
    /\ UNCHANGED <<attempts, lockedUntil, completed, failed, txVars,
                   slotVars, status, faults, effects>>

-----------------------------------------------------------------------------
(***************************************************************************)
(* A slot's processOne: ClaimDue, Lookup, runWithinTx, handleFailure.      *)
(***************************************************************************)

ClaimDue(w, j) ==
    /\ pc[w] = "poll"
    /\ Up(w)
    /\ writer = Nobody
    /\ j \in NextDue
    /\ attempts' = [attempts EXCEPT ![j] = @ + 1]
    /\ lockedUntil' = [lockedUntil EXCEPT ![j] = LockFor]
    /\ pc' = [pc EXCEPT ![w] = "claimed"]
    /\ held' = [held EXCEPT ![w] = j]
    /\ heldAttempts' = [heldAttempts EXCEPT ![w] = attempts[j] + 1]
    /\ UNCHANGED <<enqueued, runAt, completed, failed, txVars, status,
                   faults, effects>>

\* Registry skew: the binary has no handler, the row is failed for good.
UnknownKind(w) ==
    /\ pc[w] = "claimed"
    /\ Up(w)
    /\ ~Knows(w, held[w])
    /\ writer = Nobody
    /\ MarkFailed(held[w])
    /\ Release(w, "poll")
    /\ UNCHANGED <<txVars, status, faults, effects>>

\* BEGIN IMMEDIATE takes the write lock; the handler runs under it.
BeginTx(w) ==
    /\ pc[w] = "claimed"
    /\ Up(w)
    /\ Knows(w, held[w])
    /\ writer = Nobody
    /\ writer' = w
    /\ pc' = [pc EXCEPT ![w] = "running"]
    /\ UNCHANGED <<table, buffer, held, heldAttempts, status, faults, effects>>

\* The lock stayed taken for all of busy_timeout: begin tx fails, and the
\* attempt counts as a failure though the handler was never called.
BeginTxBusy(w) ==
    /\ pc[w] = "claimed"
    /\ Up(w)
    /\ Knows(w, held[w])
    /\ writer # Nobody
    /\ pc' = [pc EXCEPT ![w] = "failing"]
    /\ UNCHANGED <<table, txVars, held, heldAttempts, status, faults, effects>>

\* Cascade: the handler enqueues with the transaction of its own job.
HandlerEnqueue(w, j, delay) ==
    /\ pc[w] = "running"
    /\ Up(w)
    /\ j \in FollowUps[held[w]]
    /\ Knows(w, j)
    /\ j \notin enqueued \cup buffer
    /\ buffer' = buffer \cup {j}
    /\ runAt' = [runAt EXCEPT ![j] = delay]
    /\ UNCHANGED <<enqueued, attempts, lockedUntil, completed, failed, writer,
                   slotVars, status, faults, effects>>

\* The handler returns nil; MarkComplete joins its transaction; Commit.
HandlerSucceeds(w) ==
    /\ pc[w] = "running"
    /\ Up(w)
    /\ MarkComplete(held[w])
    /\ Commit
    /\ effects' = [effects EXCEPT ![held[w]] = @ + 1]
    /\ Release(w, "poll")
    /\ UNCHANGED <<runAt, attempts, failed, status, faults>>

\* An error, a panic, or a failed MarkComplete or Commit: the transaction is
\* gone, and the failure is recorded by a later statement on the pool.  With
\* the context cancelled database/sql rolls back by itself.
HandlerFails(w) ==
    /\ pc[w] = "running"
    /\ RollBack
    /\ pc' = [pc EXCEPT ![w] = "failing"]
    /\ UNCHANGED <<attempts, lockedUntil, completed, failed, held,
                   heldAttempts, status, faults, effects>>

\* handleFailure decides on the copy's attempts and writes by id.
HandleFailure(w) ==
    /\ pc[w] = "failing"
    /\ Up(w)
    /\ writer = Nobody
    /\ \/ /\ Exhausted(w)
          /\ MarkFailed(held[w])
       \/ /\ ~Exhausted(w)
          /\ Reschedule(held[w], Backoff(heldAttempts[w]))
    /\ Release(w, "poll")
    /\ UNCHANGED <<txVars, status, faults, effects>>

\* The write of an outcome fails (busy, I/O error): it is logged or dropped,
\* and the row keeps its lease until that runs out.
OutcomeLost(w) ==
    /\ \/ pc[w] = "failing"
       \/ pc[w] = "claimed" /\ ~Knows(w, held[w])
    /\ Up(w)
    /\ faults < MaxFaults
    /\ faults' = faults + 1
    /\ Release(w, "poll")
    /\ UNCHANGED <<table, txVars, status, effects>>

-----------------------------------------------------------------------------
(***************************************************************************)
(* Processes.  A shutdown cancels the context every slot works with, so    *)
(* each statement that follows fails and each slot leaves its loop; a      *)
(* crash stops all slots at once.  Either way SQLite drops the open        *)
(* transaction and the claimed rows keep their leases.                     *)
(***************************************************************************)

Shutdown(p) ==
    /\ status[p] = "up"
    /\ faults < MaxFaults
    /\ faults' = faults + 1
    /\ status' = [status EXCEPT ![p] = "cancelled"]
    /\ UNCHANGED <<table, txVars, slotVars, effects>>

\* BeginTx, MarkFailed and Reschedule fail on the cancelled context.
SlotExits(w) ==
    /\ status[ProcessOf[w]] = "cancelled"
    /\ pc[w] \in {"poll", "claimed", "failing"}
    /\ Release(w, "stopped")
    /\ UNCHANGED <<table, txVars, status, faults, effects>>

ProcessExits(p) ==
    /\ status[p] = "cancelled"
    /\ \A w \in Slots(p) : pc[w] = "stopped"
    /\ status' = [status EXCEPT ![p] = "down"]
    /\ UNCHANGED <<table, txVars, slotVars, faults, effects>>

Crash(p) ==
    /\ status[p] \in {"up", "cancelled"}
    /\ faults < MaxFaults
    /\ faults' = faults + 1
    /\ status' = [status EXCEPT ![p] = "down"]
    /\ pc' = [w \in Worker |-> IF w \in Slots(p) THEN "stopped" ELSE pc[w]]
    /\ held' = [w \in Worker |-> IF w \in Slots(p) THEN NoJob ELSE held[w]]
    /\ heldAttempts' =
         [w \in Worker |-> IF w \in Slots(p) THEN 0 ELSE heldAttempts[w]]
    /\ \/ /\ writer \in Slots(p)
          /\ RollBack
       \/ /\ writer \notin Slots(p)
          /\ UNCHANGED <<enqueued, runAt, txVars>>
    /\ UNCHANGED <<attempts, lockedUntil, completed, failed, effects>>

Restart(p) ==
    /\ status[p] = "down"
    /\ status' = [status EXCEPT ![p] = "up"]
    /\ pc' = [w \in Worker |-> IF w \in Slots(p) THEN "poll" ELSE pc[w]]
    /\ UNCHANGED <<table, txVars, held, heldAttempts, faults, effects>>

-----------------------------------------------------------------------------

\* A slot lets the lease of the row it holds run out only where the run
\* allows it: in the handler, or around it.
MayOverrun(w) == IF pc[w] = "running" THEN SlowHandlers ELSE Stalls

Tick ==
    /\ \A w \in Worker :
         held[w] # NoJob => lockedUntil[held[w]] # 1 \/ MayOverrun(w)
    /\ runAt' = [j \in Job |-> IF j \in enqueued \cup buffer /\ runAt[j] > -Horizon
                               THEN runAt[j] - 1 ELSE runAt[j]]
    /\ lockedUntil' = [j \in Job |-> RunDown(lockedUntil[j])]
    /\ UNCHANGED <<enqueued, attempts, completed, failed, txVars, slotVars,
                   status, faults, effects>>

-----------------------------------------------------------------------------

Produce ==
    \/ BeginCommand
    \/ CommandCommits
    \/ CommandRollsBack
    \/ \E j \in Job, d \in Delays : CommandEnqueue(j, d) \/ EnqueueNow(j, d)

SlotStep(w) ==
    \/ \E j \in Job : ClaimDue(w, j)
    \/ UnknownKind(w)
    \/ BeginTx(w)
    \/ BeginTxBusy(w)
    \/ \E j \in Job, d \in Delays : HandlerEnqueue(w, j, d)
    \/ HandlerSucceeds(w)
    \/ HandlerFails(w)
    \/ HandleFailure(w)
    \/ OutcomeLost(w)
    \/ SlotExits(w)

ProcessStep(p) == Shutdown(p) \/ ProcessExits(p) \/ Crash(p) \/ Restart(p)

Next ==
    \/ Produce
    \/ \E w \in Worker : SlotStep(w)
    \/ \E p \in Process : ProcessStep(p)
    \/ Tick

Spec == Init /\ [][Next]_vars

(***************************************************************************)
(* What the running program keeps doing.  A slot polls forever and its     *)
(* statements end (busy_timeout), a handler returns, a command ends its    *)
(* transaction, time passes, and an operator starts a stopped process      *)
(* again.  A statement that waits for the write lock inside busy_timeout   *)
(* gets it when the lock keeps coming free (strong fairness): commands     *)
(* hold it for milliseconds.  That a handler succeeds is not assumed, nor  *)
(* that a transaction begins in time, nor that anybody enqueues.           *)
(***************************************************************************)
FairSlot(w) ==
    /\ SF_vars(\E j \in Job : ClaimDue(w, j))
    /\ SF_vars(UnknownKind(w))
    /\ WF_vars(BeginTx(w) \/ BeginTxBusy(w))
    /\ WF_vars(HandlerSucceeds(w) \/ HandlerFails(w))
    /\ SF_vars(HandleFailure(w))
    /\ WF_vars(SlotExits(w))

Fairness ==
    /\ \A w \in Worker : FairSlot(w)
    /\ \A p \in Process : WF_vars(ProcessExits(p)) /\ WF_vars(Restart(p))
    /\ WF_vars(CommandCommits \/ CommandRollsBack)
    /\ WF_vars(Tick)

FairSpec == Spec /\ Fairness

-----------------------------------------------------------------------------

TypeOK ==
    /\ enqueued \in SUBSET Job
    /\ runAt \in [Job -> Int]
    /\ attempts \in [Job -> Nat]
    /\ lockedUntil \in [Job -> 0..LockFor]
    /\ completed \in SUBSET enqueued
    /\ failed \in SUBSET enqueued
    /\ writer \in Worker \cup {Nobody, Command}
    /\ buffer \in SUBSET (Job \ enqueued)
    /\ pc \in [Worker -> Phase]
    /\ held \in [Worker -> Job \cup {NoJob}]
    /\ heldAttempts \in [Worker -> Nat]
    /\ status \in [Process -> {"up", "cancelled", "down"}]
    /\ faults \in Nat
    /\ effects \in [Job -> Nat]

\* The repository's promise for ClaimDue ("each row goes to at most one
\* worker"), over the whole time a slot works with the row: no two slots hold
\* the same job, across claims, retries, lost outcomes and crashes.
SoleHolder ==
    \A v, w \in Worker : v # w /\ held[v] # NoJob => held[v] # held[w]

\* Mark-complete in the handler's transaction: the handler's writes are in the
\* database exactly once when the row says completed and not at all when it
\* does not, whatever was retried, lost or killed on the way.
EffectsMatchRow ==
    \A j \in Job : effects[j] = IF j \in completed THEN 1 ELSE 0

\* The state derived from the columns is one state: no row carries both
\* completed_at and failed_at.
OneOutcome == completed \cap failed = {}

\* "N = up to N retries": beyond the first attempt and the retries, an attempt
\* is spent only on a fault that kept the previous outcome from the table.
RetryBudget == \A j \in Job : attempts[j] <= MaxRetries[j] + 1 + faults

\* failed_at means that the retries are exhausted, unless a binary without
\* the handler got hold of the row.
FailedMeansExhausted ==
    \A j \in failed : \/ attempts[j] > MaxRetries[j]
                      \/ \E p \in Process : j \notin Handles[p]

\* The two sides of one account: a row is given up neither late nor early.
Budgeted == RetryBudget /\ FailedMeansExhausted

\* A handler that was rolled back leaves no follow-up job behind: a cascaded
\* row is in the table only when its parent's transaction committed.
FollowUpsOfCommitted ==
    \A j \in enqueued : j \in Root \/ \E k \in completed : j \in FollowUps[k]

\* A finished row stays as it finished: nobody claims it again, gives it back
\* a lease, or moves it to the other outcome.
FinishedIsFinal ==
    [][\A j \in completed \cup failed :
          /\ attempts'[j] = attempts[j]
          /\ lockedUntil'[j] = 0
          /\ j \in completed' <=> j \in completed
          /\ j \in failed' <=> j \in failed]_vars

\* The life of a row as a reader of the columns sees it; one with both
\* outcomes is in no state that a job may be in.
RowState ==
    [j \in Job |-> CASE j \in completed \ failed -> "done"
                     [] j \in failed \ completed -> "dead"
                     [] j \in completed \cap failed -> "both"
                     [] j \in Pending -> "pending"
                     [] j \notin enqueued -> "absent"]

Durable == INSTANCE DurableQueue WITH state <- RowState

\* The queue implements its promise: whatever slots, leases, retries, faults
\* and crashes do, the table goes through submissions, atomic completions and
\* final failures only.
KeepsPromise == Durable!Spec

\* "A crash of the whole process: the restart goes on where it stopped": every
\* row of the table is completed or failed in the end.
EveryJobFinishes ==
    \A j \in Job : j \in enqueued ~> j \in completed \cup failed

=============================================================================
