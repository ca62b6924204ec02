----------------------------- MODULE CommandBus -----------------------------
(***************************************************************************)
(* The command bus: Recovery, Logging, Authorize, Audit, JobDispatcher,    *)
(* DispatchEvents and Transaction around the handlers of the commands      *)
(* (provideCommandBus, app/application/bus, app/application/user/command,  *)
(* app/application/profile/command), on SQLite's single write lock         *)
(* (app/infrastructure/database/sqlite_manager.go).                        *)
(*                                                                         *)
(* The handlers read a user's row, change columns of it and write all of   *)
(* it back; a column here is the name of the command that wrote it last.   *)
(***************************************************************************)
EXTENDS Naturals, FiniteSets

CONSTANTS
    Commands,       \* commands that arrive, each of them once
    Nobody,         \* nobody's lock; a column as it was at first
    MaxFaults       \* bound on failed statements, panics and cancellations

ASSUME BusAssumption == Nobody \notin Commands /\ MaxFaults \in Nat

VARIABLES
    lock,       \* the command whose transaction holds the write lock
    tables,     \* committed: a user's row, the users created besides, job rows
    tx,         \* the same as the open transaction sees them
    trail, counter,    \* audit_log and failed logins, written through the pool
    kind,       \* what each command does, see Kinds
    pc, copy,   \* where each command is, and the row it read
    events, records,   \* what its EventCollector and AuditCollector hold
    ended,      \* transactions that were rolled back under their handler
    result,     \* what the chain returns to the caller
    seen,       \* commands whose event reached the event bus
    unsaved,    \* audit records that could not be saved
    faults

db == <<lock, tables, tx, trail, counter>>
mem == <<kind, pc, copy, events, records, ended, result>>
vars == <<db, mem, seen, unsaved, faults>>

Goto(c, step) == pc' = [pc EXCEPT ![c] = step]
Return(c, r, step) == result' = [result EXCEPT ![c] = r] /\ Goto(c, step)
Fault == faults < MaxFaults /\ faults' = faults + 1

\* A transaction that is still open: database/sql ends it on its own when the
\* context of the request is cancelled.
Open(c) == lock = c /\ c \notin ended

Inside == {"read", "write", "collect", "commit"}

---------------------------------------------------------------------------
(* Transactions of the SQLite manager. *)

\* BEGIN IMMEDIATE: reads of the transaction happen under the write lock.
LockFree == lock = Nobody

Begin(c) == lock' = c /\ tx' = tables

CommitTx(c) ==
    /\ tables' = tx /\ lock' = Nobody
    /\ UNCHANGED <<tx, trail, counter>>

RollbackTx(c) ==
    /\ lock' = (IF lock = c THEN Nobody ELSE lock)
    /\ UNCHANGED <<tables, tx, trail, counter>>

---------------------------------------------------------------------------
(* The chain, from the outside in. *)

\* What comes after the handler: DispatchEvents wraps Transaction, Audit both.
BadFollowing == [handler |-> "dispatch", dispatch |-> "commit", commit |-> "drain"]
Following == [handler |-> "commit", commit |-> "dispatch", dispatch |-> "drain"]

\* AuthorizeMiddleware sits outside Audit: a refusal leaves no record.
Authorize(c) ==
    /\ pc[c] = "new"
    /\ \/ Goto(c, "begin") /\ UNCHANGED result
       \/ Return(c, "error", "answered")
    /\ UNCHANGED <<db, kind, copy, events, records, ended, seen, unsaved, faults>>

\* TransactionMiddleware: SkipTransaction leaves the handler outside.
BadSkips(c) == FALSE
Skips(c) == kind[c] = "login"

\* The first step of the handler.
First(c) == IF kind[c] = "login" THEN "record" ELSE "read"

BeginTx(c) ==
    /\ pc[c] = "begin"
    /\ \/ Skips(c) /\ Goto(c, First(c)) /\ UNCHANGED <<lock, tx>>
       \/ ~Skips(c) /\ LockFree /\ Begin(c) /\ Goto(c, First(c))
    /\ UNCHANGED <<tables, trail, counter, kind, copy, events, records, ended, result, seen,
                   unsaved, faults>>

\* busy_timeout runs out while another transaction holds the lock.
BeginBusy(c) ==
    /\ pc[c] = "begin" /\ ~Skips(c) /\ ~LockFree
    /\ Return(c, "error", "drain")
    /\ UNCHANGED <<db, kind, copy, events, records, ended, seen, unsaved, faults>>

---------------------------------------------------------------------------
(* Handlers of the user commands: read, write back, collect and record. *)

ReadRow(c) ==
    /\ pc[c] = "read" /\ Open(c)
    /\ copy' = [copy EXCEPT ![c] = tx.row]
    /\ Goto(c, "write")
    /\ UNCHANGED <<db, kind, events, records, ended, result, seen, unsaved, faults>>

\* ChangePassword verifies the old password on the row it has read: the first
\* one, which all of these commands name.  UpdateUser verifies nothing.
Verified(c) == kind[c] = "password" => copy[c].password = Nobody

WrongPassword(c) ==
    /\ pc[c] = "write" /\ ~Verified(c)
    /\ RollbackTx(c)
    /\ Return(c, "error", "drain")
    /\ UNCHANGED <<kind, copy, events, records, ended, seen, unsaved, faults>>

\* Nickname, email and role are those of the form, whatever they were; the
\* other columns go back as they were read.
Changed(c) ==
    CASE kind[c] = "edit"     -> [copy[c] EXCEPT !.profile = c]
      [] kind[c] = "reset"    -> [copy[c] EXCEPT !.profile = c, !.password = c]
      [] kind[c] = "password" -> [copy[c] EXCEPT !.password = c]

\* Update or Save, and a job enqueued through the transaction of the context.
WriteRow(c) ==
    /\ pc[c] = "write" /\ Open(c) /\ Verified(c)
    /\ \E job \in {{}, {c}} :
           \/ /\ kind[c] = "create"
              /\ tx' = [tx EXCEPT !.users = @ \cup {c}, !.jobs = @ \cup job]
           \/ /\ kind[c] # "create"
              /\ tx' = [tx EXCEPT !.row = Changed(c), !.jobs = @ \cup job]
    /\ Goto(c, "collect")
    /\ UNCHANGED <<lock, tables, trail, counter, kind, copy, events, records, ended, result,
                   seen, unsaved, faults>>

\* AuditCollector.Record; EventCollector.Collect and Flush.
Record(c) == records' = records \cup {c}
CollectEvent(c) == events' = events \cup {c}
Flush(c) == events' = events \ {c} /\ seen' = seen \cup ({c} \cap events)

\* Only a new user is an event.  UpdateUser records a change of the role, and
\* nothing else.
Collect(c) ==
    /\ pc[c] = "collect"
    /\ IF kind[c] = "create" THEN CollectEvent(c) ELSE UNCHANGED events
    /\ \/ Record(c)
       \/ kind[c] \in {"edit", "reset"} /\ UNCHANGED records
    /\ Goto(c, Following.handler)
    /\ UNCHANGED <<db, kind, copy, ended, result, seen, unsaved, faults>>

\* The handler returns an error: a validation, a failed statement, or any
\* statement of a transaction that has ended.
HandlerFails(c) ==
    /\ pc[c] \in {"read", "write"}
    /\ IF Open(c) THEN Fault ELSE UNCHANGED faults
    /\ RollbackTx(c)
    /\ Return(c, "error", "drain")
    /\ UNCHANGED <<kind, copy, events, records, ended, seen, unsaved>>

\* A failed login: the counter is written through the pool, not through the
\* context, and the handler returns an AuthError.  The write's own error, after
\* waiting for busy_timeout, is dropped.
RecordFailedLogin(c) ==
    /\ pc[c] = "record"
    /\ \/ LockFree /\ counter' = counter \cup {c}
       \/ ~LockFree /\ UNCHANGED counter
    /\ Record(c)
    /\ lock' = (IF lock = c THEN Nobody ELSE lock)
    /\ Return(c, "error", "drain")
    /\ UNCHANGED <<tables, tx, trail, kind, copy, events, ended, seen, unsaved, faults>>

\* The context of the request is cancelled while the handler runs.
Cancel(c) ==
    /\ pc[c] \in Inside /\ Open(c) /\ Fault
    /\ lock' = Nobody /\ ended' = ended \cup {c}
    /\ UNCHANGED <<tables, tx, trail, counter, kind, pc, copy, events, records,
                   result, seen, unsaved>>

---------------------------------------------------------------------------
(* The way back out. *)

BadOnCommitErrorOk == "ok"
BadOnCommitErrorNil == "none"
OnCommitError == "error"

Commit(c) ==
    /\ pc[c] = "commit"
    /\ \/ Open(c) /\ CommitTx(c) /\ Return(c, "ok", Following.commit) /\ UNCHANGED faults
       \/ /\ IF Open(c) THEN Fault ELSE UNCHANGED faults
          /\ RollbackTx(c)
          /\ Return(c, OnCommitError, "drain")
    /\ UNCHANGED <<kind, copy, events, records, ended, seen, unsaved>>

\* DispatchEventsMiddleware flushes the collector once; what a subscriber does
\* with the event, its errors and its panics stay behind the event bus.
Dispatch(c) ==
    /\ pc[c] = "dispatch"
    /\ Flush(c)
    /\ Goto(c, Following.dispatch)
    /\ UNCHANGED <<db, kind, copy, records, ended, result, unsaved, faults>>

\* AuditMiddleware drains its collector whatever the result was; a record that
\* cannot be saved (the lock is taken, the disk is full) is only logged.
SaveRecord(c) == LockFree /\ trail' = trail \cup {c} /\ UNCHANGED unsaved
LoseRecord(c) == unsaved' = unsaved \cup {c} /\ UNCHANGED trail

BadDrains(c) == c \in records /\ result[c] = "ok"
Drains(c) == c \in records

Drain(c) ==
    /\ pc[c] = "drain"
    /\ \/ Drains(c) /\ SaveRecord(c) /\ UNCHANGED faults
       \/ Drains(c) /\ ~LockFree /\ LoseRecord(c) /\ UNCHANGED faults
       \/ Drains(c) /\ Fault /\ LoseRecord(c)
       \/ ~Drains(c) /\ UNCHANGED <<trail, unsaved, faults>>
    /\ Goto(c, "answered")
    /\ UNCHANGED <<lock, tables, tx, counter, kind, copy, events, records, ended,
                   result, seen>>

\* A panic unwinds to RecoveryMiddleware: no rollback, no flush, no drain.
Panic(c) ==
    /\ pc[c] \in Inside \cup {"record"} /\ Fault
    /\ Return(c, "error", "panicked")
    /\ UNCHANGED <<db, kind, copy, events, records, ended, seen, unsaved>>

\* The request is over and its context is cancelled: database/sql rolls back
\* the transaction the panic has left open.
ContextDone(c) ==
    /\ pc[c] = "panicked"
    /\ RollbackTx(c)
    /\ Goto(c, "gone")
    /\ UNCHANGED <<kind, copy, events, records, ended, result, seen, unsaved, faults>>

\* The process dies: its transaction and all it had in memory are lost.
Crash ==
    /\ Fault
    /\ lock' = Nobody
    /\ pc' = [c \in Commands |-> IF pc[c] \in {"new", "answered", "gone"} THEN pc[c] ELSE "gone"]
    /\ UNCHANGED <<tables, tx, trail, counter, kind, copy, events, records, ended,
                   result, seen, unsaved>>

---------------------------------------------------------------------------
\* UpdateUser without and with a new password, ChangePassword, CreateUser, and
\* a failing Login, the command with SkipTransaction.
Kinds == {"edit", "reset", "password", "create", "login"}

FirstRow == [profile |-> Nobody, password |-> Nobody]
NoChange == [row |-> FirstRow, users |-> {}, jobs |-> {}]

Init ==
    /\ lock = Nobody
    /\ tables = NoChange /\ tx = NoChange /\ trail = {} /\ counter = {}
    /\ kind \in [Commands -> Kinds]
    /\ pc = [c \in Commands |-> "new"]
    /\ copy = [c \in Commands |-> FirstRow]
    /\ events = {} /\ records = {} /\ ended = {}
    /\ result = [c \in Commands |-> "none"]
    /\ seen = {} /\ unsaved = {} /\ faults = 0

Step(c) ==
    \/ Authorize(c) \/ BeginTx(c) \/ BeginBusy(c)
    \/ ReadRow(c) \/ WrongPassword(c) \/ WriteRow(c) \/ Collect(c) \/ HandlerFails(c)
    \/ RecordFailedLogin(c)
    \/ Commit(c) \/ Dispatch(c) \/ Drain(c) \/ ContextDone(c)

Next == (\E c \in Commands : Step(c) \/ Cancel(c) \/ Panic(c)) \/ Crash

Spec == Init /\ [][Next]_vars

---------------------------------------------------------------------------
(* Properties. *)

Steps == Inside \cup {"new", "begin", "record", "dispatch", "drain", "answered", "panicked", "gone"}

Rows == [profile : Commands \cup {Nobody}, password : Commands \cup {Nobody}]
Tables == [row : Rows, users : SUBSET Commands, jobs : SUBSET Commands]

\* The state is well formed, and whoever is answered is given a result.
TypeOK ==
    /\ lock \in Commands \cup {Nobody}
    /\ tables \in Tables /\ tx \in Tables
    /\ \A s \in {trail, counter, events, records, ended, seen, unsaved} : s \subseteq Commands
    /\ kind \in [Commands -> Kinds]
    /\ pc \in [Commands -> Steps]
    /\ copy \in [Commands -> Rows]
    /\ result \in [Commands -> {"none", "ok", "error"}]
    /\ \A c \in Commands : pc[c] = "answered" => result[c] # "none"
    /\ faults \in 0 .. MaxFaults

\* Commands whose transaction was committed with success.
Acknowledged == {c \in Commands : result[c] = "ok"}

Serial == INSTANCE SerialCommands WITH done <- Acknowledged

\* Commands behave as if each of those that report success ran alone, at one
\* moment: it keeps every column that it does not itself replace, and of two
\* changes of one password the second is refused.  A command that was refused,
\* cancelled, killed or stopped by a panic leaves nothing, no job either.
CommandsAreAtomic == Serial!Spec

\* Event handlers hear of committed users only, and a job is to be seen only
\* when its command is reported as a success.
EffectsFollowCommit == seen \subseteq tables.users /\ tables.jobs \subseteq Acknowledged

\* Records of a command that was answered are in the audit log although its
\* transaction was rolled back, unless the log itself could not be written.
TrailSurvives ==
    \A c \in Commands : pc[c] = "answered" /\ c \in records => c \in trail \cup unsaved

\* No command writes through the pool (failed logins, the audit log) while its
\* own transaction holds the write lock: it would wait for itself.  And none
\* takes the lock along when its request is over, a panic notwithstanding.
NeverWaitsForItself ==
    \A c \in Commands :
        lock = c => pc[c] \notin {"record", "dispatch", "drain", "answered", "gone"}
=============================================================================
