-------------------------- MODULE CommandBusProofs --------------------------
(***************************************************************************)
(* Theorems about CommandBus for any number of commands and faults.        *)
(***************************************************************************)
EXTENDS CommandBus, TLAPS

\* What is inside a transaction runs under the lock or has lost it for good.
Early == Inside \cup {"new", "begin", "record"}

\* The lock is a command's between BEGIN and the end of its transaction; after
\* a panic it stays until the context of the request is done.
LockInv ==
    \A c \in Commands :
        /\ lock = c => pc[c] \in Inside \cup {"panicked"} /\ c \notin ended
        /\ pc[c] \in {"new", "begin"} => c \notin ended

\* Nobody else writes while the transaction is open: what the command has read
\* is what the tables hold, and what it will commit is what it would leave if it
\* ran alone.
TxInv ==
    \A c \in Commands :
        /\ pc[c] \in Inside => kind[c] # "login"
        /\ lock = c =>
            /\ pc[c] \in {"read", "write"} => tx = tables
            /\ pc[c] = "write" => copy[c] = tables.row
            /\ pc[c] \in {"collect", "commit"} => Serial!Accepts(c) /\ tx \in Serial!Results(c)

ResultInv ==
    \A c \in Commands :
        /\ pc[c] \in Early => result[c] = "none"
        /\ pc[c] \in {"drain", "answered"} => result[c] # "none"
        /\ pc[c] = "dispatch" => result[c] = "ok"

\* Only the creation of a user has an event, and success means that it is there.
EventInv ==
    /\ EffectsFollowCommit
    /\ \A c \in events : kind[c] = "create"
    /\ \A c \in Acknowledged : kind[c] = "create" => c \in tables.users

TrailInv == TrailSurvives /\ \A c \in Commands : pc[c] = "new" => c \notin records

\* The inductive invariant.
BusInv == TypeOK /\ LockInv /\ TxInv /\ ResultInv /\ EventInv /\ TrailInv

---------------------------------------------------------------------------
LEMMA BusStart == Init => BusInv
  BY BusAssumption
     DEF Init, BusInv, TypeOK, LockInv, TxInv, ResultInv, EventInv, EffectsFollowCommit,
         Acknowledged, TrailInv, TrailSurvives, Kinds, Steps, Inside, Early, FirstRow, NoChange,
         Rows, Tables

\* What WriteRow does to the transaction's view.
Wrote(c) ==
    \E job \in {{}, {c}} :
        \/ /\ kind[c] = "create"
           /\ tx' = [tx EXCEPT !.users = @ \cup {c}, !.jobs = @ \cup job]
        \/ /\ kind[c] # "create"
           /\ tx' = [tx EXCEPT !.row = Changed(c), !.jobs = @ \cup job]

LEMMA ChangedRow ==
  ASSUME TypeOK, NEW c \in Commands, kind[c] \notin {"login", "create"}
  PROVE  Changed(c) = [profile  |-> IF kind[c] \in {"edit", "reset"} THEN c ELSE copy[c].profile,
                       password |-> IF kind[c] \in {"reset", "password"} THEN c
                                    ELSE copy[c].password]
  <1>1. copy[c] \in Rows /\ kind[c] \in Kinds
    BY DEF TypeOK
  <1> USE <1>1 DEF Rows, Kinds, Changed
  <1>2. CASE kind[c] = "edit"
    BY <1>2
  <1>3. CASE kind[c] = "reset"
    BY <1>3
  <1>4. CASE kind[c] = "password"
    BY <1>4
  <1> QED
    BY <1>2, <1>3, <1>4

LEMMA WrittenTables ==
  ASSUME TypeOK, NEW c \in Commands, kind[c] # "login", Wrote(c)
  PROVE  tx' \in Tables
  <1>1. PICK job \in {{}, {c}} :
          \/ kind[c] = "create" /\ tx' = [tx EXCEPT !.users = @ \cup {c}, !.jobs = @ \cup job]
          \/ kind[c] # "create" /\ tx' = [tx EXCEPT !.row = Changed(c), !.jobs = @ \cup job]
    BY DEF Wrote
  <1>2. tx \in Tables /\ copy[c] \in Rows /\ job \subseteq Commands
    BY <1>1 DEF TypeOK
  <1>3. CASE kind[c] = "create"
    <2>1. tx' = [tx EXCEPT !.users = @ \cup {c}, !.jobs = @ \cup job]
      BY <1>1, <1>3
    <2> QED
      BY <1>2, <2>1 DEF Tables
  <1>4. CASE kind[c] # "create"
    <2>1. Changed(c) \in Rows
      BY <1>2, <1>4, ChangedRow DEF Rows
    <2>2. tx' = [tx EXCEPT !.row = Changed(c), !.jobs = @ \cup job]
      BY <1>1, <1>4
    <2> QED
      BY <1>2, <2>1, <2>2 DEF Tables
  <1> QED
    BY <1>3, <1>4

\* What WriteRow leaves is what the command would leave if it ran alone.
LEMMA ResultOfWrite ==
  ASSUME TypeOK, NEW c \in Commands, kind[c] # "login", Wrote(c),
         tx = tables, copy[c] = tables.row
  PROVE  tx' \in Serial!Results(c)
  <1>1. PICK job \in {{}, {c}} :
          \/ kind[c] = "create" /\ tx' = [tx EXCEPT !.users = @ \cup {c}, !.jobs = @ \cup job]
          \/ kind[c] # "create" /\ tx' = [tx EXCEPT !.row = Changed(c), !.jobs = @ \cup job]
    BY DEF Wrote
  <1>2. tx \in Tables /\ kind[c] \in Kinds
    BY DEF TypeOK
  <1>3. CASE kind[c] = "create"
    <2>1. tx' = [tx EXCEPT !.users = @ \cup {c}, !.jobs = @ \cup job]
      BY <1>1, <1>3
    <2>2. tables.row = [profile |-> tables.row.profile, password |-> tables.row.password]
      BY <1>2 DEF Tables, Rows
    <2> QED
      BY <1>2, <1>3, <2>1, <2>2
         DEF Tables, Serial!Results, Serial!ReplacesProfile, Serial!ReplacesPassword
  <1>4. CASE kind[c] # "create"
    <2>1. tx' = [tx EXCEPT !.row = Changed(c), !.jobs = @ \cup job]
      BY <1>1, <1>4
    <2> QED
      BY <1>2, <1>4, <2>1, ChangedRow
         DEF Tables, Serial!Results, Serial!ReplacesProfile, Serial!ReplacesPassword
  <1> QED
    BY <1>3, <1>4

\* Every step keeps the state well formed.
LEMMA TypeKept == TypeOK /\ TxInv /\ ResultInv /\ [Next]_vars => TypeOK'
  <1> SUFFICES ASSUME TypeOK, TxInv, ResultInv, [Next]_vars PROVE TypeOK'
    OBVIOUS
  <1> USE BusAssumption DEF TypeOK, Tables, Rows, Steps, Inside, Goto, Return, Fault
  <1>1. ASSUME NEW c \in Commands, Step(c) PROVE TypeOK'
    <2>1. CASE Authorize(c)
      BY <2>1 DEF Authorize, db
    <2>2. CASE BeginTx(c)
      BY <2>2 DEF BeginTx, Begin, First
    <2>3. CASE BeginBusy(c)
      BY <2>3 DEF BeginBusy, db
    <2>4. CASE ReadRow(c)
      BY <2>4 DEF ReadRow, db
    <2>5. CASE WrongPassword(c)
      BY <2>5 DEF WrongPassword, RollbackTx
    <2>6. CASE WriteRow(c)
      <3>1. Wrote(c)
        BY <2>6 DEF WriteRow, Wrote
      <3>2. kind[c] # "login"
        BY <2>6 DEF WriteRow, TxInv
      <3>3. tx' \in Tables
        BY <3>1, <3>2, WrittenTables
      <3> QED
        BY <2>6, <3>3 DEF WriteRow
    <2>7. CASE Collect(c)
      BY <2>7 DEF Collect, Record, CollectEvent, Following, db
    <2>8. CASE HandlerFails(c)
      BY <2>8 DEF HandlerFails, RollbackTx
    <2>9. CASE RecordFailedLogin(c)
      BY <2>9 DEF RecordFailedLogin, Record
    <2>10. CASE Commit(c)
      BY <2>10 DEF Commit, CommitTx, RollbackTx, Following, OnCommitError
    <2>11. CASE Dispatch(c)
      BY <2>11 DEF Dispatch, Flush, Following, db
    <2>12. CASE Drain(c)
      BY <2>12 DEF Drain, SaveRecord, LoseRecord, ResultInv
    <2>13. CASE ContextDone(c)
      BY <2>13 DEF ContextDone, RollbackTx
    <2> QED
      BY <1>1, <2>1, <2>2, <2>3, <2>4, <2>5, <2>6, <2>7, <2>8, <2>9, <2>10, <2>11, <2>12,
         <2>13 DEF Step
  <1>2. ASSUME NEW c \in Commands, Cancel(c) PROVE TypeOK'
    BY <1>2 DEF Cancel
  <1>3. ASSUME NEW c \in Commands, Panic(c) PROVE TypeOK'
    BY <1>3 DEF Panic, db
  <1>4. CASE Crash
    BY <1>4 DEF Crash
  <1>5. CASE UNCHANGED vars
    BY <1>5 DEF vars, db, mem
  <1> QED
    BY <1>1, <1>2, <1>3, <1>4, <1>5 DEF Next

\* The lock is handed over only by BEGIN and by the end of a transaction.
LEMMA LockKept == TypeOK /\ LockInv /\ [Next]_vars => LockInv'
  <1> SUFFICES ASSUME TypeOK, LockInv, [Next]_vars PROVE LockInv'
    OBVIOUS
  <1> USE BusAssumption DEF TypeOK, LockInv, Inside, Goto, Return, Fault
  <1>1. ASSUME NEW c \in Commands, Step(c) PROVE LockInv'
    <2>1. CASE Authorize(c)
      BY <2>1 DEF Authorize, db
    <2>2. CASE BeginTx(c)
      BY <2>2 DEF BeginTx, Begin, First, Skips, LockFree
    <2>3. CASE BeginBusy(c)
      BY <2>3 DEF BeginBusy, db
    <2>4. CASE ReadRow(c)
      BY <2>4 DEF ReadRow, Open, db
    <2>5. CASE WrongPassword(c)
      BY <2>5 DEF WrongPassword, RollbackTx
    <2>6. CASE WriteRow(c)
      BY <2>6 DEF WriteRow
    <2>7. CASE Collect(c)
      BY <2>7 DEF Collect, Following, db
    <2>8. CASE HandlerFails(c)
      BY <2>8 DEF HandlerFails, RollbackTx
    <2>9. CASE RecordFailedLogin(c)
      BY <2>9 DEF RecordFailedLogin
    <2>10. CASE Commit(c)
      BY <2>10 DEF Commit, CommitTx, RollbackTx, Following
    <2>11. CASE Dispatch(c)
      BY <2>11 DEF Dispatch, Following, db
    <2>12. CASE Drain(c)
      BY <2>12 DEF Drain
    <2>13. CASE ContextDone(c)
      BY <2>13 DEF ContextDone, RollbackTx
    <2> QED
      BY <1>1, <2>1, <2>2, <2>3, <2>4, <2>5, <2>6, <2>7, <2>8, <2>9, <2>10, <2>11, <2>12,
         <2>13 DEF Step
  <1>2. ASSUME NEW c \in Commands, Cancel(c) PROVE LockInv'
    BY <1>2 DEF Cancel, Open
  <1>3. ASSUME NEW c \in Commands, Panic(c) PROVE LockInv'
    BY <1>3 DEF Panic, db
  <1>4. CASE Crash
    BY <1>4 DEF Crash
  <1>5. CASE UNCHANGED vars
    BY <1>5 DEF vars, db, mem
  <1> QED
    BY <1>1, <1>2, <1>3, <1>4, <1>5 DEF Next

\* While a transaction is open, its owner alone changes what it sees, and nobody
\* changes the tables under it.
LEMMA TxKept == TypeOK /\ LockInv /\ TxInv /\ [Next]_vars => TxInv'
  <1> SUFFICES ASSUME TypeOK, LockInv, TxInv, [Next]_vars PROVE TxInv'
    OBVIOUS
  <1> USE BusAssumption DEF TypeOK, LockInv, TxInv, Serial!Accepts, Serial!Results, Inside,
      Goto, Return, Fault
  <1>1. ASSUME NEW c \in Commands, Step(c) PROVE TxInv'
    <2>1. CASE Authorize(c)
      BY <2>1 DEF Authorize, db
    <2>2. CASE BeginTx(c)
      BY <2>2 DEF BeginTx, Begin, First, LockFree, Skips
    <2>3. CASE BeginBusy(c)
      BY <2>3 DEF BeginBusy, db
    <2>4. CASE ReadRow(c)
      BY <2>4 DEF ReadRow, Open, db
    <2>5. CASE WrongPassword(c)
      BY <2>5 DEF WrongPassword, RollbackTx
    <2>6. CASE WriteRow(c)
      <3>1. Wrote(c)
        BY <2>6 DEF WriteRow, Wrote
      <3>2. /\ lock = c /\ tx = tables /\ copy[c] = tables.row /\ kind[c] # "login"
            /\ pc' = [pc EXCEPT ![c] = "collect"]
            /\ UNCHANGED <<lock, tables, kind, copy, ended>>
            /\ kind[c] = "password" => tables.row.password = Nobody
        BY <2>6 DEF WriteRow, Open, Verified
      <3>3. tx' \in Serial!Results(c)
        BY <3>1, <3>2, ResultOfWrite
      <3> QED
        BY <3>2, <3>3
    <2>7. CASE Collect(c)
      BY <2>7 DEF Collect, Following, db
    <2>8. CASE HandlerFails(c)
      BY <2>8 DEF HandlerFails, RollbackTx
    <2>9. CASE RecordFailedLogin(c)
      BY <2>9 DEF RecordFailedLogin
    <2>10. CASE Commit(c)
      BY <2>10 DEF Commit, CommitTx, RollbackTx
    <2>11. CASE Dispatch(c)
      BY <2>11 DEF Dispatch, Following, db
    <2>12. CASE Drain(c)
      BY <2>12 DEF Drain, SaveRecord, LoseRecord
    <2>13. CASE ContextDone(c)
      BY <2>13 DEF ContextDone, RollbackTx
    <2> QED
      BY <1>1, <2>1, <2>2, <2>3, <2>4, <2>5, <2>6, <2>7, <2>8, <2>9, <2>10, <2>11, <2>12,
         <2>13 DEF Step
  <1>2. ASSUME NEW c \in Commands, Cancel(c) PROVE TxInv'
    BY <1>2 DEF Cancel, Open
  <1>3. ASSUME NEW c \in Commands, Panic(c) PROVE TxInv'
    BY <1>3 DEF Panic, db
  <1>4. CASE Crash
    BY <1>4 DEF Crash
  <1>5. CASE UNCHANGED vars
    BY <1>5 DEF vars, db, mem
  <1> QED
    BY <1>1, <1>2, <1>3, <1>4, <1>5 DEF Next

\* A commit is what makes an event or a job true.
LEMMA EventKept ==
  TypeOK /\ TxInv /\ ResultInv /\ EventInv /\ [Next]_vars => ResultInv' /\ EventInv'
  <1> SUFFICES ASSUME TypeOK, TxInv, ResultInv, EventInv, [Next]_vars
               PROVE  ResultInv' /\ EventInv'
    OBVIOUS
  <1> USE BusAssumption DEF TypeOK, ResultInv, EventInv, EffectsFollowCommit, Acknowledged,
      Early, Inside, Goto, Return, Fault
  <1>1. ASSUME NEW c \in Commands, Step(c) PROVE ResultInv' /\ EventInv'
    <2>1. CASE Authorize(c)
      BY <2>1 DEF Authorize, db
    <2>2. CASE BeginTx(c)
      BY <2>2 DEF BeginTx, Begin, First
    <2>3. CASE BeginBusy(c)
      BY <2>3 DEF BeginBusy, db
    <2>4. CASE ReadRow(c)
      BY <2>4 DEF ReadRow, db
    <2>5. CASE WrongPassword(c)
      BY <2>5 DEF WrongPassword, RollbackTx
    <2>6. CASE WriteRow(c)
      BY <2>6 DEF WriteRow
    <2>7. CASE Collect(c)
      BY <2>7 DEF Collect, CollectEvent, Following, db
    <2>8. CASE HandlerFails(c)
      BY <2>8 DEF HandlerFails, RollbackTx
    <2>9. CASE RecordFailedLogin(c)
      BY <2>9 DEF RecordFailedLogin
    <2>10. CASE Commit(c)
      <3>1. CASE Open(c) /\ CommitTx(c) /\ Return(c, "ok", Following.commit)
        <4>1. tables' \in Serial!Results(c)
          BY <2>10, <3>1 DEF Open, CommitTx, TxInv, Commit
        <4>2. /\ tables.users \subseteq tables'.users
              /\ kind[c] = "create" => c \in tables'.users
              /\ tables'.jobs \subseteq tables.jobs \cup {c}
          BY <4>1 DEF Serial!Results
        <4> QED
          BY <2>10, <3>1, <4>2 DEF Commit, Following
      <3>2. CASE RollbackTx(c) /\ Return(c, OnCommitError, "drain")
        BY <2>10, <3>2 DEF Commit, RollbackTx, OnCommitError
      <3> QED
        BY <2>10, <3>1, <3>2 DEF Commit
    <2>11. CASE Dispatch(c)
      BY <2>11 DEF Dispatch, Flush, Following, db
    <2>12. CASE Drain(c)
      BY <2>12 DEF Drain, SaveRecord, LoseRecord
    <2>13. CASE ContextDone(c)
      BY <2>13 DEF ContextDone, RollbackTx
    <2> QED
      BY <1>1, <2>1, <2>2, <2>3, <2>4, <2>5, <2>6, <2>7, <2>8, <2>9, <2>10, <2>11, <2>12,
         <2>13 DEF Step
  <1>2. ASSUME NEW c \in Commands, Cancel(c) PROVE ResultInv' /\ EventInv'
    BY <1>2 DEF Cancel, Open
  <1>3. ASSUME NEW c \in Commands, Panic(c) PROVE ResultInv' /\ EventInv'
    BY <1>3 DEF Panic, db
  <1>4. CASE Crash
    BY <1>4 DEF Crash
  <1>5. CASE UNCHANGED vars
    BY <1>5 DEF vars, db, mem
  <1> QED
    BY <1>1, <1>2, <1>3, <1>4, <1>5 DEF Next

\* A record is drained before its command is answered.
LEMMA TrailKept == TypeOK /\ TrailInv /\ [Next]_vars => TrailInv'
  <1> SUFFICES ASSUME TypeOK, TrailInv, [Next]_vars PROVE TrailInv'
    OBVIOUS
  <1> USE BusAssumption DEF TypeOK, TrailInv, TrailSurvives, Inside, Goto, Return, Fault
  <1>1. ASSUME NEW c \in Commands, Step(c) PROVE TrailInv'
    <2>1. CASE Authorize(c)
      BY <2>1 DEF Authorize, db
    <2>2. CASE BeginTx(c)
      BY <2>2 DEF BeginTx, Begin, First
    <2>3. CASE BeginBusy(c)
      BY <2>3 DEF BeginBusy, db
    <2>4. CASE ReadRow(c)
      BY <2>4 DEF ReadRow, db
    <2>5. CASE WrongPassword(c)
      BY <2>5 DEF WrongPassword, RollbackTx
    <2>6. CASE WriteRow(c)
      BY <2>6 DEF WriteRow
    <2>7. CASE Collect(c)
      BY <2>7 DEF Collect, Record, Following, db
    <2>8. CASE HandlerFails(c)
      BY <2>8 DEF HandlerFails, RollbackTx
    <2>9. CASE RecordFailedLogin(c)
      BY <2>9 DEF RecordFailedLogin, Record
    <2>10. CASE Commit(c)
      BY <2>10 DEF Commit, CommitTx, RollbackTx, Following
    <2>11. CASE Dispatch(c)
      BY <2>11 DEF Dispatch, Following, db
    <2>12. CASE Drain(c)
      BY <2>12 DEF Drain, SaveRecord, LoseRecord, Drains
    <2>13. CASE ContextDone(c)
      BY <2>13 DEF ContextDone, RollbackTx
    <2> QED
      BY <1>1, <2>1, <2>2, <2>3, <2>4, <2>5, <2>6, <2>7, <2>8, <2>9, <2>10, <2>11, <2>12,
         <2>13 DEF Step
  <1>2. ASSUME NEW c \in Commands, Cancel(c) PROVE TrailInv'
    BY <1>2 DEF Cancel, Open
  <1>3. ASSUME NEW c \in Commands, Panic(c) PROVE TrailInv'
    BY <1>3 DEF Panic, db
  <1>4. CASE Crash
    BY <1>4 DEF Crash
  <1>5. CASE UNCHANGED vars
    BY <1>5 DEF vars, db, mem
  <1> QED
    BY <1>1, <1>2, <1>3, <1>4, <1>5 DEF Next

LEMMA InvariantHolds == Spec => []BusInv
  <1>1. BusInv /\ [Next]_vars => BusInv'
    BY TypeKept, LockKept, TxKept, EventKept, TrailKept DEF BusInv
  <1> QED
    BY BusStart, <1>1, PTL DEF Spec

---------------------------------------------------------------------------
\* Every reachable state is well formed, and whoever is answered has a result,
\* whatever fails on the way (Bus.execute).
THEOREM TypeCorrect == Spec => []TypeOK
  <1>1. BusInv => TypeOK
    BY DEF BusInv
  <1> QED
    BY InvariantHolds, <1>1, PTL

\* What a step that is not to be seen from outside leaves alone.
Hidden == UNCHANGED <<tables, kind, Acknowledged>>

\* A refusal is told to those only who have not been told of a success.
LEMMA RefusalIsHidden ==
  ASSUME BusInv, NEW c \in Commands, pc[c] \in Early, UNCHANGED <<tables, kind>>,
         result' = result \/ result' = [result EXCEPT ![c] = "error"]
  PROVE  Hidden
  <1>1. result \in [Commands -> {"none", "ok", "error"}] /\ result[c] = "none"
    BY DEF BusInv, TypeOK, ResultInv
  <1> QED
    BY <1>1 DEF Acknowledged, Hidden

\* Of all steps of a command only a successful commit is to be seen.
LEMMA OthersAreHidden ==
  ASSUME BusInv, NEW c \in Commands, Step(c) \/ Cancel(c) \/ Panic(c), ~Commit(c)
  PROVE  Hidden
  <1> USE RefusalIsHidden DEF Early, Inside, Goto, Return
  <1>1. CASE Authorize(c)
    BY <1>1 DEF Authorize, db
  <1>2. CASE BeginTx(c)
    BY <1>2 DEF BeginTx, Begin
  <1>3. CASE BeginBusy(c)
    BY <1>3 DEF BeginBusy, db
  <1>4. CASE ReadRow(c)
    BY <1>4 DEF ReadRow, db
  <1>5. CASE WrongPassword(c)
    BY <1>5 DEF WrongPassword, RollbackTx
  <1>6. CASE WriteRow(c)
    BY <1>6 DEF WriteRow
  <1>7. CASE Collect(c)
    BY <1>7 DEF Collect, db
  <1>8. CASE HandlerFails(c)
    BY <1>8 DEF HandlerFails, RollbackTx
  <1>9. CASE RecordFailedLogin(c)
    BY <1>9 DEF RecordFailedLogin
  <1>10. CASE Dispatch(c)
    BY <1>10 DEF Dispatch, db, Hidden, Acknowledged
  <1>11. CASE Drain(c)
    BY <1>11 DEF Drain, Hidden, Acknowledged
  <1>12. CASE ContextDone(c)
    BY <1>12 DEF ContextDone, RollbackTx, Hidden, Acknowledged
  <1>13. CASE Cancel(c)
    BY <1>13 DEF Cancel
  <1>14. CASE Panic(c)
    BY <1>14 DEF Panic, db
  <1> QED
    BY <1>1, <1>2, <1>3, <1>4, <1>5, <1>6, <1>7,
       <1>8, <1>9, <1>10, <1>11, <1>12, <1>13, <1>14 DEF Step

\* The commit of a command is the moment at which it happens.
LEMMA CommitHappens ==
  ASSUME BusInv, NEW c \in Commands, Commit(c)
  PROVE  Serial!Happens(c) \/ Hidden
  <1>1. pc[c] = "commit" /\ result \in [Commands -> {"none", "ok", "error"}] /\ result[c] = "none"
    BY DEF Commit, BusInv, TypeOK, ResultInv, Early, Inside
  <1>2. CASE Open(c) /\ CommitTx(c) /\ Return(c, "ok", Following.commit)
    <2>1. result' = [result EXCEPT ![c] = "ok"]
      BY <1>2 DEF Return
    <2>2. c \notin Acknowledged /\ Acknowledged' = Acknowledged \cup {c}
      BY <1>1, <2>1 DEF Acknowledged
    <2>3. Serial!Accepts(c) /\ tables' \in Serial!Results(c)
      BY <1>1, <1>2 DEF Open, CommitTx, BusInv, TxInv
    <2> QED
      BY <2>2, <2>3 DEF Serial!Happens, Commit
  <1>3. CASE RollbackTx(c) /\ Return(c, OnCommitError, "drain")
    BY <1>1, <1>3, RefusalIsHidden DEF Commit, RollbackTx, Return, OnCommitError, Early, Inside
  <1> QED
    BY <1>2, <1>3 DEF Commit

LEMMA SerialStep == BusInv /\ [Next]_vars => [Serial!Next]_(Serial!vars)
  <1> SUFFICES ASSUME BusInv, [Next]_vars PROVE Serial!Next \/ UNCHANGED Serial!vars
    OBVIOUS
  <1>1. Hidden => UNCHANGED Serial!vars
    BY DEF Hidden, Serial!vars
  <1>2. ASSUME NEW c \in Commands, Step(c) \/ Cancel(c) \/ Panic(c)
        PROVE  Serial!Next \/ UNCHANGED Serial!vars
    <2>1. CASE Commit(c)
      BY <1>1, <2>1, CommitHappens DEF Serial!Next
    <2>2. CASE ~Commit(c)
      BY <1>1, <1>2, <2>2, OthersAreHidden
    <2> QED
      BY <2>1, <2>2
  <1>3. CASE Crash
    BY <1>1, <1>3 DEF Crash, Hidden, Acknowledged
  <1>4. CASE UNCHANGED vars
    BY <1>1, <1>4 DEF vars, db, mem, Hidden, Acknowledged
  <1> QED
    BY <1>2, <1>3, <1>4 DEF Next

\* Commands happen as a whole and one after another, those that report success,
\* and the others not at all: TransactionMiddleware around the handlers, on
\* BEGIN IMMEDIATE (SqliteManager), implements commands that run alone.
THEOREM CommandsAreSerial == Spec => CommandsAreAtomic
  <1>1. Init => Serial!Init
    BY DEF Init, Serial!Init, Serial!FirstRow, FirstRow, NoChange, Kinds, Serial!Kinds,
           Acknowledged
  <1> QED
    BY <1>1, SerialStep, InvariantHolds, PTL DEF Spec, Serial!Spec, CommandsAreAtomic

\* Subscribers and workers hear of committed changes only
\* (DispatchEventsMiddleware outside TransactionMiddleware).
THEOREM EffectsFollow == Spec => []EffectsFollowCommit
  <1>1. BusInv => EffectsFollowCommit
    BY DEF BusInv, EventInv
  <1> QED
    BY InvariantHolds, <1>1, PTL

\* The audit trail survives rollbacks (AuditMiddleware outside them both).
THEOREM TrailHolds == Spec => []TrailSurvives
  <1>1. BusInv => TrailSurvives
    BY DEF BusInv, TrailInv
  <1> QED
    BY InvariantHolds, <1>1, PTL

\* No command waits for its own write lock (SkipsTransaction for logins, and
\* the audit log after the transaction).
THEOREM NoSelfDeadlock == Spec => []NeverWaitsForItself
  <1>1. BusInv => NeverWaitsForItself
    BY DEF BusInv, LockInv, NeverWaitsForItself, Inside
  <1> QED
    BY InvariantHolds, <1>1, PTL
=============================================================================
