--------------------------- MODULE JobQueueProofs ---------------------------
(***************************************************************************)
(* Theorems about JobQueue for any number of jobs, slots, processes,       *)
(* retries and faults.  TypeCorrect needs no assumption on the timing; the *)
(* others hold as long as a slot does not outlive the lease of the row it  *)
(* holds (the constants SlowHandlers and Stalls are FALSE).                *)
(***************************************************************************)
EXTENDS JobQueue, TLAPS

\* A slot holds a row exactly between ClaimDue and the end of processOne, and
\* that row is in the table.
HoldsARow ==
    \A w \in Worker :
        /\ pc[w] \in {"claimed", "running", "failing"} => held[w] \in enqueued
        /\ pc[w] \in {"poll", "stopped"} => held[w] = NoJob

\* The write lock is a slot's exactly while its handler's transaction is open.
WriterRuns == \A w \in Worker : pc[w] = "running" <=> writer = w

\* The slots of a process that is down have left their loops.
DownMeansStopped ==
    \A w \in Worker : status[ProcessOf[w]] = "down" => pc[w] = "stopped"

\* The part of the invariant that no timing can break.
BaseInv == TypeOK /\ HoldsARow /\ WriterRuns /\ DownMeansStopped

\* A row that a slot holds is unfinished and under its lease.
HeldUnderLease ==
    \A w \in Worker : held[w] # NoJob =>
        held[w] \in Pending /\ lockedUntil[held[w]] > 0

\* Finishing a row ended its lease.
FinishedUnleased == \A j \in completed \cup failed : lockedUntil[j] = 0

\* The part that rests on slots being done before their leases end.
LeaseInv == /\ HeldUnderLease
            /\ SoleHolder
            /\ OneOutcome
            /\ EffectsMatchRow
            /\ FinishedUnleased

\* The copy handleFailure decides on is as good as the row.
CopyIsFresh ==
    \A w \in Worker : held[w] # NoJob => heldAttempts[w] = attempts[held[w]]

\* An unfinished row no running slot works with has an attempt in reserve:
\* its last one was recorded as a retry or lost to a fault.
AttemptInReserve ==
    \A j \in Job \ (completed \cup failed) :
        (\A w \in Worker : held[w] = j => ~Up(w))
            => attempts[j] <= MaxRetries[j] + faults

\* The account of attempts, retries and faults.
BudgetInv == /\ CopyIsFresh
             /\ AttemptInReserve
             /\ RetryBudget
             /\ FailedMeansExhausted

\* The open transaction holds what its owner may have inserted.
BufferOfWriter ==
    /\ writer = Nobody => buffer = {}
    /\ writer = Command => buffer \subseteq Root
    /\ \A w \in Worker : writer = w => buffer \subseteq FollowUps[held[w]]

CascadeInv == BufferOfWriter /\ FollowUpsOfCommitted

Prompt == ~SlowHandlers /\ ~Stalls

-----------------------------------------------------------------------------

\* A retry's delay is a number of ticks up to the cap of backoff.
LEMMA BackoffBounded == ASSUME NEW n \in Nat PROVE Backoff(n) \in 0..BackoffCap
  <1> DEFINE d == 2 ^ ((IF n < 1 THEN 1 ELSE n) - 1)
  <1>1. Backoff(n) = IF n > 55 THEN 0 ELSE IF d \in 0..BackoffCap THEN d ELSE BackoffCap
    BY DEF Backoff
  <1> HIDE DEF d
  <1>2. QED
    BY <1>1, ConstantsOK

\* The type invariant with the two facts it rests on, from state to state.
LEMMA BaseInvStep == BaseInv /\ [Next]_vars => BaseInv'
  <1> SUFFICES ASSUME BaseInv, [Next]_vars
               PROVE  BaseInv'
    OBVIOUS
  <1> USE ConstantsOK DEF BaseInv, TypeOK, HoldsARow, WriterRuns,
                         DownMeansStopped, Phase
  <1>1. CASE BeginCommand
    BY <1>1 DEF BeginCommand, table, slotVars
  <1>2. ASSUME NEW j \in Job, NEW d \in Delays, CommandEnqueue(j, d)
        PROVE  BaseInv'
    BY <1>2 DEF CommandEnqueue, CanEnqueue, slotVars
  <1>3. CASE CommandCommits
    BY <1>3 DEF CommandCommits, Commit, slotVars
  <1>4. CASE CommandRollsBack
    BY <1>4 DEF CommandRollsBack, RollBack, slotVars
  <1>5. ASSUME NEW j \in Job, NEW d \in Delays, EnqueueNow(j, d)
        PROVE  BaseInv'
    BY <1>5 DEF EnqueueNow, CanEnqueue, txVars, slotVars
  <1>6. ASSUME NEW w \in Worker, NEW j \in Job, ClaimDue(w, j)
        PROVE  BaseInv'
    BY <1>6 DEF ClaimDue, NextDue, Claimable, Pending, txVars
  <1>7. ASSUME NEW w \in Worker, UnknownKind(w)
        PROVE  BaseInv'
    BY <1>7 DEF UnknownKind, MarkFailed, Release, txVars
  <1>8. ASSUME NEW w \in Worker, BeginTx(w)
        PROVE  BaseInv'
    BY <1>8 DEF BeginTx, table
  <1>9. ASSUME NEW w \in Worker, BeginTxBusy(w)
        PROVE  BaseInv'
    BY <1>9 DEF BeginTxBusy, table, txVars
  <1>10. ASSUME NEW w \in Worker, NEW j \in Job, NEW d \in Delays,
                HandlerEnqueue(w, j, d)
         PROVE  BaseInv'
    BY <1>10 DEF HandlerEnqueue, slotVars
  <1>11. ASSUME NEW w \in Worker, HandlerSucceeds(w)
         PROVE  BaseInv'
    BY <1>11 DEF HandlerSucceeds, MarkComplete, Commit, Release
  <1>12. ASSUME NEW w \in Worker, HandlerFails(w)
         PROVE  BaseInv'
    BY <1>12 DEF HandlerFails, RollBack
  <1>13. ASSUME NEW w \in Worker, HandleFailure(w)
         PROVE  BaseInv'
    <2>1. CASE MarkFailed(held[w])
      BY <1>13, <2>1 DEF HandleFailure, MarkFailed, Release, txVars
    <2>2. CASE Reschedule(held[w], Backoff(heldAttempts[w]))
      <3>1. Backoff(heldAttempts[w]) \in Int
        BY BackoffBounded
      <3>2. QED
        BY <1>13, <2>2, <3>1
           DEF HandleFailure, Reschedule, Release, txVars
    <2>3. QED
      BY <1>13, <2>1, <2>2 DEF HandleFailure
  <1>14. ASSUME NEW w \in Worker, OutcomeLost(w)
         PROVE  BaseInv'
    BY <1>14 DEF OutcomeLost, Release, table, txVars
  <1>15. ASSUME NEW w \in Worker, SlotExits(w)
         PROVE  BaseInv'
    BY <1>15 DEF SlotExits, Release, table, txVars
  <1>16. ASSUME NEW p \in Process, Shutdown(p)
         PROVE  BaseInv'
    BY <1>16 DEF Shutdown, table, txVars, slotVars
  <1>17. ASSUME NEW p \in Process, ProcessExits(p)
         PROVE  BaseInv'
    BY <1>17 DEF ProcessExits, Slots, table, txVars, slotVars
  <1>18. ASSUME NEW p \in Process, Crash(p)
         PROVE  BaseInv'
    <2>1. CASE writer \in Slots(p)
      BY <1>18, <2>1 DEF Crash, RollBack, Slots
    <2>2. CASE writer \notin Slots(p)
      BY <1>18, <2>2 DEF Crash, Slots, txVars
    <2>3. QED
      BY <2>1, <2>2
  <1>19. ASSUME NEW p \in Process, Restart(p)
         PROVE  BaseInv'
    BY <1>19 DEF Restart, Slots, table, txVars
  <1>20. CASE Tick
    BY <1>20 DEF Tick, RunDown, txVars, slotVars
  <1>21. CASE UNCHANGED vars
    BY <1>21 DEF vars, table, txVars, slotVars
  <1>22. QED
    BY <1>1, <1>2, <1>3, <1>4, <1>5, <1>6, <1>7, <1>8, <1>9, <1>10, <1>11,
       <1>12, <1>13, <1>14, <1>15, <1>16, <1>17, <1>18, <1>19, <1>20, <1>21
       DEF Next, Produce, SlotStep, ProcessStep

\* Every state the queue reaches is well typed, whatever the timing and the
\* faults: the tables and slots of the model never hold a value the columns
\* and the Go variables could not.
THEOREM TypeCorrect == Spec => []TypeOK
  <1>1. Init => BaseInv
    BY ConstantsOK DEF Init, BaseInv, TypeOK, HoldsARow, WriterRuns,
                         DownMeansStopped, Phase
  <1>2. BaseInv => TypeOK
    BY DEF BaseInv
  <1>3. QED
    BY <1>1, <1>2, BaseInvStep, PTL DEF Spec

-----------------------------------------------------------------------------

\* Slots that finish within their leases keep the leases' meaning: only a
\* row nobody holds can be claimed, and only its holder finishes it.
LEMMA LeaseInvStep ==
  ASSUME Prompt, BaseInv, LeaseInv, [Next]_vars
  PROVE  LeaseInv'
  <1> USE ConstantsOK DEF BaseInv, TypeOK, HoldsARow, WriterRuns, LeaseInv,
          HeldUnderLease, SoleHolder, OneOutcome, EffectsMatchRow,
          FinishedUnleased, Pending
  <1>1. CASE BeginCommand
    BY <1>1 DEF BeginCommand, table, slotVars
  <1>2. ASSUME NEW j \in Job, NEW d \in Delays, CommandEnqueue(j, d)
        PROVE  LeaseInv'
    BY <1>2 DEF CommandEnqueue, slotVars
  <1>3. CASE CommandCommits
    BY <1>3 DEF CommandCommits, Commit, slotVars
  <1>4. CASE CommandRollsBack
    BY <1>4 DEF CommandRollsBack, RollBack, slotVars
  <1>5. ASSUME NEW j \in Job, NEW d \in Delays, EnqueueNow(j, d)
        PROVE  LeaseInv'
    BY <1>5 DEF EnqueueNow, txVars, slotVars
  <1>6. ASSUME NEW w \in Worker, NEW j \in Job, ClaimDue(w, j)
        PROVE  LeaseInv'
    <2>1. j \in Pending /\ lockedUntil[j] = 0
      BY <1>6 DEF ClaimDue, NextDue, Claimable
    <2>2. \A v \in Worker : held[v] # j
      BY <2>1
    <2>3. QED
      BY <1>6, <2>1, <2>2 DEF ClaimDue, txVars
  <1>7. ASSUME NEW w \in Worker, UnknownKind(w)
        PROVE  LeaseInv'
    BY <1>7 DEF UnknownKind, MarkFailed, Release, txVars, Phase
  <1>8. ASSUME NEW w \in Worker, BeginTx(w)
        PROVE  LeaseInv'
    BY <1>8 DEF BeginTx, table
  <1>9. ASSUME NEW w \in Worker, BeginTxBusy(w)
        PROVE  LeaseInv'
    BY <1>9 DEF BeginTxBusy, table, txVars
  <1>10. ASSUME NEW w \in Worker, NEW j \in Job, NEW d \in Delays,
                HandlerEnqueue(w, j, d)
         PROVE  LeaseInv'
    BY <1>10 DEF HandlerEnqueue, slotVars
  <1>11. ASSUME NEW w \in Worker, HandlerSucceeds(w)
         PROVE  LeaseInv'
    BY <1>11 DEF HandlerSucceeds, MarkComplete, Commit, Release, Phase
  <1>12. ASSUME NEW w \in Worker, HandlerFails(w)
         PROVE  LeaseInv'
    BY <1>12 DEF HandlerFails, RollBack
  <1>13. ASSUME NEW w \in Worker, HandleFailure(w)
         PROVE  LeaseInv'
    BY <1>13 DEF HandleFailure, MarkFailed, Reschedule, Release, txVars,
                 Phase
  <1>14. ASSUME NEW w \in Worker, OutcomeLost(w)
         PROVE  LeaseInv'
    BY <1>14 DEF OutcomeLost, Release, table, txVars
  <1>15. ASSUME NEW w \in Worker, SlotExits(w)
         PROVE  LeaseInv'
    BY <1>15 DEF SlotExits, Release, table, txVars
  <1>16. ASSUME NEW p \in Process, Shutdown(p)
         PROVE  LeaseInv'
    BY <1>16 DEF Shutdown, table, txVars, slotVars
  <1>17. ASSUME NEW p \in Process, ProcessExits(p)
         PROVE  LeaseInv'
    BY <1>17 DEF ProcessExits, table, txVars, slotVars
  <1>18. ASSUME NEW p \in Process, Crash(p)
         PROVE  LeaseInv'
    BY <1>18 DEF Crash, RollBack, Slots, txVars
  <1>19. ASSUME NEW p \in Process, Restart(p)
         PROVE  LeaseInv'
    BY <1>19 DEF Restart, table, txVars
  <1>20. CASE Tick
    <2>1. \A w \in Worker : held[w] # NoJob => lockedUntil[held[w]] > 1
      BY <1>20 DEF Tick, MayOverrun, Prompt
    <2>2. QED
      BY <1>20, <2>1 DEF Tick, RunDown, txVars, slotVars
  <1>21. CASE UNCHANGED vars
    BY <1>21 DEF vars, table, txVars, slotVars
  <1>22. QED
    BY <1>1, <1>2, <1>3, <1>4, <1>5, <1>6, <1>7, <1>8, <1>9, <1>10, <1>11,
       <1>12, <1>13, <1>14, <1>15, <1>16, <1>17, <1>18, <1>19, <1>20, <1>21
       DEF Next, Produce, SlotStep, ProcessStep

\* Each claim spends one attempt, and each end of a claim is a recorded retry,
\* a final outcome, or a fault.
LEMMA BudgetInvStep ==
  ASSUME Prompt, BaseInv, LeaseInv, BudgetInv, [Next]_vars
  PROVE  BudgetInv'
  <1> USE ConstantsOK DEF BaseInv, TypeOK, HoldsARow, DownMeansStopped,
          LeaseInv, HeldUnderLease, SoleHolder, BudgetInv, CopyIsFresh,
          AttemptInReserve, RetryBudget, FailedMeansExhausted, Pending, Up
  <1>1. CASE BeginCommand
    BY <1>1 DEF BeginCommand, table, slotVars
  <1>2. ASSUME NEW j \in Job, NEW d \in Delays, CommandEnqueue(j, d)
        PROVE  BudgetInv'
    BY <1>2 DEF CommandEnqueue, slotVars
  <1>3. CASE CommandCommits
    BY <1>3 DEF CommandCommits, Commit, slotVars
  <1>4. CASE CommandRollsBack
    BY <1>4 DEF CommandRollsBack, RollBack, slotVars
  <1>5. ASSUME NEW j \in Job, NEW d \in Delays, EnqueueNow(j, d)
        PROVE  BudgetInv'
    BY <1>5 DEF EnqueueNow, txVars, slotVars
  <1>6. ASSUME NEW w \in Worker, NEW j \in Job, ClaimDue(w, j)
        PROVE  BudgetInv'
    BY <1>6 DEF ClaimDue, NextDue, Claimable, txVars
  <1>7. ASSUME NEW w \in Worker, UnknownKind(w)
        PROVE  BudgetInv'
    BY <1>7 DEF UnknownKind, Knows, MarkFailed, Release, txVars
  <1>8. ASSUME NEW w \in Worker, BeginTx(w)
        PROVE  BudgetInv'
    BY <1>8 DEF BeginTx, table
  <1>9. ASSUME NEW w \in Worker, BeginTxBusy(w)
        PROVE  BudgetInv'
    BY <1>9 DEF BeginTxBusy, table, txVars
  <1>10. ASSUME NEW w \in Worker, NEW j \in Job, NEW d \in Delays,
                HandlerEnqueue(w, j, d)
         PROVE  BudgetInv'
    BY <1>10 DEF HandlerEnqueue, slotVars
  <1>11. ASSUME NEW w \in Worker, HandlerSucceeds(w)
         PROVE  BudgetInv'
    BY <1>11 DEF HandlerSucceeds, MarkComplete, Commit, Release
  <1>12. ASSUME NEW w \in Worker, HandlerFails(w)
         PROVE  BudgetInv'
    BY <1>12 DEF HandlerFails, RollBack
  <1>13. ASSUME NEW w \in Worker, HandleFailure(w)
         PROVE  BudgetInv'
    <2>1. CASE Exhausted(w) /\ MarkFailed(held[w])
      BY <1>13, <2>1 DEF HandleFailure, Exhausted, MarkFailed, Release,
                         txVars, Phase
    <2>2. CASE ~Exhausted(w) /\ Reschedule(held[w], Backoff(heldAttempts[w]))
      BY <1>13, <2>2 DEF HandleFailure, Exhausted, Reschedule, Release,
                         txVars, Phase
    <2>3. QED
      BY <1>13, <2>1, <2>2 DEF HandleFailure
  <1>14. ASSUME NEW w \in Worker, OutcomeLost(w)
         PROVE  BudgetInv'
    BY <1>14 DEF OutcomeLost, Release, table, txVars
  <1>15. ASSUME NEW w \in Worker, SlotExits(w)
         PROVE  BudgetInv'
    BY <1>15 DEF SlotExits, Release, table, txVars
  <1>16. ASSUME NEW p \in Process, Shutdown(p)
         PROVE  BudgetInv'
    BY <1>16 DEF Shutdown, Slots, table, txVars, slotVars
  <1>17. ASSUME NEW p \in Process, ProcessExits(p)
         PROVE  BudgetInv'
    BY <1>17 DEF ProcessExits, Slots, table, txVars, slotVars
  <1>18. ASSUME NEW p \in Process, Crash(p)
         PROVE  BudgetInv'
    BY <1>18 DEF Crash, RollBack, Slots, txVars
  <1>19. ASSUME NEW p \in Process, Restart(p)
         PROVE  BudgetInv'
    BY <1>19 DEF Restart, Slots, table, txVars
  <1>20. CASE Tick
    BY <1>20 DEF Tick, RunDown, txVars, slotVars
  <1>21. CASE UNCHANGED vars
    BY <1>21 DEF vars, table, txVars, slotVars
  <1>22. QED
    BY <1>1, <1>2, <1>3, <1>4, <1>5, <1>6, <1>7, <1>8, <1>9, <1>10, <1>11,
       <1>12, <1>13, <1>14, <1>15, <1>16, <1>17, <1>18, <1>19, <1>20, <1>21
       DEF Next, Produce, SlotStep, ProcessStep

\* Rows reach the table with the transaction of a producer, or with that of
\* the handler that also completes the parent.
LEMMA CascadeInvStep ==
  ASSUME BaseInv, CascadeInv, [Next]_vars
  PROVE  CascadeInv'
  <1> USE ConstantsOK DEF BaseInv, TypeOK, HoldsARow, WriterRuns, Phase,
          CascadeInv, BufferOfWriter, FollowUpsOfCommitted, Root
  <1>1. CASE BeginCommand
    BY <1>1 DEF BeginCommand, table, slotVars
  <1>2. ASSUME NEW j \in Job, NEW d \in Delays, CommandEnqueue(j, d)
        PROVE  CascadeInv'
    BY <1>2 DEF CommandEnqueue, slotVars
  <1>3. CASE CommandCommits
    BY <1>3 DEF CommandCommits, Commit, slotVars
  <1>4. CASE CommandRollsBack
    BY <1>4 DEF CommandRollsBack, RollBack, slotVars
  <1>5. ASSUME NEW j \in Job, NEW d \in Delays, EnqueueNow(j, d)
        PROVE  CascadeInv'
    BY <1>5 DEF EnqueueNow, txVars, slotVars
  <1>6. ASSUME NEW w \in Worker, NEW j \in Job, ClaimDue(w, j)
        PROVE  CascadeInv'
    BY <1>6 DEF ClaimDue, NextDue, Claimable, txVars
  <1>7. ASSUME NEW w \in Worker, UnknownKind(w)
        PROVE  CascadeInv'
    BY <1>7 DEF UnknownKind, MarkFailed, Release, txVars
  <1>8. ASSUME NEW w \in Worker, BeginTx(w)
        PROVE  CascadeInv'
    BY <1>8 DEF BeginTx, table
  <1>9. ASSUME NEW w \in Worker, BeginTxBusy(w)
        PROVE  CascadeInv'
    BY <1>9 DEF BeginTxBusy, table, txVars
  <1>10. ASSUME NEW w \in Worker, NEW j \in Job, NEW d \in Delays,
                HandlerEnqueue(w, j, d)
         PROVE  CascadeInv'
    BY <1>10 DEF HandlerEnqueue, slotVars
  <1>11. ASSUME NEW w \in Worker, HandlerSucceeds(w)
         PROVE  CascadeInv'
    BY <1>11 DEF HandlerSucceeds, MarkComplete, Commit, Release
  <1>12. ASSUME NEW w \in Worker, HandlerFails(w)
         PROVE  CascadeInv'
    BY <1>12 DEF HandlerFails, RollBack
  <1>13. ASSUME NEW w \in Worker, HandleFailure(w)
         PROVE  CascadeInv'
    BY <1>13 DEF HandleFailure, MarkFailed, Reschedule, Release,
                 txVars
  <1>14. ASSUME NEW w \in Worker, OutcomeLost(w)
         PROVE  CascadeInv'
    BY <1>14 DEF OutcomeLost, Release, table, txVars
  <1>15. ASSUME NEW w \in Worker, SlotExits(w)
         PROVE  CascadeInv'
    BY <1>15 DEF SlotExits, Release, table, txVars
  <1>16. ASSUME NEW p \in Process, Shutdown(p)
         PROVE  CascadeInv'
    BY <1>16 DEF Shutdown, Slots, table, txVars, slotVars
  <1>17. ASSUME NEW p \in Process, ProcessExits(p)
         PROVE  CascadeInv'
    BY <1>17 DEF ProcessExits, Slots, table, txVars, slotVars
  <1>18. ASSUME NEW p \in Process, Crash(p)
         PROVE  CascadeInv'
    BY <1>18 DEF Crash, RollBack, Slots, txVars
  <1>19. ASSUME NEW p \in Process, Restart(p)
         PROVE  CascadeInv'
    BY <1>19 DEF Restart, Slots, table, txVars
  <1>20. CASE Tick
    BY <1>20 DEF Tick, RunDown, txVars, slotVars
  <1>21. CASE UNCHANGED vars
    BY <1>21 DEF vars, table, txVars, slotVars
  <1>22. QED
    BY <1>1, <1>2, <1>3, <1>4, <1>5, <1>6, <1>7, <1>8, <1>9, <1>10, <1>11,
       <1>12, <1>13, <1>14, <1>15, <1>16, <1>17, <1>18, <1>19, <1>20, <1>21
       DEF Next, Produce, SlotStep, ProcessStep

\* The invariants from the start, for use by the theorems below.
LEMMA InvariantsHold ==
  ASSUME Prompt
  PROVE  Spec => [](BaseInv /\ LeaseInv /\ BudgetInv /\ CascadeInv)
  <1> DEFINE Inv == BaseInv /\ LeaseInv /\ BudgetInv /\ CascadeInv
  <1>1. Init => BaseInv
    BY ConstantsOK DEF Init, BaseInv, TypeOK, HoldsARow, WriterRuns,
                       DownMeansStopped, Phase
  <1>2. Init => LeaseInv
    BY DEF Init, LeaseInv, HeldUnderLease, SoleHolder, OneOutcome,
           EffectsMatchRow, FinishedUnleased
  <1>3. Init => BudgetInv
    BY ConstantsOK DEF Init, BudgetInv, CopyIsFresh, AttemptInReserve,
                       RetryBudget, FailedMeansExhausted
  <1>4. Init => CascadeInv
    BY ConstantsOK DEF Init, CascadeInv, BufferOfWriter, FollowUpsOfCommitted
  <1>5. Inv /\ [Next]_vars => Inv'
    BY BaseInvStep, LeaseInvStep, BudgetInvStep, CascadeInvStep
  <1>6. QED
    BY <1>1, <1>2, <1>3, <1>4, <1>5, PTL DEF Spec

\* ClaimDue gives each row to at most one slot, and no retry, crash, shutdown
\* or lost write lets a second slot work with it at the same time.
THEOREM ClaimIsExclusive == ASSUME Prompt PROVE Spec => []SoleHolder
  <1>1. LeaseInv => SoleHolder
    BY DEF LeaseInv
  <1>2. QED
    BY <1>1, InvariantsHold, PTL

\* The handler's committed writes and completed_at go together, and happen at
\* most once per job.
THEOREM CompletionIsAtomic == ASSUME Prompt PROVE Spec => []EffectsMatchRow
  <1>1. LeaseInv => EffectsMatchRow
    BY DEF LeaseInv
  <1>2. QED
    BY <1>1, InvariantsHold, PTL

\* No row is both completed and failed.
THEOREM OutcomesAreExclusive == ASSUME Prompt PROVE Spec => []OneOutcome
  <1>1. LeaseInv => OneOutcome
    BY DEF LeaseInv
  <1>2. QED
    BY <1>1, InvariantsHold, PTL

\* Attempts never exceed the retries plus one, plus the faults that kept an
\* outcome from being recorded, and handleFailure gives a row up only after its
\* last retry.
THEOREM RetriesAreBudgeted == ASSUME Prompt PROVE Spec => []Budgeted
  <1>1. BudgetInv => Budgeted
    BY DEF BudgetInv, Budgeted
  <1>2. QED
    BY <1>1, InvariantsHold, PTL

\* A follow-up job is in the table only with the commit of its parent; this
\* needs no assumption on the timing.
THEOREM CascadeIsAtomic == Spec => []FollowUpsOfCommitted
  <1>1. Init => BaseInv /\ CascadeInv
    BY ConstantsOK DEF Init, BaseInv, TypeOK, HoldsARow, WriterRuns,
                       DownMeansStopped, Phase, CascadeInv, BufferOfWriter,
                       FollowUpsOfCommitted
  <1>2. BaseInv /\ CascadeInv /\ [Next]_vars => (BaseInv /\ CascadeInv)'
    BY BaseInvStep, CascadeInvStep
  <1>3. CascadeInv => FollowUpsOfCommitted
    BY DEF CascadeInv
  <1>4. QED
    BY <1>1, <1>2, <1>3, PTL DEF Spec

-----------------------------------------------------------------------------

\* A step that leaves the rows' outcomes alone is invisible to the promise.
LEMMA InvisibleStep ==
  ASSUME UNCHANGED <<enqueued, completed, failed, effects>>
  PROVE  UNCHANGED Durable!vars
  BY DEF Durable!vars, RowState, Pending

\* Recording the final failure of the row a slot holds.
LEMMA GiveUpStep ==
  ASSUME BaseInv, LeaseInv, NEW j \in Pending, MarkFailed(j),
         UNCHANGED effects
  PROVE  Durable!GiveUp(j)
  <1> USE DEF BaseInv, TypeOK, LeaseInv, OneOutcome, Pending
  <1>1. RowState[j] = "pending"
    BY DEF RowState
  <1>2. RowState' = [RowState EXCEPT ![j] = "dead"]
    BY DEF RowState, MarkFailed
  <1>3. QED
    BY <1>1, <1>2 DEF Durable!GiveUp

\* Every step of the queue is a step of the promise, or invisible to it.
LEMMA PromiseStep ==
  ASSUME Prompt, BaseInv, LeaseInv, CascadeInv, [Next]_vars
  PROVE  [Durable!Next]_(Durable!vars)
  <1> USE ConstantsOK DEF BaseInv, TypeOK
  <1>1. CASE CommandCommits
    <2>1. buffer \subseteq Durable!Root \cap Durable!Absent
      BY <1>1 DEF CommandCommits, CascadeInv, BufferOfWriter, Root,
                  Durable!Root, Durable!Absent, RowState, Pending
    <2>2. RowState' = [j \in Job |-> IF j \in buffer THEN "pending"
                                                    ELSE RowState[j]]
      BY <1>1 DEF CommandCommits, Commit, RowState, Pending
    <2>3. Durable!Submit(buffer)
      BY <1>1, <2>1, <2>2 DEF CommandCommits, Durable!Submit
    <2>4. QED
      BY <2>3 DEF Durable!Next
  <1>2. ASSUME NEW j \in Job, NEW d \in Delays, EnqueueNow(j, d)
        PROVE  [Durable!Next]_(Durable!vars)
    <2>1. {j} \subseteq Durable!Root \cap Durable!Absent
      BY <1>2 DEF EnqueueNow, CanEnqueue, Root, Durable!Root, Durable!Absent,
                  RowState, Pending
    <2>2. RowState' = [k \in Job |-> IF k \in {j} THEN "pending"
                                                 ELSE RowState[k]]
      BY <1>2 DEF EnqueueNow, CanEnqueue, RowState, Pending
    <2>3. Durable!Submit({j})
      BY <1>2, <2>1, <2>2 DEF EnqueueNow, Durable!Submit
    <2>4. QED
      BY <2>3 DEF Durable!Next
  <1>3. ASSUME NEW w \in Worker, HandlerSucceeds(w)
        PROVE  [Durable!Next]_(Durable!vars)
    <2>1. held[w] \in Pending
      BY <1>3 DEF HandlerSucceeds, HoldsARow, LeaseInv, HeldUnderLease
    <2>2. buffer \subseteq FollowUps[held[w]] \cap Durable!Absent
      BY <1>3 DEF HandlerSucceeds, WriterRuns, CascadeInv, BufferOfWriter,
                  Durable!Absent, RowState, Pending
    <2>3. RowState[held[w]] = "pending"
      BY <2>1 DEF RowState, Pending
    <2>4. RowState' =
            [k \in Job |-> CASE k = held[w] -> "done"
                             [] k # held[w] /\ k \in buffer -> "pending"
                             [] k # held[w] /\ k \notin buffer -> RowState[k]]
      BY <1>3, <2>1 DEF HandlerSucceeds, MarkComplete, Commit, RowState,
                        Pending
    <2>5. Durable!Perform(held[w], buffer)
      BY <1>3, <2>2, <2>3, <2>4 DEF HandlerSucceeds, Durable!Perform
    <2>6. QED
      BY <2>1, <2>5 DEF Durable!Next, Pending
  <1>4. ASSUME NEW w \in Worker, UnknownKind(w) \/ HandleFailure(w)
        PROVE  [Durable!Next]_(Durable!vars)
    <2>1. held[w] \in Pending
      BY <1>4 DEF UnknownKind, HandleFailure, HoldsARow, LeaseInv,
                  HeldUnderLease
    <2>2. CASE MarkFailed(held[w])
      <3>1. Durable!GiveUp(held[w])
        BY <1>4, <2>1, <2>2, GiveUpStep DEF UnknownKind, HandleFailure
      <3>2. QED
        BY <2>1, <3>1 DEF Durable!Next, Pending
    <2>3. CASE Reschedule(held[w], Backoff(heldAttempts[w]))
      BY <1>4, <2>3, InvisibleStep
         DEF UnknownKind, HandleFailure, Reschedule
    <2>4. QED
      BY <1>4, <2>2, <2>3 DEF UnknownKind, HandleFailure
  <1>5. ASSUME UNCHANGED <<enqueued, completed, failed, effects>>
        PROVE  [Durable!Next]_(Durable!vars)
    BY <1>5, InvisibleStep
  <1>6. QED
    BY <1>1, <1>2, <1>3, <1>4, <1>5
       DEF Next, Produce, SlotStep, ProcessStep, BeginCommand, CommandEnqueue,
           CommandRollsBack, ClaimDue, BeginTx, BeginTxBusy, HandlerEnqueue,
           HandlerFails, OutcomeLost, SlotExits, Shutdown, ProcessExits, Crash,
           Restart, Tick, RollBack, vars, table

\* The job queue implements DurableQueue: to a reader of the table there are
\* only submissions, atomic completions and final failures.
THEOREM QueueKeepsPromise == ASSUME Prompt PROVE Spec => KeepsPromise
  <1>1. Init => Durable!Init
    BY DEF Init, Durable!Init, RowState, Pending
  <1>2. BaseInv /\ LeaseInv /\ CascadeInv /\ [Next]_vars
          => [Durable!Next]_(Durable!vars)
    BY PromiseStep
  <1>3. QED
    BY <1>1, <1>2, InvariantsHold, PTL DEF Spec, KeepsPromise, Durable!Spec

\* Once completed_at or failed_at is set, no later statement touches attempts,
\* the lease or the outcome of the row.
THEOREM FinishedRowsStay == ASSUME Prompt PROVE Spec => FinishedIsFinal
  <1> DEFINE Kept == \A j \in completed \cup failed :
                       /\ attempts'[j] = attempts[j]
                       /\ lockedUntil'[j] = 0
                       /\ j \in completed' <=> j \in completed
                       /\ j \in failed' <=> j \in failed
  <1>1. ASSUME BaseInv, LeaseInv, [Next]_vars
        PROVE  Kept
    <2> USE <1>1, ConstantsOK DEF BaseInv, TypeOK, LeaseInv, FinishedUnleased,
            HeldUnderLease, HoldsARow, Pending, Kept
    <2>1. ASSUME NEW w \in Worker, NEW j \in Job, ClaimDue(w, j)
          PROVE  Kept
      BY <2>1 DEF ClaimDue, NextDue, Claimable
    <2>2. ASSUME NEW w \in Worker,
                 UnknownKind(w) \/ HandlerSucceeds(w) \/ HandleFailure(w)
          PROVE  Kept
      <3>1. held[w] \in Pending
        BY <2>2 DEF UnknownKind, HandlerSucceeds, HandleFailure
      <3>2. QED
        BY <2>2, <3>1 DEF UnknownKind, HandlerSucceeds, HandleFailure,
                          MarkFailed, MarkComplete, Reschedule
    <2>3. CASE Tick
      BY <2>3 DEF Tick, RunDown
    <2>4. ASSUME UNCHANGED <<attempts, lockedUntil, completed, failed>>
          PROVE  Kept
      BY <2>4
    <2>5. QED
      BY <1>1, <2>1, <2>2, <2>3, <2>4
         DEF Next, Produce, SlotStep, ProcessStep, BeginCommand,
             CommandEnqueue, CommandCommits, CommandRollsBack, EnqueueNow,
             BeginTx, BeginTxBusy, HandlerEnqueue, HandlerFails, OutcomeLost,
             SlotExits, Shutdown, ProcessExits, Crash, Restart, vars, table
  <1>2. BaseInv /\ LeaseInv /\ [Next]_vars => [Kept]_vars
    BY <1>1
  <1>3. QED
    BY <1>2, InvariantsHold, PTL DEF Spec, FinishedIsFinal

=============================================================================
