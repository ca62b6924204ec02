--------------------------- MODULE LoginLockProofs ---------------------------
(***************************************************************************)
(* Theorems about LoginLock for any number of overlapping logins, any      *)
(* threshold, window and duration of the lock, and logins of any length.   *)
(***************************************************************************)
EXTENDS LoginLock, SequenceTheorems, TLAPS

\* The counter is that of a chain of failures, each inside the window of the one
\* before; the failures that came before the chain are older than the window.
\* None is younger than last_failed_login_at.
BurstInv ==
    /\ failures \in Seq(0 .. Old) /\ Len(failures) <= Threshold
    /\ attempts <= Len(failures)
    /\ \A i \in DOMAIN failures : failures[i] >= since
    /\ \A i \in 1 .. Len(failures) - attempts : failures[i] > Window

\* What TypeOK says of each login.
RequestType == [pc : {"idle", "verify", "record", "reset", "issue"},
                right : BOOLEAN, left : 0 .. LockDuration, young : BOOLEAN]

\* What a login's copy of locked_until says of the row when a login takes less
\* than a tick: it is still right, or a login has since cleared the lock or
\* started one, before the last tick at the earliest.
CopyFits(r) ==
    /\ request[r].pc \in {"record", "reset"} => request[r].left = 0
    /\ request[r].pc /= "idle" =>
         \/ lockLeft \in {0, request[r].left, LockDuration}
         \/ ~request[r].young /\ lockLeft = LockDuration - 1
CopyInv == Quick => \A r \in Requests : CopyFits(r)

\* The inductive invariant of the counter.
LockInv == TypeOK /\ BurstInv
---------------------------------------------------------------------------
\* A function on an initial segment is a sequence.
LEMMA SeqOfFunction ==
  ASSUME NEW S, NEW n \in Nat, NEW f \in [1 .. n -> S]
  PROVE  f \in Seq(S) /\ Len(f) = n
  <1>1. f \in Seq(S)
    BY SeqDef
  <1>2. DOMAIN f = 1 .. Len(f) /\ DOMAIN f = 1 .. n /\ Len(f) \in Nat
    BY <1>1, LenProperties
  <1> QED
    BY <1>1, <1>2

LEMMA LockStart == Init => LockInv
  BY LockAssumption DEF Init, LockInv, TypeOK, BurstInv, Old, Idle

\* Every step keeps the row and the requests well formed.
LEMMA TypeKept == TypeOK /\ [Next]_vars => TypeOK'
  <1> SUFFICES ASSUME TypeOK, [Next]_vars PROVE TypeOK'
    OBVIOUS
  <1> USE LockAssumption DEF TypeOK, Old, Idle, Goto, Leave, userRow
  <1>1. ASSUME Tick PROVE TypeOK'
    <2>1. since' \in 0 .. Old
      <3>1. since' = IF since < Old THEN since + 1 ELSE Old
        BY <1>1 DEF Tick, Older
      <3> QED
        BY <3>1
    <2>a. lockLeft' \in 0 .. LockDuration
      <3>1. lockLeft' = IF lockLeft > 0 THEN lockLeft - 1 ELSE 0
        BY <1>1 DEF Tick
      <3> QED
        BY <3>1
    <2>2. ASSUME NEW r \in Requests
          PROVE  /\ request'[r].pc = request[r].pc /\ request'[r].right = request[r].right
                 /\ request'[r].left \in 0 .. LockDuration /\ request'[r].young \in BOOLEAN
                 /\ request'[r] \in RequestType
      <3>1. request[r] \in RequestType
        BY DEF RequestType
      <3>2. (IF request[r].left > 0 THEN request[r].left - 1 ELSE 0) \in 0 .. LockDuration
        BY <3>1 DEF RequestType
      <3>3. request'[r] = [request[r] EXCEPT !.left = IF @ > 0 THEN @ - 1 ELSE 0,
                                             !.young = Quick => request[r].pc = "idle"]
        BY <1>1 DEF Tick
      <3> QED
        BY <3>1, <3>2, <3>3 DEF RequestType
    <2>3. request' \in [Requests -> RequestType]
      BY <1>1, <2>2 DEF Tick
    <2> QED
      BY <1>1, <2>1, <2>a, <2>3 DEF Tick, RequestType
  <1>2. ASSUME NEW r \in Requests, Read(r) PROVE TypeOK'
    BY <1>2 DEF Read
  <1>3. ASSUME NEW r \in Requests, Proceed(r) PROVE TypeOK'
    <2>1. CASE Decide(r)
      <3>1. CASE Locked(r) /\ Leave(r)
        BY <2>1, <3>1 DEF Decide
      <3>2. CASE Goto(r, "reset") \/ Goto(r, "record")
        BY <2>1, <3>2 DEF Decide
      <3> QED
        BY <2>1, <3>1, <3>2 DEF Decide
    <2>2. CASE Record(r)
      BY <2>2 DEF Record, Stale, Crosses, Locks
    <2>3. CASE RecordFails(r)
      BY <2>3 DEF RecordFails
    <2>4. CASE Reset(r)
      BY <2>4 DEF Reset
    <2>5. CASE ResetFails(r)
      BY <2>5 DEF ResetFails
    <2>6. CASE Issue(r)
      BY <2>6 DEF Issue
    <2> QED
      BY <1>3, <2>1, <2>2, <2>3, <2>4, <2>5, <2>6 DEF Proceed
  <1>4. ASSUME UNCHANGED vars PROVE TypeOK'
    BY <1>4 DEF vars, userRow
  <1> QED
    BY <1>1, <1>2, <1>3, <1>4 DEF Next

\* Only a failure adds to the chain, and only a lock or a success ends it.
LEMMA BurstKept == LockInv /\ [Next]_vars => BurstInv'
  <1> SUFFICES ASSUME LockInv, [Next]_vars PROVE BurstInv'
    OBVIOUS
  <1> USE LockAssumption DEF LockInv, TypeOK, BurstInv, Old, userRow
  <1>1. ASSUME Tick PROVE BurstInv'
    <2>1. \A n \in 0 .. Old : Older(n) \in 0 .. Old /\ Older(n) >= n
      BY DEF Older
    <2>2. failures' \in Seq(0 .. Old) /\ Len(failures') = Len(failures)
      <3>1. failures \in [1 .. Len(failures) -> 0 .. Old] /\ Len(failures) \in Nat
        BY LenProperties
      <3>2. failures' \in [1 .. Len(failures) -> 0 .. Old]
        BY <1>1, <3>1, <2>1 DEF Tick
      <3> HIDE DEF Old, LockInv, TypeOK, BurstInv
      <3> QED
        BY <3>1, <3>2, SeqOfFunction
    <2>3. \A i \in DOMAIN failures' : i \in DOMAIN failures
        /\ failures'[i] = Older(failures[i])
      BY <1>1 DEF Tick
    <2>4. since' = Older(since) /\ attempts' = attempts
      BY <1>1 DEF Tick
    <2>5. \A m, n \in 0 .. Old : m >= n => Older(m) >= Older(n)
      BY DEF Older
    <2>6. DOMAIN failures' = 1 .. Len(failures)
        /\ \A i \in 1 .. Len(failures) : failures[i] \in 0 .. Old
      BY <2>2
    <2>7. \A i \in DOMAIN failures' : failures'[i] >= since'
      <3> SUFFICES ASSUME NEW i \in DOMAIN failures' PROVE failures'[i] >= since'
        OBVIOUS
      <3>1. failures[i] \in 0 .. Old /\ failures[i] >= since /\ since \in 0 .. Old
        BY <2>3, <2>6
      <3> HIDE DEF LockInv, TypeOK, BurstInv, Old
      <3> QED
        BY <3>1, <2>3, <2>4, <2>5
    <2>8. \A i \in 1 .. Len(failures) - attempts : failures'[i] > Window
      <3> SUFFICES ASSUME NEW i \in 1 .. Len(failures) - attempts
           PROVE failures'[i] > Window
        OBVIOUS
      <3>1. i \in 1 .. Len(failures) /\ failures[i] > Window
        OBVIOUS
      <3>2. i \in DOMAIN failures'
        BY <3>1, <2>6
      <3>3. failures[i] \in 0 .. Old /\ failures'[i] = Older(failures[i])
        BY <3>1, <3>2, <2>3, <2>6
      <3>4. \A m, n \in 0 .. Old : m > Window /\ n >= m => n > Window
        BY DEF Old
      <3> HIDE DEF LockInv, TypeOK, BurstInv, Old
      <3> QED
        BY <3>1, <3>3, <3>4, <2>1
    <2> QED
      BY <2>2, <2>4, <2>7, <2>8
  <1>2. ASSUME NEW r \in Requests, Read(r) PROVE BurstInv'
    BY <1>2 DEF Read
  <1>3. ASSUME NEW r \in Requests, Proceed(r) PROVE BurstInv'
    <2>1. CASE Decide(r)
      BY <2>1 DEF Decide, Locked
    <2>2. CASE Record(r)
      <3> DEFINE all == Append(failures, 0)
      <3>1. CASE Locks
        BY <2>2, <3>1 DEF Record, Locks, Stale, Crosses
      <3>2. CASE ~Locks
        <4>1. /\ failures' = IF Len(all) > Threshold THEN Tail(all) ELSE all
              /\ since' = 0 /\ attempts' = IF Stale THEN 1 ELSE attempts + 1
              /\ ~Stale => attempts + 1 < Threshold
          BY <2>2, <3>2 DEF Record, Locks, Crosses
        <4>2. /\ all \in Seq(0 .. Old) /\ Len(all) = Len(failures) + 1
              /\ \A i \in 1 .. Len(failures) : all[i] = failures[i]
          OBVIOUS
        <4>3. \A i \in 1 .. Len(all) - attempts' : all[i] > Window
          BY <4>1, <4>2 DEF Stale
        <4>4. \A i \in 1 .. Len(all) : all[i] >= 0
          <5>1. \A n \in 0 .. Old : n >= 0
            OBVIOUS
          <5>2. \A i \in 1 .. Len(all) : all[i] \in 0 .. Old
            <6>1. all \in Seq(0 .. Old)
              BY <4>2
            <6> HIDE DEF Old, all, LockInv, TypeOK, BurstInv
            <6>2. all \in [1 .. Len(all) -> 0 .. Old]
              BY <6>1, LenProperties
            <6> QED
              BY <6>2
          <5> HIDE DEF Old, all
          <5> QED
            BY <5>1, <5>2
        <4>5. CASE Len(all) > Threshold
          <5>1. /\ failures' = Tail(all) /\ Tail(all) \in Seq(0 .. Old)
                /\ Len(Tail(all)) = Len(all) - 1
                /\ \A i \in 1 .. Len(all) - 1 : Tail(all)[i] = all[i + 1]
            <6> HIDE DEF all
            <6> QED
              BY <4>1, <4>2, <4>5, HeadTailProperties
          <5>2. /\ Len(failures') \in Nat /\ Len(failures') <= Threshold
                /\ attempts' <= Len(failures')
            BY <4>1, <4>2, <4>5, <5>1
          <5>3. \A i \in 1 .. Len(failures') : i + 1 \in 1 .. Len(all)
            BY <4>2, <5>1
          <5>4. \A i \in 1 .. Len(failures') : failures'[i] = all[i + 1]
            BY <5>1
          <5>5. \A i \in DOMAIN failures' : failures'[i] >= since'
            BY <4>1, <4>4, <5>1, <5>3, <5>4
          <5>6. ASSUME NEW i \in 1 .. Len(failures') - attempts' PROVE failures'[i] > Window
            <6>1. attempts' \in Nat
              BY <4>1
            <6>2. \A m, k \in Nat : i \in 1 .. m - k
                     => i \in 1 .. m /\ i + 1 \in 1 .. (m + 1) - k
              OBVIOUS
            <6>3. Len(all) = Len(failures') + 1
              BY <4>2, <5>1
            <6>4. i \in 1 .. Len(failures') /\ i + 1 \in 1 .. Len(all) - attempts'
              BY <6>1, <6>2, <6>3, <5>2
            <6> QED
              BY <6>4, <4>3, <5>4
          <5> HIDE DEF all
          <5> QED
            BY <5>1, <5>2, <5>5, <5>6
        <4>6. CASE ~(Len(all) > Threshold)
          BY <4>1, <4>2, <4>3, <4>4, <4>6
        <4> QED
          BY <4>5, <4>6
      <3> QED
        BY <3>1, <3>2
    <2>3. CASE RecordFails(r)
      BY <2>3 DEF RecordFails
    <2>4. CASE Reset(r)
      BY <2>4 DEF Reset
    <2>5. CASE ResetFails(r)
      BY <2>5 DEF ResetFails
    <2>6. CASE Issue(r)
      BY <2>6 DEF Issue
    <2> QED
      BY <1>3, <2>1, <2>2, <2>3, <2>4, <2>5, <2>6 DEF Proceed
  <1>4. ASSUME UNCHANGED vars PROVE BurstInv'
    BY <1>4 DEF vars, userRow
  <1> QED
    BY <1>1, <1>2, <1>3, <1>4 DEF Next

\* A login reads its copy afresh, and no login outlives a second tick.
LEMMA CopyKept == TypeOK /\ CopyInv /\ [Next]_vars => CopyInv'
  <1> SUFFICES ASSUME TypeOK, CopyInv, [Next]_vars, Quick, NEW q \in Requests
       PROVE CopyFits(q)'
    BY DEF CopyInv
  <1> USE LockAssumption DEF CopyFits, TypeOK, userRow
  <1>0. CopyFits(q)
    BY DEF CopyInv
  <1>1. CASE Tick
    <2>1. /\ request[q].young /\ request'[q].pc = request[q].pc
          /\ request'[q].left = IF request[q].left > 0 THEN request[q].left - 1 ELSE 0
          /\ request[q].pc /= "idle" => ~request'[q].young
          /\ lockLeft' = IF lockLeft > 0 THEN lockLeft - 1 ELSE 0
      BY <1>1 DEF Tick
    <2>2. request[q].left \in 0 .. LockDuration
      OBVIOUS
    <2> QED
      BY <1>0, <2>1, <2>2
  <1>2. ASSUME NEW r \in Requests, Read(r) PROVE CopyFits(q)'
    BY <1>0, <1>2 DEF Read
  <1>3. ASSUME NEW r \in Requests, Proceed(r) PROVE CopyFits(q)'
    <2>1. CASE Decide(r)
      BY <1>0, <2>1 DEF Decide, Locked, Goto, Leave, Idle
    <2>2. CASE Record(r)
      BY <1>0, <2>2 DEF Record, Leave, Idle
    <2>3. CASE RecordFails(r)
      BY <1>0, <2>3 DEF RecordFails, Leave, Idle
    <2>4. CASE Reset(r)
      BY <1>0, <2>4 DEF Reset, Goto
    <2>5. CASE ResetFails(r)
      BY <1>0, <2>5 DEF ResetFails, Goto
    <2>6. CASE Issue(r)
      BY <1>0, <2>6 DEF Issue, Leave, Idle
    <2> QED
      BY <1>3, <2>1, <2>2, <2>3, <2>4, <2>5, <2>6 DEF Proceed
  <1>4. CASE UNCHANGED vars
    BY <1>0, <1>4 DEF vars
  <1> QED
    BY <1>1, <1>2, <1>3, <1>4 DEF Next

\* Only a failure recorded on a copy from before the lock prolongs it.
LEMMA StepDoesNotProlong ==
  ASSUME TypeOK, CopyInv, [Next]_vars, Quick, 0 < lockLeft, lockLeft < LockDuration - 1
  PROVE  lockLeft' <= lockLeft
  <1> USE LockAssumption DEF TypeOK, userRow
  <1>1. ASSUME NEW r \in Requests, Record(r) PROVE lockLeft' <= lockLeft
    <2>1. CopyFits(r) /\ request[r].pc = "record"
      BY <1>1 DEF CopyInv, Record
    <2> QED
      BY <2>1 DEF CopyFits
  <1>2. ASSUME NEW r \in Requests, Proceed(r), ~Record(r) PROVE lockLeft' <= lockLeft
    BY <1>2 DEF Proceed, Decide, RecordFails, Reset, ResetFails, Issue
  <1>3. CASE Tick
    <2>1. lockLeft' = IF lockLeft > 0 THEN lockLeft - 1 ELSE 0
      BY <1>3 DEF Tick
    <2> HIDE DEF TypeOK
    <2>2. lockLeft \in Nat
      BY DEF TypeOK
    <2> QED
      BY <2>1, <2>2
  <1>4. CASE UNCHANGED vars
    BY <1>4 DEF vars
  <1>5. ASSUME NEW r \in Requests, Read(r) PROVE lockLeft' <= lockLeft
    BY <1>5 DEF Read
  <1> QED
    BY <1>1, <1>2, <1>3, <1>4, <1>5 DEF Next

---------------------------------------------------------------------------
LEMMA InvariantHolds == Spec => []LockInv
  <1>1. LockInv /\ [Next]_vars => LockInv'
    BY TypeKept, BurstKept DEF LockInv
  <1> QED
    BY LockStart, <1>1, PTL DEF Spec

\* The row and the requests are well formed; the counter never reaches the
\* threshold, which locks the account and clears it (RecordFailedLogin).
THEOREM TypeCorrect == Spec => []TypeOK
  <1>1. LockInv => TypeOK
    BY DEF LockInv
  <1> QED
    BY InvariantHolds, <1>1, PTL

\* Threshold failures recorded inside one window have locked the account, however
\* the logins that cause them overlap and however long they take
\* (RecordFailedLogin's one UPDATE).
THEOREM BurstsLock == Spec => []BurstLocks
  <1>1. LockInv => BurstLocks
    BY LockAssumption DEF LockInv, TypeOK, BurstInv, BurstLocks, Old
  <1> QED
    BY InvariantHolds, <1>1, PTL

\* When a login takes less than a tick, attempts made during the lock do not
\* extend it (the lock check of Login on its copy of the row).
THEOREM LockNotProlonged == Spec => LockIsNotProlonged
  <1>1. Init => CopyInv
    <2> SUFFICES ASSUME Init, NEW r \in Requests PROVE CopyFits(r)
      BY DEF CopyInv
    <2>1. request[r] = Idle
      BY DEF Init
    <2> QED
      BY <2>1 DEF CopyFits, Idle
  <1>2. LockInv => TypeOK
    BY DEF LockInv
  <1>3. TypeOK /\ CopyInv /\ [Next]_vars =>
           [Quick /\ 0 < lockLeft /\ lockLeft < LockDuration - 1 => lockLeft' <= lockLeft]_vars
    BY StepDoesNotProlong
  <1> QED
    BY InvariantHolds, CopyKept, <1>1, <1>2, <1>3, PTL DEF Spec, LockIsNotProlonged
=============================================================================
