----------------------------- MODULE LoginLock -----------------------------
(***************************************************************************)
(* The brute-force lock of one account                                     *)
(* (app/application/auth/command/login.go, RecordFailedLogin and           *)
(* ResetFailedLogin of app/infrastructure/sqlite/user/repository.go).      *)
(*                                                                         *)
(* Login runs outside the bus transaction.  It reads the user row, spends  *)
(* the bcrypt time, decides on its copy, and writes with statements of its *)
(* own; any number of logins for the account overlap.  Instants are kept   *)
(* as distances from now, which Tick changes.                              *)
(***************************************************************************)
EXTENDS Integers, Sequences

CONSTANTS
    Requests,
    Threshold, Window, LockDuration,  \* loginLockThreshold, -Window, -Duration
    Quick                             \* TRUE when a login takes less than a tick

ASSUME LockAssumption ==
    /\ Threshold \in Nat \ {0, 1}
    /\ Window \in Nat /\ LockDuration \in Nat \ {0}
    /\ Quick \in BOOLEAN

VARIABLES
    attempts,   \* failed_login_attempts
    since,      \* age of last_failed_login_at; NULL counts as older than Window
    lockLeft,   \* time to locked_until, 0 when it has passed or is NULL
    request,    \* logins in flight, with their copy of locked_until
    \* History, read by the properties only:
    failures    \* ages of the failures recorded since the last lock or reset

userRow == <<attempts, since, lockLeft>>
vars == <<userRow, request, failures>>

Old == Window + 1
Older(age) == IF age < Old THEN age + 1 ELSE Old
Idle == [pc |-> "idle", right |-> FALSE, left |-> 0, young |-> TRUE]

Goto(r, pc) == request' = [request EXCEPT ![r].pc = pc]
Leave(r) == request' = [request EXCEPT ![r] = Idle]

---------------------------------------------------------------------------
(* Steps of LoginHandler.Handle for a nickname that exists. *)

\* FindByNickname, and whether the password will turn out right.
Read(r) ==
    /\ request[r].pc = "idle"
    /\ \E right \in BOOLEAN :
         request' = [request EXCEPT ![r] = [pc |-> "verify", right |-> right,
                                            left |-> lockLeft, young |-> TRUE]]
    /\ UNCHANGED <<userRow, failures>>

\* The lock check, on the copy of the row.
BadLocked(r) == request[r].right /\ request[r].left > 0
Locked(r) == request[r].left > 0

\* A locked account gets the same answer whatever the password; otherwise the
\* failure is recorded, or the success goes on to clear the counter.
Decide(r) ==
    /\ request[r].pc = "verify"
    /\ \/ Locked(r) /\ Leave(r)
       \/ ~Locked(r) /\ request[r].right /\ Goto(r, "reset")
       \/ ~Locked(r) /\ ~request[r].right /\ Goto(r, "record")
    /\ UNCHANGED <<userRow, failures>>

\* The CASE branches of RecordFailedLogin's UPDATE.
BadStale == since >= Window
Stale == since > Window
BadCrosses == attempts + 1 > Threshold
Crosses == attempts + 1 >= Threshold
Locks == ~Stale /\ Crosses

\* One UPDATE, whose WHERE is the id alone: an account that has been locked
\* since the copy was read counts the failure all the same.
Record(r) ==
    /\ request[r].pc = "record"
    /\ attempts' = IF Stale THEN 1 ELSE IF Crosses THEN 0 ELSE attempts + 1
    /\ since' = 0
    /\ lockLeft' = IF Locks THEN LockDuration ELSE lockLeft
    /\ failures' = IF Locks THEN << >> ELSE LET all == Append(failures, 0) IN
                   IF Len(all) > Threshold THEN Tail(all) ELSE all
    /\ Leave(r)

\* The handler drops the error of either write.
RecordFails(r) ==
    /\ request[r].pc = "record"
    /\ Leave(r)
    /\ UNCHANGED <<userRow, failures>>

Reset(r) ==
    /\ request[r].pc = "reset"
    /\ attempts' = 0 /\ lockLeft' = 0
    /\ failures' = << >>
    /\ Goto(r, "issue")
    /\ UNCHANGED since

ResetFails(r) ==
    /\ request[r].pc = "reset"
    /\ Goto(r, "issue")
    /\ UNCHANGED <<userRow, failures>>

\* tokens.Save, or its error: either way the request is over.
Issue(r) ==
    /\ request[r].pc = "issue"
    /\ Leave(r)
    /\ UNCHANGED <<userRow, failures>>

\* Every instant moves one unit into the past.
Tick ==
    /\ Quick => \A r \in Requests : request[r].young
    /\ since' = Older(since)
    /\ lockLeft' = IF lockLeft > 0 THEN lockLeft - 1 ELSE 0
    /\ request' = [r \in Requests |->
                     [request[r] EXCEPT !.left = IF @ > 0 THEN @ - 1 ELSE 0,
                                        !.young = Quick => request[r].pc = "idle"]]
    /\ failures' = [i \in DOMAIN failures |-> Older(failures[i])]
    /\ UNCHANGED attempts

Init ==
    /\ attempts = 0 /\ since = Old /\ lockLeft = 0
    /\ request = [r \in Requests |-> Idle]
    /\ failures = << >>

Proceed(r) ==
    \/ Decide(r) \/ Record(r) \/ RecordFails(r) \/ Reset(r) \/ ResetFails(r) \/ Issue(r)
Next == Tick \/ \E r \in Requests : Read(r) \/ Proceed(r)

Spec == Init /\ [][Next]_vars

\* The clock runs, however many logins arrive, and a login in flight goes on.
FairSpec == Spec /\ WF_vars(Tick) /\ \A r \in Requests : WF_vars(Proceed(r))

---------------------------------------------------------------------------
(* Properties. *)

\* The row and the requests are well formed; in particular the counter is
\* always below the threshold: reaching it locks the account and clears it.
TypeOK ==
    /\ attempts \in 0 .. Threshold - 1
    /\ since \in 0 .. Old
    /\ lockLeft \in 0 .. LockDuration
    /\ request \in [Requests -> [pc : {"idle", "verify", "record", "reset", "issue"},
                                 right : BOOLEAN, left : 0 .. LockDuration, young : BOOLEAN]]

\* Threshold failures recorded inside one window lock the account, however the
\* logins that cause them overlap.  (A failure whose write is lost is not
\* recorded; a successful login in between starts a new count.)
BurstLocks == Len(failures) >= Threshold => failures[1] > Window

\* Attempts made during the lock do not extend it, as docs/guides/auth.md:109
\* has it: once the logins that overlapped the lock's start are over, time to
\* locked_until only falls.  Those logins, deciding on a copy of the row from
\* before the lock, can still record the failures of a second one.
LockIsNotProlonged ==
    [][Quick /\ 0 < lockLeft /\ lockLeft < LockDuration - 1 => lockLeft' <= lockLeft]_vars

\* Failed logins can never keep an account locked for good: the lock ends,
\* since attempts made during the lock do not extend it.  Logins that take
\* longer than a tick could, each of them deciding on a copy that has expired.
LockEnds == []<>(lockLeft = 0)
=============================================================================
