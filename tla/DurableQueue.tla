---------------------------- MODULE DurableQueue ----------------------------
(***************************************************************************)
(* What the job queue promises, without the worker: a job that was         *)
(* submitted is pending until one atomic step either commits its handler's *)
(* writes, together with the jobs it enqueued, or gives it up for good.    *)
(* Crashes, retries, leases and slots are not to be seen from here.        *)
(***************************************************************************)
EXTENDS Integers

CONSTANTS
    Job,        \* the jobs that may ever be submitted
    FollowUps   \* the jobs a job's handler may enqueue

VARIABLES
    state,      \* absent, pending, done or dead
    effects     \* how often the handler's writes are in the database

vars == <<state, effects>>

Absent == {j \in Job : state[j] = "absent"}

\* The jobs nobody's handler enqueues: only commands and events submit them.
Root == {j \in Job : \A k \in Job : j \notin FollowUps[k]}

Init ==
    /\ state = [j \in Job |-> "absent"]
    /\ effects = [j \in Job |-> 0]

\* A producer's transaction commits with the jobs it enqueued.
Submit(S) ==
    /\ S \subseteq Root \cap Absent
    /\ state' = [j \in Job |-> IF j \in S THEN "pending" ELSE state[j]]
    /\ UNCHANGED effects

\* The handler's transaction commits, completion and follow-up jobs included.
Perform(j, S) ==
    /\ state[j] = "pending"
    /\ S \subseteq FollowUps[j] \cap Absent
    /\ state' = [k \in Job |-> CASE k = j -> "done"
                                 [] k # j /\ k \in S -> "pending"
                                 [] k # j /\ k \notin S -> state[k]]
    /\ effects' = [effects EXCEPT ![j] = @ + 1]

\* The last failure is recorded.
GiveUp(j) ==
    /\ state[j] = "pending"
    /\ state' = [state EXCEPT ![j] = "dead"]
    /\ UNCHANGED effects

Next ==
    \/ \E S \in SUBSET Job : Submit(S)
    \/ \E j \in Job : GiveUp(j) \/ \E S \in SUBSET Job : Perform(j, S)

Spec == Init /\ [][Next]_vars

=============================================================================
