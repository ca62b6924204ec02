----------------------------- MODULE MCJobQueue -----------------------------
(***************************************************************************)
(* Instances of JobQueue for the model checker.                            *)
(***************************************************************************)
EXTENDS JobQueue

CONSTANTS w1, w2, p1, p2, j1, j2, j3

\* Two slots of one process, or one slot in each of two processes.
OneProcess  == [w \in Worker |-> p1]
TwoProcesses == [w \in Worker |-> IF w = w1 THEN p1 ELSE p2]

\* Every binary has every handler, or the second one lacks that of j2.
AllHandled == [p \in Process |-> Job]
Skewed == [p \in Process |-> IF p = p1 THEN Job ELSE Job \ {j2}]

\* The first job may be retried once, the others never; or none ever.
OneRetry == [j \in Job |-> IF j = j1 THEN 1 ELSE 0]
NoRetry == [j \in Job |-> 0]

\* Independent jobs, or j2 enqueued by the handler of j1 (and j3 by commands).
Independent == [j \in Job |-> {}]
Cascade == [j \in Job |-> IF j = j1 THEN {j2} ELSE {}]

=============================================================================
