---------------------------- MODULE MCLoginLock ----------------------------
(* Values of the constants of LoginLock for the runs: five-minute ticks, so  *)
(* that Window = 2 and LockDuration = 3 are the ten and fifteen minutes.     *)
EXTENDS LoginLock, TLC

CONSTANTS r1, r2, r3

ThreeRequests == {r1, r2, r3}
Symmetry == Permutations(Requests)
=============================================================================
