--------------------------- MODULE MCRateLimiter ---------------------------
(* Values of the constants of RateLimiter for the run. *)
EXTENDS RateLimiter, TLC

CONSTANTS r1, r2
TwoRequests == {r1, r2}
ShortLongAndBad == {[tokens |-> 3, per |-> 4], [tokens |-> 2, per |-> 7], [tokens |-> 0, per |-> 4]}
=============================================================================
