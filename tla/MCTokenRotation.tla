-------------------------- MODULE MCTokenRotation --------------------------
(* Values of the constants of TokenRotation for the runs. *)
EXTENDS TokenRotation, TLC

CONSTANTS u1, b1, t1, t2, t3, c1, c2, c3

OneUser == {u1}
OneBrowser == {b1}
ThreeTokens == {t1, t2, t3}
TwoCalls == {c1, c2}
ThreeCalls == {c1, c2, c3}

AllEvents == {"lose", "expire", "logout", "delete_user"}
LogoutOnly == {"logout"}

\* Tokens and calls are interchangeable: nothing tells one from another but
\* the steps taken with it.  Browsers are not (Idle names one).
Symmetry == Permutations(Tokens) \cup Permutations(Calls)
=============================================================================
