---------------------------- MODULE MCUserAdmin ----------------------------
(* Values of the constants of UserAdmin for the run. *)
EXTENDS UserAdmin, TLC

CONSTANTS u1, u2, u3, n1, n2, n3, c1, c2
ThreeUsers == {u1, u2, u3}
ThreeNames == {n1, n2, n3}
TwoCalls == {c1, c2}
Symmetry == Permutations(Users) \cup Permutations(Names) \cup Permutations(Calls)
=============================================================================
