---------------------------- MODULE MCCommandBus ----------------------------
(* Values of the constants of CommandBus for the run. *)
EXTENDS CommandBus, TLC

CONSTANTS c1, c2, c3
ThreeCommands == {c1, c2, c3}
Symmetry == Permutations(Commands)
=============================================================================
