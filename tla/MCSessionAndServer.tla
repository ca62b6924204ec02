------------------------ MODULE MCSessionAndServer ------------------------
(* Values of the constants of SessionAndServer for the run. *)
EXTENDS SessionAndServer

CONSTANTS f1
OneFetch == {f1}
ThreeTokens == 1 .. 3
TwoCalls == 1 .. 2
=============================================================================
