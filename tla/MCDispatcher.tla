---------------------------- MODULE MCDispatcher ----------------------------
(* Dispatcher on two clients with different intervals, time in single ticks. *)
EXTENDS Dispatcher, TLC

CONSTANTS a, b

TwoClients   == {a, b}
OneTick      == {1}
Intervals    == a :> 2 @@ b :> 5
=============================================================================
