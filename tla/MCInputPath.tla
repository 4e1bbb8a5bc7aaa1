---------------------------- MODULE MCInputPath ----------------------------
(* TLC instances of InputPath: a controller with one agent or with two.    *)
EXTENDS InputPath

CONSTANTS left, right

=============================================================================
