------------------------ MODULE MCControllerSession ------------------------
(* TLC instance of ControllerSession: a controller and two agents.         *)
EXTENDS ControllerSession, TLC

CONSTANTS left, right

AgentSymmetry == Permutations({left, right})

=============================================================================
