---------------------------- MODULE MCTransport ----------------------------
(* An agent whose frames are smaller than the controller's.  Its own name, *)
(* the one it is known by and the one it knows the controller by are any   *)
(* of three.                                                               *)
EXTENDS Transport, TLC
CONSTANTS a, ctl, desk, lap, nobody, n1, n2

MCHellos == Nodes \X Nonces
MCLimit == [owner \in {a, ctl} |-> IF owner = a THEN 1 ELSE 2]
MCCapabilities ==
  [owner \in {a, ctl} |->
     IF owner = ctl THEN {"clipboard", "keyboard"} ELSE {"clipboard", "pointer"}]

MCSymmetry == Permutations({desk, lap})
=============================================================================
