--------------------------- MODULE MCApplication ---------------------------
(* Two peers: both on a controller's topology, and one an agent's          *)
(* controller.                                                             *)
EXTENDS Application
CONSTANTS p, q, c, d

MCConfigs ==
  {[role |-> "Controller", listen |-> 1, peers |-> {p, q}],
   [role |-> "Controller", listen |-> 1, peers |-> {p}],
   [role |-> "Agent", listen |-> 0, peers |-> {p}]}
MCDisks ==
  {None, [None EXCEPT ![p] = c, ![q] = d]}

=============================================================================
