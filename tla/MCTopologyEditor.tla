-------------------------- MODULE MCTopologyEditor --------------------------
(* An instance of TopologyEditor: desktops of one monitor, and one of two  *)
(* monitors that leaves a corner of its outline empty.                     *)
EXTENDS TopologyEditor

MCLayouts ==
  {Single(1, 1), Single(1, 3),
   Desktop(2, 2, <<Rect(0, 0, 1, 2), Rect(1, 1, 1, 1)>>)}

CONSTANTS p, q

MCOrders == {<<Local>>, <<p, Local>>, <<Local, p, q>>}

MCDragTargets == {-2, 0, 1}

=============================================================================
