SPECIFICATION Spec
CONSTANTS
  Local = local
  Nodes = {local, p, q}
  p = p
  q = q
  Orders <- MCOrders
  Layouts <- MCLayouts
  Coordinates = {0, 1}
  DragTargets <- MCDragTargets
  CoordinateLimit = 8
  MaxChanges = 2
INVARIANT EditorShowsRunningTopology
CHECK_DEADLOCK FALSE
