SPECIFICATION Spec
CONSTANTS
  left = left
  right = right
  Local = local
  Nodes = {local, left, right}
  Sizes = {1, 2}
  MaxBatch = 2
  MaxEpoch = 4
  MaxKeys = 3
SYMMETRY AgentSymmetry
INVARIANTS TypeOK DeliveryWindow PointerOnFocusedDesktop
PROPERTY FocusChangeIsAnnounced
CHECK_DEADLOCK FALSE
