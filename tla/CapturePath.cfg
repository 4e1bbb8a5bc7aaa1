SPECIFICATION FairPathSpec
CONSTANTS
  Edges = {e1}
  Keys = {c, x}
  Motion = motion
  NoEdge = noEdge
  CommandCapacity = 14
  EventCapacity = 16
  MaxHappenings = 4
  Local = local
  Peers = {p}
  ControlKeys = {c}
  AltKeys = {c}
  Escape = x
INVARIANTS
  KeysReleasedBeforeGivingUp
  ReturnsOnlyOnShortcut
PROPERTY InputComesBack
CHECK_DEADLOCK FALSE
