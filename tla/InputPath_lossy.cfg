SPECIFICATION PathSpec
CONSTANTS
  left = left
  right = right
  Local = local
  Nodes = {local, left}
  Sizes = {1}
  MaxBatch = 1
  MaxEpoch = 4
  MaxKeys = 2
  MaxSequence = 2
  MaxSessions = 2
  MaxDisplayChanges = 1
  MaxDisplaySessions = 1
INVARIANTS InjectedOnceInOrder HeldFromOneEpoch AcknowledgedAfterApplication
  NewestConnectionInUse ControlledOnlyWhenFocused
CHECK_DEADLOCK FALSE
