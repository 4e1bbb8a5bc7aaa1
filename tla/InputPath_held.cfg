SPECIFICATION FairSpec
CONSTANTS
  left = left
  right = right
  Local = local
  Nodes = {local, left}
  Sizes = {1}
  MaxBatch = 1
  MaxEpoch = 2
  MaxKeys = 1
  MaxSequence = 1
  MaxSessions = 1
  MaxDisplayChanges = 0
  MaxDisplaySessions = 1
PROPERTY DisconnectReleasesInput
CHECK_DEADLOCK FALSE
