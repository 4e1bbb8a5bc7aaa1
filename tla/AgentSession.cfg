SPECIFICATION AgentSessionSpec
CONSTANTS
  left = left
  Local = local
  Nodes = {local, left}
  Sizes = {1, 2}
  MaxBatch = 1
  MaxEpoch = 3
  MaxSequence = 3
INVARIANTS ControlledInNewestEpoch PendingBatchIsNext
PROPERTY LosingControlReleasesInput
CHECK_DEADLOCK FALSE
