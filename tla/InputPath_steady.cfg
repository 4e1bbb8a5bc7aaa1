SPECIFICATION FairSteadySpec
CONSTANTS
  left = left
  right = right
  Local = local
  Nodes = {local, left, right}
  Sizes = {1}
  MaxBatch = 2
  MaxEpoch = 3
  MaxKeys = 4
  MaxSequence = 4
  MaxSessions = 2
  MaxDisplayChanges = 0
  MaxDisplaySessions = 1
INVARIANTS SessionsAgree InjectedWhereFocused EventsKeepTheirEpoch
PROPERTIES DeliversInput KeysAreNeverDropped KeysAreSettled
CHECK_DEADLOCK FALSE
