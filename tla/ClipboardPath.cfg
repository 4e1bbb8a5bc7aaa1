SPECIFICATION FairSpec
CONSTANTS
  left = left
  local = local
  Local = local
  Nodes = {local, left}
  MaxCopies <- AgentCopiesTwice
  MaxSessions = 1
  MaxFailures = 1
  MaxLosses = 1
INVARIANTS AcknowledgedAfterWrite NothingIsSentBack SessionsAgree
PROPERTY NewestIsAcknowledged
CHECK_DEADLOCK FALSE
