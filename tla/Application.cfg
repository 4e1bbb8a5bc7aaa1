SPECIFICATION FairAppSpec
CONSTANTS
  p = p
  q = q
  c = c
  d = d
  Peers = {p, q}
  Certificates = {c, d}
  Missing = Missing
  Partial = Partial
  MaxPeers = 2
  Configs <- MCConfigs
  Disks <- MCDisks
  NoConfig = NoConfig
  Local = Local
  CommandCapacity = 4
  EventCapacity = 24
  MaxAttempts = 2
  MaxHappenings = 2
  MaxOperations = 2
INVARIANTS OneNodePerCertificate StateFollowsWorker RemovedPeersAreCutOff
PROPERTIES AgentComesBack
