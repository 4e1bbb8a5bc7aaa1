SPECIFICATION TransportSpec
CONSTANTS
  a = a
  ctl = ctl
  desk = desk
  lap = lap
  nobody = nobody
  n1 = n1
  n2 = n2
  Agents = {a}
  Nodes = {ctl, desk, lap}
  Controller = ctl
  Unpaired = nobody
  Nonces = {n1, n2}
  Hellos <- MCHellos
  Limit <- MCLimit
  Capabilities <- MCCapabilities
  Capacity = 1
  MaxConnections = 3
  HeartbeatInterval = 5
  OperationTimeout = 10
  MaxLatency = 1
  MaxBusy = 2
  MaxHappenings = 2
SYMMETRY MCSymmetry
INVARIANTS EndsAgree AdmittedOnce TimelyConnectionsLast
CHECK_DEADLOCK FALSE
