CONSTANTS
  CallIds = {c1, c2}
  StreamCounts = {0, 1, 2, 3}
  PortMin = 4000
  PortMax = 4008
  FirstBoundPort = 3999
  BoundPorts = 4
  FirstSessionId = 2
  IdModulus = 4
  NoSession = NoSession
  MaxSessions = 5
  MaxStreams = 10
SPECIFICATION MCSpec
SYMMETRY Symmetry
CHECK_DEADLOCK FALSE
INVARIANTS
  TypeOK
  PortsRepeatOnlyAfterPool
  FirstPortsAreBound
  SessionIdsDistinct
