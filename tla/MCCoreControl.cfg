CONSTANTS
  CallIds = {c1}
  StreamCounts = {1}
  CSeqs = {1}
  ChannelModulus = 2
  NoDialogue = NoDialogue
  PortMin = 4000
  PortMax = 4008
  FirstBoundPort = 3999
  BoundPorts = 4
  FirstSessionId = 5
  IdModulus = 8
  NoSession = NoSession
  NoCallId = NoCallId
  Streams = {s1, s2}
  ControlMethods = {"INFO_CALLCOUNT", "UNHANDLED", "CALL_ANSWER", "RECORD_STOP"}
  NullStream = NullStream
  MaxLogged = 6
  MaxRequests = 3
  MaxClosed = 1
SPECIFICATION MCSpec
SYMMETRY Symmetry
CHECK_DEADLOCK FALSE
INVARIANTS
  EventsReachOneController
