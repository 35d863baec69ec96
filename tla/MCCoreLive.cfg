CONSTANTS
  CallIds = {c1, c2}
  StreamCounts = {1}
  CSeqs = {1}
  ChannelModulus = 3
  NoDialogue = NoDialogue
  PortMin = 4000
  PortMax = 4008
  FirstBoundPort = 3999
  BoundPorts = 4
  FirstSessionId = 5
  IdModulus = 8
  NoSession = NoSession
  NoCallId = NoCallId
  Streams = {s1}
  ControlMethods = {"SYSTEM_LOGIN", "CALL_ANSWER"}
  NullStream = NullStream
  MaxEvents = 2
SPECIFICATION MCFairSpec
CHECK_DEADLOCK FALSE
PROPERTY NotifiedCallsAreAnswered
