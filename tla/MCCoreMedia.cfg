CONSTANTS
  CallIds = {c1, c2}
  StreamCounts = {1, 2}
  CSeqs = {1}
  ChannelModulus = 3
  NoDialogue = NoDialogue
  PortMin = 4000
  PortMax = 4008
  FirstBoundPort = 3999
  BoundPorts = 4
  FirstSessionId = 5
  IdModulus = 8
  NoSession = NoSession
  NoCallId = NoCallId
  Streams = {s1}
  ControlMethods = {"CALL_ANSWER", "RECORD_START"}
  NullStream = NullStream
  MaxLogged = 6
  MaxRequests = 3
  MaxClosed = 0
SPECIFICATION MCSpec
SYMMETRY Symmetry
CHECK_DEADLOCK FALSE
INVARIANTS
  TypeOK
  AnswersCarryOwnSession
  ConnectedOnlyOnRequest
  OutcomesMatchRequests
PROPERTY RecordingsNameOwnSession
