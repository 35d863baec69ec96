SPECIFICATION Spec
CHECK_DEADLOCK FALSE
CONSTANTS
  MaxInt = 1
  MaxUInt = 3
  MaxLargestUInt = 7
  MaxText = 2
  StreamModulus = 3
  PortModulus = 4
  MaxBodyLength = 150
  MaxLines = 4
  MaxLine = 25
  Letters = {"v", "f", "t", "i"}
INVARIANTS
  MediaMessagesSurvive
  PartsNeverBuild
  ChannelsSurviveTheController
  SdpStreamsSurvive
  RequestsAreEchoed
