CONSTANTS
  Null = Null
  Leftovers <- SomeLeftovers
  Connections = {c1}
  Messages <- SomeMessages
  Capacity = 6
  BufSize = 4
  ReadSize = 5
  Memories <- SomeMemories
  MaxSent = 3
  MaxCuts = 3
SPECIFICATION MCSpec
CHECK_DEADLOCK FALSE
INVARIANTS
  RequestsSurviveCuts
  SdpIsFirstPortion
  DeliveredOnceInOrder
PROPERTY LongHeaderIsTheLast
