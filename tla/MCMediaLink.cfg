CONSTANTS
  NoLink = NoLink
  MaxDescriptors = 3
  Numbers <- SomeNumbers
  MaxAsked = 3
  MaxLives = 2
  MaxStops = 1
SPECIFICATION MCFairSpec
CHECK_DEADLOCK FALSE
INVARIANTS
  AnswersAreOwn
  CoreEndsAsBuilt
  OneLinkPerLife
PROPERTIES
  LinkComesUp
  OrderlyRequestsAnswered
