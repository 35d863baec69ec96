CONSTANTS
  Datagrams <- SomeDatagrams
  BufferSize = 10
  Null = Null
  Leftovers <- SomeLeftovers
  MaxArrived = 3
SPECIFICATION MCSpec
CHECK_DEADLOCK FALSE
INVARIANT SameTypeIsReplaced
