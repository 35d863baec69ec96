CONSTANTS
  Bytes = {"x", "r", "n"}
  Capacity = 4
  MaxPush = 2
  Pushes <- AllPushes
  Delimiter <- CRLF
  BufSize = 4
  Pulls = {1, 3}
SPECIFICATION Spec
INVARIANTS
  TypeOK
PROPERTIES
  ImplementsQueue
  DelimitedOrDrained
