SPECIFICATION Spec
CONSTANTS
  Ids = {p1, p2}
  Values <- AnySlot
  NoValue = NoValue
  SystemCapacity = 0
  Window = FALSE
  AutoCall = FALSE
  IceEvents = {}
  PeersLeave = TRUE
  SessionEnds = TRUE
  MessagesLost = TRUE
  MaxWritten = 3
PROPERTIES
  ImplementsChannel
  PumpKept
CHECK_DEADLOCK FALSE
