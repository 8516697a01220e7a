SPECIFICATION Spec
CONSTANTS
  Ids = {p1, p2}
  Values <- AnySlot
  NoValue = NoValue
  SystemCapacity = 2
  Window = FALSE
  AutoCall = FALSE
  IceEvents <- IceChanges
  PeersLeave = TRUE
  SessionEnds = FALSE
  MessagesLost = FALSE
  MaxWritten = 0
PROPERTIES
  PublishesRemaining
CHECK_DEADLOCK FALSE
