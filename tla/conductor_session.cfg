SPECIFICATION FairSpec
CONSTANTS
  Ids = {p1, p2}
  Values <- AnySlot
  NoValue = NoValue
  SystemCapacity = 2
  Window = FALSE
  AutoCall = FALSE
  IceEvents <- IceChanges
  PeersLeave = TRUE
  SessionEnds = FALSE
  MessagesLost = FALSE
  MaxWritten = 2
INVARIANTS
  NothingOutdatedIsSent
  NothingDropped
  QueuePumped
PROPERTIES
  EverythingSent
CHECK_DEADLOCK FALSE
