SPECIFICATION Spec
CONSTANTS
  Ids = {p1, p2}
  Values <- AnySlot
  NoValue = NoValue
  SystemCapacity = 2
  Window = TRUE
  AutoCall = TRUE
  IceEvents <- IceChanges
  PeersLeave = TRUE
  SessionEnds = TRUE
  MessagesLost = FALSE
  MaxWritten = 1
SYMMETRY Alike
INVARIANTS
  TypeOK
  SlotsConserved
  StreamingIsCounted
CHECK_DEADLOCK FALSE
