SPECIFICATION FairSpec
CONSTANTS
  Ids = {1, 2}
  Values = {}
  NoValue = NoValue
  NoPeer = NoPeer
  MaxWritten = 2
  MaxPosted = 2
INVARIANTS
  TypeOK
  ConversationFits
  LoginOffered
  QueuePumped
PROPERTIES
  ImplementsChannel
  EverythingSent
CHECK_DEADLOCK FALSE
