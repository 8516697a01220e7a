SPECIFICATION Spec
CONSTANTS
  Ids = {1, 2}
  NoId = NoId
  Capacities = {3}
  NoCapacity = NoCapacity
  Replies <- AnyReply
  DialOutcomes = {"connecting", "closed"}
  Faults = {"refused", "lost"}
  RefiresOwnPointer = FALSE
  ShutdownCalled = FALSE
  MaxBeats = 0
  MaxRetries = 1
  MaxOrphans = 1
INVARIANTS
  ConnectionsFitState
  IdOnlyInSession
PROPERTIES
  OneIdPerSession
  NoReturnFromSignOut
  ImplementsSession
CHECK_DEADLOCK FALSE
