SPECIFICATION Spec
CONSTANTS
  Ids = {1}
  NoId = NoId
  Capacities = {3}
  NoCapacity = NoCapacity
  Replies <- AnyReply
  DialOutcomes = {"connecting"}
  Faults = {"refused", "lost"}
  RefiresOwnPointer = TRUE
  ShutdownCalled = TRUE
  MaxBeats = 1
  MaxRetries = 1
  MaxOrphans = 1
INVARIANTS
  TypeOK
  NoStaleRequest
  IdentifiedRequests
  QuietWhileSigning
  SignOutAwaitsSignOut
PROPERTIES
  HeartbeatSurvives
CHECK_DEADLOCK FALSE
