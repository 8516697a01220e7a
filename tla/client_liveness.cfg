SPECIFICATION FairSpec
CONSTANTS
  Ids = {1, 2}
  NoId = NoId
  Capacities = {3}
  NoCapacity = NoCapacity
  Replies <- GoodReply
  DialOutcomes = {"connecting"}
  Faults = {"refused"}
  RefiresOwnPointer = FALSE
  ShutdownCalled = FALSE
  MaxBeats = 1
  MaxRetries = 1
  MaxOrphans = 1
INVARIANTS
  AlwaysPolling
PROPERTIES
  SignInCompletes
  SignOutCompletes
  MessageEnds
CHECK_DEADLOCK FALSE
