CONSTANT MaxAsks = 2
SPECIFICATION FairSpec
INVARIANTS TypeOK ButtonNeedsAuthorisation CallbacksMeetTheirState AuthenticatingIsAwaited
PROPERTY LoginCompletes
CHECK_DEADLOCK FALSE
