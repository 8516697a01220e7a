CONSTANT MaxAsks = 1
SPECIFICATION Spec
INVARIANT PollsThePollServer
CHECK_DEADLOCK FALSE
