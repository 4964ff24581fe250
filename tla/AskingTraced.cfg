SPECIFICATION Spec
CONSTANT MaxCalls = 3
CHECK_DEADLOCK FALSE
INVARIANT TracedAfterGuard
