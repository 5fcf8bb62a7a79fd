SPECIFICATION MCSpec
INVARIANT AvailableOnceDone
CHECK_DEADLOCK FALSE
