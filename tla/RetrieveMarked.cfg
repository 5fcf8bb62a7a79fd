SPECIFICATION MCSpec
CONSTANT NoShare = NoShare
INVARIANT MarkedNotUsed
CHECK_DEADLOCK FALSE
