SPECIFICATION Spec
CONSTANT Events = 2
INVARIANT ResumedAfterEvent
CHECK_DEADLOCK FALSE
