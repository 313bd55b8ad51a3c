SPECIFICATION Spec
CONSTANTS Ring = 2  Requests = 2  Frames = 2  Foreign = 0  Openings = 2
INVARIANT ReopenedIsFresh
CHECK_DEADLOCK FALSE
