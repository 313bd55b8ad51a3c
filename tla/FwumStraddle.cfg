SPECIFICATION Spec
CONSTANTS
    Length = 3  Page = 4  Capacity = 3
INVARIANT PendingRetried
CHECK_DEADLOCK FALSE
