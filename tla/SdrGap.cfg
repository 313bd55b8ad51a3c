\* Three records of a header and no body, read whole; two changes.
SPECIFICATION Spec
CONSTANTS
    Header = 2
    Chunk = 4
    MaxOffset = 255
    Bodies = {0}
    Limits = {4}
    Room = 3
    Edits = 2
INVARIANT EndMeansAll
CHECK_DEADLOCK FALSE
