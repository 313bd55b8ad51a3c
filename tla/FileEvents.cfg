SPECIFICATION Spec
CONSTANTS Ring = 2  Requests = 3  Frames = 2  Foreign = 1  Openings = 1
PROPERTY OnlyResponsesRead
CHECK_DEADLOCK FALSE
