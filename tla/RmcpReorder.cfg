CONSTANTS
    NSeq = 2
    MaxSequence = 3
    MaxUnrelated = 2
    SeenLimit = 2
SPECIFICATION Spec
PROPERTY
    ReorderedRejected
