\* Four session sequence numbers each way, three counted datagrams, two seen.
CONSTANTS
    NSeq = 3
    MaxSequence = 4
    MaxUnrelated = 3
    SeenLimit = 2
SPECIFICATION FairSpec
INVARIANTS
    TypeOK
    ConsumedOnce
    SentOnce
    DefiniteFailure
    ReadsBounded
    NothingLeftPending
PROPERTY
    CallsEnd
