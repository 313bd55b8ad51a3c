\* Six characters printed, packets of up to three, a queue of two, either kind
\* of BMC; input of three characters in chunks of two with one retransmission,
\* at most two packets and two answers under way; three handshakes.
SPECIFICATION ConsolesSpec
CONSTANTS
    CharAt <- Printed
    LastSequence = 3
    MaxData = 3
    QueueLimit = 2
    MaxInFlight = 3
    ChunkSize = 2
    MaxRetransmissions = 1
    MaxInput = 3
    MaxControls = 1
    MaxUnderWay = 2
    MaxSessions = 3
    MaxOutput = 2
    MaxUnrelated = 2
INVARIANTS
    ConsolesTypeOK
    OutputKept
    HonestNotRefused
    InputInOrder
    ReportExact
    CloseTruthful
    OrphansTold
PROPERTIES
    ImplementsStream
    PrintedIsRead
    InputCallsEnd
CHECK_DEADLOCK FALSE
