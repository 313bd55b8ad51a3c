\* Identical requests of every routing class on a ring of six numbers.
CONSTANTS
    NSeq = 6
    MaxOps = 3
    MaxLayers = 2
    Requests <- AllRequests
    NoReply = NoReply
    NoPending = NoPending
SPECIFICATION Spec
INVARIANTS
    TypeOK
    SequencesNeverReused
    OnlyCurrentReplies
    DeliveredAfterAllAcks
    ReservationHonoured
PROPERTY
    ImplementsContract
