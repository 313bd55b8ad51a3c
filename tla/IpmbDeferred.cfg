\* Shows that a deferred final reply can outlive the last acknowledgement.
CONSTANTS
    NSeq = 5
    MaxOps = 1
    MaxLayers = 2
    Requests <- Bridged
    NoReply = NoReply
    NoPending = NoPending
SPECIFICATION Spec
INVARIANT DeferredWaitsForAck
