SPECIFICATION FairSpec
CONSTANTS
    Members = {m1, m2}
    Kinds = {"valid", "garbled"}
    DLQOutcomes <- Unreliable
    MaxRetries = 1
    MaxLog = 2
    MaxSessions = 2
INVARIANTS ConsumerInv
PROPERTIES OffsetFallsOnlyAcrossSessions ImplementsDelivery NoMessageBlocks CloseReturns
CHECK_DEADLOCK FALSE
