SPECIFICATION Spec
CONSTANTS
    Members = {m1}
    Kinds = {"valid"}
    DLQOutcomes <- Missing
    MaxRetries = 1
    MaxLog = 2
    MaxSessions = 1
INVARIANTS CommittedIsSafe
CHECK_DEADLOCK FALSE
