SPECIFICATION FairSpec
CONSTANTS
    None = None
    Events = {e1, e2}
    Dispatchers = {d1}
    States <- CheckedStates
    Limit = 2
    MaxAttempts = 1
PROPERTIES PendingIsClaimed
CHECK_DEADLOCK FALSE
