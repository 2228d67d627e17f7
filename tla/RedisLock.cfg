SPECIFICATION LockSpec
CONSTANTS
    Clients = {c1, c2, c3}
    TTL = 2
    MaxToken = 4
INVARIANTS
    ExclusiveWithinLease
