SPECIFICATION Spec
CONSTANTS
    u1 = u1
    None = None
    Users = {u1}
    Devices = {d1}
    Owner <- MCOwner
    Requests = {r1, r2}
    MaxDevicesPerUser = 5
    TTL = 1
    MaxToken = 3
    MaxPassword = 0
    MaxClock = 2
SYMMETRY Symmetry
INVARIANTS
    SingleRotation
    RevocationBitesWithinOneRotation
    CacheNeverCondemns
    RotationWithinLifetime
PROPERTIES
    ImplementsSingleUse
