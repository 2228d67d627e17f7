SPECIFICATION Spec
CONSTANTS
    u1 = u1
    None = None
    Users = {u1}
    Devices = {d1, d2}
    Owner <- MCOwner
    Requests = {r1, r2}
    MaxDevicesPerUser = 5
    TTL = 1
    MaxToken = 2
    MaxPassword = 1
    MaxClock = 0
SYMMETRY Symmetry
INVARIANTS
    SessionInv
PROPERTIES
    RevocationSticks
    PasswordChangeCutsOff
