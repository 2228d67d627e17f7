SPECIFICATION AccessSpec
CONSTANTS
    Mine = {d1, d2}
    Yours = {d3}
    Devices <- AllDevices
    Owner <- OwnerOf
    TTLMinutes = 1
    Hour = 2
    SessionTTL = 3
    MaxClock = 6
SYMMETRY Symmetry
INVARIANTS
    RevokedAccessEnds
    SessionOutlivesAccess
