SPECIFICATION FairSpec
CONSTANTS
    Requests = {r1, r2, r3, r4}
    Limit = 3
    Window = 2
INVARIANT
    AtMostLimitPerWindow
PROPERTY
    WindowEnds
