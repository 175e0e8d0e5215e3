\* Three addresses and room for two of them, two requests at a time.
SPECIFICATION Spec
CONSTANTS
    IPs = {i1, i2, i3}
    Procs = {p1, p2}
    Limit = 2
    Window = 2
    Lockout = 3
    Threshold = 2
    Capacity = 2
    MaxTime = 5
    MaxRequests = 5
SYMMETRY Symmetry
CHECK_DEADLOCK FALSE
INVARIANTS
    LimiterInvariant
    GuessesBounded
    NoLineSkipped
PROPERTIES
    LockoutKept
    ImplementsTail
