\* Two handlers at once against the state machine's comment.
CONSTANTS
    Bookings = {b1}
    Cleaners = {c1}
    Requests = {r1, r2}
    Duration = 1
    Horizon = 0
    MaxRows = 2
    MaxCleaners = 1
    MaxCrashes = 0
SPECIFICATION Spec
SYMMETRY Symmetry
PROPERTY TerminalStays
CHECK_DEADLOCK FALSE
