\* One request at a time, one of which may be killed half way.
CONSTANTS
    Bookings = {b1, b2}
    Cleaners = {c1}
    Requests = {r1}
    Duration = 1
    Horizon = 1
    MaxRows = 2
    MaxCleaners = 1
    MaxCrashes = 1
SPECIFICATION Spec
SYMMETRY Symmetry
INVARIANTS
    TypeOK
    NoDoubleBooking
    CheckInsMatchStatus
    StaffingMatchesStatus
PROPERTIES
    TerminalStays
    StartedRowKept
    ImplementsLifecycle
\* Once every booking has ended and the rows are used up the system may rest.
CHECK_DEADLOCK FALSE
