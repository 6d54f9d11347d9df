\* A plan with room for one cleaner, two people to employ and two jobs that can
\* meet at one of them.
CONSTANTS
    Bookings = {b1, b2}
    Cleaners = {c1, c2}
    Requests = {r1}
    Duration = 1
    Horizon = 1
    MaxRows = 2
    MaxCleaners = 1
    MaxCrashes = 0
SPECIFICATION RosterSpec
SYMMETRY Symmetry
INVARIANTS
    ActiveWithinLimit
PROPERTY
    ReleasedGainsOnlyByMove
\* Once the rows are used up and the clock has stopped the system may rest.
CHECK_DEADLOCK FALSE
