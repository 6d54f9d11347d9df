\* Two handlers of any kind interleave on one booking.
CONSTANTS
    Bookings = {b1}
    Cleaners = {c1}
    Requests = {r1, r2}
    Duration = 1
    Horizon = 0
    MaxRows = 2
    MaxCleaners = 1
    MaxCrashes = 0
SPECIFICATION Spec
SYMMETRY Symmetry
\* Once every booking has ended and the rows are used up the system may rest.
CHECK_DEADLOCK FALSE
PROPERTIES
    RevivedOnlyByOverlap
