CONSTANTS
    Schedules = {s1}
    OneOff = OneOff
    Workers = {w1, w2}
    Look = 1
    Ahead = 2
    PerTick = 2
    LastTime = 2
    MaxBookings = 2
    MaxMoves = 1
    MaxFaults = 1
SPECIFICATION MCSpec
INVARIANTS
    NoVisitLost
    RemindedAsMarked

    
CHECK_DEADLOCK FALSE
