CONSTANTS
    Jobs = {j1, j2}
    Cleaners = {c1, c2}
    Clerks = {r1, r2}
    Price = 9
    MaxFaults = 1
    NoRate = NoRate
    MaxPayouts = 2
    Locations = {store, van}
    Nowhere = Nowhere
    MaxQuantity = 1
    MaxStock = 2
    MaxUse = 1
    Addresses = {a1, a2}
    TicketIds = {t1, t2}
    DailyLimit = 1
    MaxReplies = 1
    Subjects = {c1, mrs_jansen}
    Office = office
    MaxThreads = 3
    MaxMessages = 2
    Items = {kitchen, bath}
    MaxLists = 2
    Unnamed = Unnamed
    Inquiries = {q1, q2}
    PerEmailPerDay = 1
    Keys = {k1, k2}
    Rows = {f1, f2}
    Unfiled = Unfiled
    Rates <- SomeRates
    Assigned <- SomeAssigned
SPECIFICATION MCSpec
SYMMETRY Symmetry
INVARIANTS
    PayoutsBalance
    PoolNotOverdrawn
    Consecutive
    StockHolds
    
    OneConversation
    RecordsHold
PROPERTY
    ReopenedOnlyByLateReply
CHECK_DEADLOCK FALSE
