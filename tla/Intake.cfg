CONSTANTS
    Numbers = {n1, n2}
    NoOne = NoOne
    Requests = {r1, r2}
    Cleaners = 2
    Price = 2
    Discount = 1
    CardValue = 3
    CouponMax = 1
    CouponEach = 2
    DailyLimit = 2
    MaxNotified = 1
    MaxBookings = 3
    MaxWaiting = 2
    MaxFaults = 1
    Forms <- SomeForms
SPECIFICATION MCSpec
SYMMETRY Symmetry
INVARIANTS
    DiscountsBalanced
    OneCustomerPerNumber
    CancelledCannotBePaid
    OldestFirst
PROPERTIES
    ImplementsSale
CHECK_DEADLOCK FALSE
