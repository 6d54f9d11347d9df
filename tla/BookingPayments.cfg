\* One handler at a time, killed once, with one duplicate event.
CONSTANTS
    Requests = {r1}
    Quote = 4
    Quotes = {}
    Deposit = 1
    CardValue = 3
    CardElsewhere = 1
    Gift = 1
    Redemptions = 2
    HandAmounts = {2}
    Overrides = {"PAID"}
    Policy <- HalfThePrice
    MaxLinks = 2
    MaxCrashes = 1
    MaxDuplicates = 1
SPECIFICATION Spec
\* A booking that has ended, with its sessions, may rest.
CHECK_DEADLOCK FALSE
INVARIANTS
    TypeOK
    ConsumedMatchesStatus
    BooksMatchReceipts
PROPERTIES
    CancelAccountsForAll
