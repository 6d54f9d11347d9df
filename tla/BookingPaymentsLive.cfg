\* What must happen in the end, with one crash.
CONSTANTS
    Requests = {r1}
    Quote = 3
    Quotes = {4}
    Deposit = 1
    CardValue = 2
    CardElsewhere = 1
    Gift = 1
    Redemptions = 1
    HandAmounts = {0}
    Overrides = {}
    Policy <- HalfThePrice
    MaxLinks = 1
    MaxCrashes = 1
    MaxDuplicates = 0
SPECIFICATION FairSpec
\* A booking that has ended, with its sessions, may rest.
CHECK_DEADLOCK FALSE
PROPERTIES
    
    HoldEnds
