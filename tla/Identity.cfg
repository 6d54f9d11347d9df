\* The accounts of people and the codes they are sent.
CONSTANTS
    People = {p1, p2}
    Firms = {f1, f2}
    NoFirm = NoFirm
    Parents = {f1}
    Links = {l1}
    Requests = {r1, r2}
    MaxSessions = 3
    MaxVersion = 2
    MaxDeaths = 1
    Callers = {c1, c2}
    MaxFailures = 2
    MaxPerWindow = 2
    MaxCodes = 3
    Shops = {s1, s2}
    Names = {n1, n2}
    NoName = NoName
    Currencies = {eur, usd}
    Forms = {h1, h2}
    Worker = Worker
    MaxTokens = 2
    MaxNotices = 2
    Plans = {starter, pro}
    Subjects = {"refresh", "passwords", "twofactor", "team", "codes"}
    Desks = {d1, d2}
    Trial = 1
    Period = 1
    Grace = 1
    LastDay = 3
    MaxSubs = 2
    MaxPosted = 4
    MaxLosses = 1
SPECIFICATION MCSpec
SYMMETRY IdentitySymmetry
INVARIANTS
    OneSuccessor
    SignedInSince
    InOwnWorkspace
    CodesHold
\* Once the bounds are reached the system may rest.
CHECK_DEADLOCK FALSE
