SPECIFICATION LiveSpec
CONSTANTS
    p1 = p1
    p2 = p2
    b1 = b1
    b2 = b2
    Absent = Absent
    Filling = Filling
    Torn = Torn
    Whole = Whole
    Peer = {p1, p2}
    Direct = {p1}
    Hash = {b1, b2}
    HashOf <- MCHashOf
    Owned = {b1}
    Concurrency = 1
    MaxAttempts = 3
    StartScore = 10
    Bonus = 100
    MaxRuns = 1
    MaxFaults = 0
    Stalls = TRUE
PROPERTY Ends
CHECK_DEADLOCK FALSE
