SPECIFICATION LiveSpec
CONSTANTS
    Task = {t1}
    v1 = v1
    v2 = v2
    v3 = v3
    v4 = v4
    Version <- MCVersion
    Size <- MCSize
    Ragged <- MCRagged
    Inode = {i1, i2, i3}
    MaxFails = 2
    MaxChanges = 2
    None = None
INVARIANTS FullIsWhole ResumeIsExact
PROPERTY AlignedRetriesSucceed
CHECK_DEADLOCK FALSE
