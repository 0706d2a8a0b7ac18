SPECIFICATION Spec
CONSTANTS
    Task = {t1, t2}
    v1 = v1
    v2 = v2
    v3 = v3
    v4 = v4
    Version <- MCVersion
    Size <- MCSize
    Ragged <- MCRagged
    Inode = {i1, i2, i3}
    MaxFails = 1
    MaxChanges = 0
    None = None
INVARIANT
    FullIsWhole
CHECK_DEADLOCK FALSE
