SPECIFICATION LiveSpec
CONSTANTS
    Client = {c1, c2, c3}
    Capacity = 1
    MaxEdits = 0
    MaxTriggers = 0
    Faults = {"metadata"}
PROPERTY
    KeepsSyncing
