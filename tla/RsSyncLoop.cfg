SPECIFICATION LiveSpec
CONSTANTS
    Client = {c1, c2}
    Capacity = 1
    MaxEdits = 1
    MaxTriggers = 3
    Faults = {"metadata", "sync", "config"}
PROPERTIES KeepsSyncingWhenReadable TriggersServed ClientsReturn ConfigTakesEffect
