SPECIFICATION LiveSpec
CONSTANTS
    Peer = {p1}
    MaxMisses = 4
    MaxChanges = 0
    MdnsExpires = TRUE
    StaleThreshold = 1
    RetryInterval = 1
    RefreshInterval = 4
    MaxRetries = 2
    SleepThreshold = 1
    MaxSleep = 2
PROPERTY
    PeersReturn
