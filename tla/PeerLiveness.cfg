SPECIFICATION LiveSpec
CONSTANTS
    Peer = {p1, p2}
    MaxMisses = 3
    MaxChanges = 1
    MdnsExpires = TRUE
    StaleThreshold = 1
    RetryInterval = 1
    RefreshInterval = 4
    MaxRetries = 2
    SleepThreshold = 1
    MaxSleep = 2
INVARIANT NeverLongAlone PromptAfterLoss
PROPERTIES FourMisses DeadPeersLeave ClosedPeersReturn
