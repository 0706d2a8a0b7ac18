SPECIFICATION Spec
CONSTANTS
    Zone = {z1, z2}
    z1 = z1
    z2 = z2
    Name = {a, b}
    a = a
    b = b
    Content = {c1, c2}
    c1 = c1
    c2 = c2
    Imports <- MCImports
    Tui = {t1, t2}
    Me = t1
    Daemon = d
    Absent = Absent
    Torn = Torn
    Off = Off
    NoJob = NoJob
    None = None
    Peer = {p1, p2}
    p1 = p1
    p2 = p2
    Shared <- MCShared
    PeerLists <- MCPeerLists
    ChannelSize = 1
    IpcFails = TRUE
    MaxTransfers = 2
    MaxKills = 0
    MaxPeerChanges = 1
INVARIANTS MetaTrue
