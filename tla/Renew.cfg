SPECIFICATION LiveSpec
CONSTANTS
    n1 = n1
    n2 = n2
    n3 = n3
    l1 = l1
    l2 = l2
    l3 = l3
    w1 = w1
    w2 = w2
    m1 = m1
    m2 = m2
    Node = {n1, n2, n3}
    Build = {l1, l2, l3, w1, w2, m1, m2}
    Size <- MCSize
    Released <- MCReleased
    Semver = {}
    Target <- MCTarget
    Windows = {"windows"}
    Fleets <- MCFleets
    MaxFaults = 2
    None = None
INVARIANTS ExeWhole Recoverable
PROPERTY Settles
CHECK_DEADLOCK FALSE
