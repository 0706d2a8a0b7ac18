SPECIFICATION LiveProcessSpec
CONSTANTS
    t1 = t1
    r = r
    s = s
    u = u
    Launcher = {t1, r, s, u}
    Command <- MCCommand
    MaxPid = 3
    Exec = {TRUE, FALSE}
    MaxRenews = 1
    MaxKills = 1
INVARIANTS TuiConnected
PROPERTIES EventuallyServed NoneLingers
CHECK_DEADLOCK FALSE
