SPECIFICATION PushLiveSpec
CONSTANTS
    a = a
    b = b
    c = c
    g1 = g1
    g2 = g2
    NoList = NoList
    User = {a, b, c}
    Thread = {1, 2, 3}
    Gateway = {g1, g2}
    MaxCrash = 1
    Setting <- Pushed
CHECK_DEADLOCK FALSE
INVARIANTS TypeOK NoMissed
PROPERTIES LeaverCapped 
