SPECIFICATION FairSpec
CONSTANTS
    i1 = i1
    i2 = i2
    p1 = p1
    k1 = k1
    k2 = k2
    c1 = c1
    c2 = c2
    u1 = u1
    u2 = u2
    Instance = {i1, i2}
    Partition = {p1}
    Key <- TwoKeys
    PartOf <- OnP1
    Channel = {c1, c2}
    ChanOf <- OwnChan
    User = {u1, u2}
    Payload <- Chats
    DocNum = 1
    Split = 2
    ChanCap = 1
    Fails = {}
    MaxMsg = 2
    MaxCrash = 0
    MaxRebalance = 1
CHECK_DEADLOCK FALSE
INVARIANTS NoHole
PROPERTIES EventuallyPushed EventuallyStored
