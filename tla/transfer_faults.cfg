SPECIFICATION Spec
CONSTANTS
    i1 = i1
    i2 = i2
    p1 = p1
    k1 = k1
    k2 = k2
    c1 = c1
    c2 = c2
    u1 = u1
    u2 = u2
    Instance = {i1}
    Partition = {p1}
    Key <- TwoKeys
    PartOf <- OnP1
    Channel = {c1, c2}
    ChanOf <- OwnChan
    User = {u1, u2}
    Payload <- ChatsAndTyping
    DocNum = 2
    Split = 2
    ChanCap = 1
    Fails = {"maxSeqGet", "cacheSet", "maxSeqSet", "hasReadSet", "mongoMQ", "pushMQ", "mongoInsert", "evict"}
    MaxMsg = 2
    MaxCrash = 0
    MaxRebalance = 0
CHECK_DEADLOCK FALSE
INVARIANTS TypeOK WithinMaxSeq SourceOrder CreatedBeforePush
