SPECIFICATION LiveSpec
CONSTANTS
    a = a
    b = b
    c = c
    u1 = u1
    u2 = u2
    mobile = mobile
    web = web
    pc = pc
    r1 = r1
    NoConn = NoConn
    Conn = {a, b}
    User = {u1, u2}
    Platform = {mobile, web, pc}
    PCPlatform = {pc}
    Token = {a, b, c}
    ConnToken <- OwnToken
    WsMaxConnNum = 3
    KickRpc = {r1}
    KickTarget <- KickMobile
    Setting <- Served
CHECK_DEADLOCK FALSE
INVARIANTS KickCloses
PROPERTIES QueuesDrain HungUpCloses
