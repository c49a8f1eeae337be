SPECIFICATION LiveSpec
CONSTANTS
    t1 = t1
    t2 = t2
    t3 = t3
    u1 = u1
    u2 = u2
    User = {u1, u2}
    Thread = {t1, t2, t3}
    Workload <- LiveRequests
    MaxMsg = 2
    DocNum = 2
CHECK_DEADLOCK FALSE
PROPERTIES EventuallyStored
