SPECIFICATION FairSpec
CONSTANTS
    k1 = k1
    k2 = k2
    Consumers = {c1}
    Conids = {k1, k2}
    Requests <- SingleRequests
    Incarnations = {1, 2}
    NoSub = 0
    MaxConids = 2
    MaxAttempts = 1
    MaxOrphans = 1
    MaxRetracts = 1
    MaxDrops = 1
INVARIANTS ForgottenIsUnsubscribed
CHECK_DEADLOCK FALSE
