SPECIFICATION FairSpec
CONSTANTS
    k1 = k1
    k2 = k2
    Consumers = {c1, c2}
    Conids = {k1, k2}
    Requests <- MCRequests
    Incarnations = {1, 2}
    NoSub = 0
    MaxConids = 2
    MaxAttempts = 2
    MaxOrphans = 1
    MaxRetracts = 1
    MaxDrops = 2
INVARIANTS TypeOK ConsumersKeepTheirSubscription ReconnectRestoresFeeds PollingFollowsSubscriptions
PROPERTIES FeedArrives IdleIsForgotten
CHECK_DEADLOCK FALSE
