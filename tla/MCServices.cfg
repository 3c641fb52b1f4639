\* Every part may come to rest: a request answered, a process that exited.
SPECIFICATION MCSpec
CHECK_DEADLOCK FALSE
CONSTANTS
    Watchers = {w1, w2}
    Wishes <- MCWishes
    Tickers <- MCTickers
    RingSize = 1
    QuoteQueueMax = 1
    MaxQuotes = 2
    VolumeScale = 3
    VolumeMax = 9
    Callers = {c1, c2}
    Values = {v0, v1}
    Issued <- MCIssued
    Bootstrap = v0
    Clients = {k1, k2}
    Paths = {"tickle", "auth_status"}
    Period = 2
    Burst = 3
    MinBackoff = 1
    MaxBackoff = 2
    MaxClock = 2
    Handlers = {h1}
    Warnings = {g1, g2}
    MaxRounds = 3
    Stacks = {live, paper}
    Paper = {paper}
    DownThreshold = 2
    RealertAfter = 1
    CountMax = 3
    ConfirmTtl = 2
    CooldownTicks = 3
    PollTicks = 2
    StreamMax = 2
    NonceMax = 3
    TimeMax = 7
    Requests = {q1, q2}
    MaxScans = 1
    Reports = 2
    MaxErrors = 1
    Readers = {r1, r2}
    Pages = 2
    Ttl = 1
    MaxVersion = 1
    Askers = {a1, a2}
    Accounts = {u1, u2}
    MaxAsks = 2
    Prices = {"p1", "p2"}
    Schedules <- MCSchedules
    Minutes = 3
    Horizon = 1
    WireMax = 2
    MaxStamp = 2
    LastDay = 1
    TestOrders = {o1, o2}
    OthersOrders = {x1}
    CleanupRounds = 2
    Worth <- MCWorth
    WorthPerOrder = 5
    WorthPerAction = 6
    WorthInAll = 6
    Owners = {"A", "B"}
    PermBase = 100
    LimitOrders = {2}
    Shares = 1
    MaxHeld = 2
    Amounts = {2}
    Charges = {1}
    Unset = 9
    MaxReconnectAttempts = 2
    FramesPerConnection = 2
    MaxConnections = 3
INVARIANTS ServicesTypeOK WatchersAreServed AnswersAreDurable RateIsKept RepliesTellOfOrders PhoneShowsOutages OneRecreatePerWindow ErrorsFindTheirRequest OrderShowsInPortfolio AsksAreNotRepeated LifespanIsOrderly FramesTellTheMarket TestsTidyUp OrdersAreToldTruly FramesReachTheSource
