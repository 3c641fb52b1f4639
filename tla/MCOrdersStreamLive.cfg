SPECIFICATION FairSpec
CONSTANTS
    SseClients = {sse}
    WsClients = {}
    Orders = {o1, o2}
    States = {submitted, filled}
    Terminal = {filled}
    Final = {filled}
    LocalStates = {}
    Absent = absent
    BufferSize = 2
    QueueMax = 2
    DedupSize = 2
    MaxEvents = 4
INVARIANTS DrainedConsumerMirrorsBroker DrainedConsumerIsCurrent
PROPERTIES ServesTheFeed ReportIsShown EventArrives IdleIsForgotten
CHECK_DEADLOCK FALSE
