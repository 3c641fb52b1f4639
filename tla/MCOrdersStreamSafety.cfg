SPECIFICATION Spec
CONSTANTS
    SseClients = {sse}
    WsClients = {ws}
    Orders = {o}
    States = {resized, filled}
    Terminal = {filled}
    Final = {filled}
    LocalStates = {resized}
    Absent = absent
    BufferSize = 2
    QueueMax = 2
    DedupSize = 1
    MaxEvents = 4
INVARIANTS TypeOK EveryChangeOnce
CHECK_DEADLOCK FALSE
