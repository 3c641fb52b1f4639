SPECIFICATION FairSpec
CONSTANTS
    Clients = {c1, c2, c3}
    FirstId = 1
    LastId = 2
    MaxFailures = 1
INVARIANTS TypeOK IdsFollowSockets
PROPERTY SessionRecovers
