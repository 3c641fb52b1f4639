SPECIFICATION FairSpec
CONSTANTS
    Clients = {c1}
    FirstId = 1
    LastId = 2
    MaxFailures = 2
PROPERTIES DownMeansFailuresInARow
