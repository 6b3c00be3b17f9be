CONSTANTS
    N = 3
    Established = FALSE
    MaxVersion = 1
    MaxStumbles = 0
    MaxFaults = 0
SPECIFICATION FairSpec
PROPERTY FirstRolloutReachesAllServers
CHECK_DEADLOCK FALSE
