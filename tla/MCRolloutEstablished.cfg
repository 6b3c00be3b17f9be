CONSTANTS
    N = 3
    Established = TRUE
    MaxVersion = 3
    MaxStumbles = 2
    MaxFaults = 1
SPECIFICATION FairSpec
INVARIANTS
    RolloutKeepsQuorum
    VersionsFollowTheLoop
    SuccessMeansDeployed
PROPERTY
    RolloutConverges
CHECK_DEADLOCK FALSE
