CONSTANTS
    Nodes = {n1, n2, n3}
    Ttl = 15
    LoopWait = 5
    RetryTimeout = 5
    Fall = 3
    Rise = 2
    MaxVisits = 2
    MaxFaults = 3
SPECIFICATION FairSpec
INVARIANTS
    OnePrimary
    NoNumberIsLost
PROPERTY
    RouterFindsLeader
CHECK_DEADLOCK FALSE
