CONSTANTS
    Hosts = {n1, n2}
    First = n1
    MaxCount = 3
    MaxFailures = 4
SPECIFICATION PairFairSpec
INVARIANTS
    OneWriter
    CopiesArePrefixes
PROPERTIES
    NoClusterIsWiped
    StandbySeeds
CHECK_DEADLOCK FALSE
