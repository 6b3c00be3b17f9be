CONSTANTS
    unit = unit
    postgres = postgres
    memory = memory
    s1 = s1
    s2 = s2
    a1 = a1
    m1 = m1
    Ports = {p1, p2}
    Processes <- Binaries
    Tests <- TestsOfBinaries
    ProcessOf <- BinaryOf
    Kind <- KindOf
    Attempts = 2
    Probes = 2
    MaxRuns = 1
    MaxFaults = 1
SPECIFICATION FairSpec
INVARIANTS
    TestsAreAlone
    NothingIsLeftBehind
    OnlyOrphansClash
PROPERTY
    EveryTestEnds
CHECK_DEADLOCK FALSE
