CONSTANTS
    Calls = {c1, c2}
    Servers = {s1, s2}
    MaxRetries = 1
    InitialDelay = 250
    MaxBigint = 3
    MaxFaults = 1
    MaxEra = 0
    MaxCrashes = 1
SPECIFICATION FairSpec
INVARIANTS
    GreetingsAreDistinct
    CounterCountsVisitors
    CounterCoversGreetings
    TasksServeRequests
PROPERTY
    EveryRequestEnds
CHECK_DEADLOCK FALSE
