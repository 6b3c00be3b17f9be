CONSTANTS
    Calls = {c1, c2}
    MaxRetries = 3
    InitialDelay = 250
    MaxBigint = 3
    MaxFaults = 1
    MaxEra = 1
SPECIFICATION FairSpec
INVARIANTS
    IInv
    UniqueCounts
    OvercountBounded
    ExactWithoutFaults
    NumbersFollowRealTime
PROPERTIES
    ImplementsVisitorCounter
    EveryCallReturns
    SelfHealing
CHECK_DEADLOCK FALSE
