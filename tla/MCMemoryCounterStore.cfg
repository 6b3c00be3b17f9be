CONSTANTS
    Calls = {c1, c2, c3, c4}
    Modulus = 4
    MaxEra = 1
SPECIFICATION FairSpec
INVARIANTS
    LockIsConserved
    FirstComeFirstServed
PROPERTIES
    EveryCallReturns
    ImplementsVisitorCounter
CHECK_DEADLOCK FALSE
