CONSTANTS
    Servers = {s1, s2}
    Odd = s1
    Fleets <- TwoSlips
    Builds <- AllBuilds
    MaxFaults = 1
SPECIFICATION BootFairSpec
INVARIANTS
    ServesWhatWasAsked
    OpensOnlyOnRequest
    ServingHasTable
PROPERTY
    EventuallyServes
CHECK_DEADLOCK FALSE
