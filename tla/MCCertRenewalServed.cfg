CONSTANTS
    Names <- Apex
    NumServers = 1
    MaxRenewal = 2
    MaxPushes = 0
    MaxMishaps = 0
    MaxRestarts = 0
SPECIFICATION FairSpec
PROPERTY HarvestIsServed
CHECK_DEADLOCK FALSE
