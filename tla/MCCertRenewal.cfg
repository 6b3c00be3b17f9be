CONSTANTS
    Names <- Apex
    NumServers = 2
    MaxRenewal = 3
    MaxPushes = 1
    MaxMishaps = 1
    MaxRestarts = 1
SPECIFICATION FairSpec
INVARIANTS
    MixturesAreRepaired
    SecretsAreDelivered
PROPERTIES
    CaddyComesBack
    HarvestArrives
CHECK_DEADLOCK FALSE
