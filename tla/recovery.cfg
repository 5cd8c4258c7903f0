SPECIFICATION FairSpec
CONSTANTS
    Configs <- MCConfigs
    MaxRounds = 2
    MaxStep = 1
    MaxReviews = 1
    MaxEngineer = 1
    MaxReplans = 1
    MaxPasses = 2
    MaxRestarts = 1
    MaxFaults = 1
INVARIANTS
    BudgetsKept
PROPERTIES
    HumanBlockersExcluded
    RecoveryEnds
    StopsAreTakenUp
CHECK_DEADLOCK FALSE
