SPECIFICATION FairSpec
CONSTANTS
    Amounts = {1, 2}
    MaxStake = 2
    MaxEra = 5
    UnbondingPeriod = 1
    MaxEraStakeValues = 5
    MinimumStakingAmount = 1
PROPERTIES
    EveryEraClaimed
CHECK_DEADLOCK FALSE
