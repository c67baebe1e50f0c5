SPECIFICATION FairSpec
CONSTANTS
    Amounts = {1, 2}
    MaxStake = 4
    MaxEra = 6
    UnbondingPeriod = 2
    MaxEraStakeValues = 5
    MinimumStakingAmount = 2
INVARIANTS
    TypeOK
    NeverAheadOfEra
    PaidErasGone
PROPERTIES
    ClaimsAndWithdrawalsSucceed
    ImplementsTable
CHECK_DEADLOCK FALSE
