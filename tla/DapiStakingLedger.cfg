SPECIFICATION Spec
CONSTANTS
    Accounts = {a1, a2}
    Providers = {p1}
    InitialBalance = 5
    StakeAmounts = {2}
    UnstakeAmounts = {2}
    DepositAmounts = {4}
    SpendAmounts = {2}
    RewardAmounts = {}
    MaxEraReward = 0
    MaxEra = 3
    BlockPerEra = 2
    RegisterDeposit = 2
    OperatorRewardPercentage = 8
    MaxNumberOfStakersPerProvider = 2
    MinimumStakingAmount = 2
    MinimumRemainingAmount = 1
    MaxUnlockingChunks = 2
    UnbondingPeriod = 1
    MaxEraStakeValues = 4
    Accuracy = 10
    ExistentialDeposit = 1
SYMMETRY Symmetry
INVARIANTS
    TypeOK
    LocksBacked
    DepositsReserved
    EraTotalsMatchStakes
    ProviderTotalsMatchStakes
    StakeHeldThroughUnbonding
