SPECIFICATION Spec
CONSTANTS
    Accounts = {a1, a2}
    Providers = {p1}
    InitialBalance = 6
    StakeAmounts = {4}
    UnstakeAmounts = {4}
    DepositAmounts = {5}
    SpendAmounts = {}
    RewardAmounts = {4}
    MaxEraReward = 4
    MaxEra = 3
    BlockPerEra = 1
    RegisterDeposit = 1
    OperatorRewardPercentage = 5
    MaxNumberOfStakersPerProvider = 2
    MinimumStakingAmount = 4
    MinimumRemainingAmount = 1
    MaxUnlockingChunks = 1
    UnbondingPeriod = 2
    MaxEraStakeValues = 3
    Accuracy = 10
    ExistentialDeposit = 3
SYMMETRY Symmetry
PROPERTIES
    NoDoublePayment
    ImplementsPool
