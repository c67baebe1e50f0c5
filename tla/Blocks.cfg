SPECIFICATION BlocksFairSpec
CONSTANTS
    Accounts = {a1}
    Providers = {p1}
    InitialBalance = 45
    StakeAmounts = {}
    UnstakeAmounts = {20}
    DepositAmounts = {42}
    SpendAmounts = {}
    RewardAmounts = {}
    MaxEraReward = 18
    MaxEra = 4
    BlockPerEra = 2
    RegisterDeposit = 2
    OperatorRewardPercentage = 8
    MaxNumberOfStakersPerProvider = 2
    MinimumStakingAmount = 20
    MinimumRemainingAmount = 3
    MaxUnlockingChunks = 1
    UnbondingPeriod = 1
    MaxEraStakeValues = 4
    Accuracy = 10
    ExistentialDeposit = 3
    RewardAmount = 9
    RewardConfigs = {}
INVARIANTS
    PotNeverDies
PROPERTIES
    UnbondingCompletes
    DepositReturns
    RewardsPaid
