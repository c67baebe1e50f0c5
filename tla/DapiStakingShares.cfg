SPECIFICATION Spec
CONSTANTS
    Accounts = {a1, a2}
    Providers = {p1, p2}
    InitialBalance = 16
    StakeAmounts = {13}
    UnstakeAmounts = {}
    DepositAmounts = {15}
    SpendAmounts = {}
    RewardAmounts = {9}
    MaxEraReward = 9
    MaxEra = 3
    BlockPerEra = 1
    RegisterDeposit = 2
    OperatorRewardPercentage = 9
    MaxNumberOfStakersPerProvider = 2
    MinimumStakingAmount = 13
    MinimumRemainingAmount = 1
    MaxUnlockingChunks = 1
    UnbondingPeriod = 3
    MaxEraStakeValues = 4
    Accuracy = 20
    ExistentialDeposit = 1
SYMMETRY Symmetry
INVARIANTS
    SharesWithinTotals
    PayoutsWithinRewards
    ReceiptsAreFairShares
