SPECIFICATION DapiSpec
CONSTANTS
    Accounts = {a1, a2}
    Providers = {p1, p2}
    Projects = {}
    ChainNames = {c1}
    InitialBalance = 7
    InitialRegulators = {a1}
    PaymentAmounts = {}
    UsageAmounts = {}
    QuotaUnit = 2
    StakeAmounts = {}
    UnstakeAmounts = {}
    DepositAmounts = {4}
    SpendAmounts = {}
    RewardAmounts = {}
    MaxEraReward = 0
    MaxEra = 3
    BlockPerEra = 2
    RegisterDeposit = 2
    OperatorRewardPercentage = 8
    MaxNumberOfStakersPerProvider = 2
    MinimumStakingAmount = 2
    MinimumRemainingAmount = 1
    MaxUnlockingChunks = 2
    UnbondingPeriod = 1
    MaxEraStakeValues = 4
    Accuracy = 10
    ExistentialDeposit = 1
INVARIANTS
    RegisteredByOtherAccount
