SPECIFICATION RuntimeSpec
CONSTANTS
    Accounts = {a1, a2}
    Providers = {p1}
    Projects = {j1}
    ChainNames = {c1}
    InitialBalance = 5
    InitialRegulators = {a1}
    PaymentAmounts = {0, 3}
    UsageAmounts = {1}
    QuotaUnit = 2
    StakeAmounts = {}
    UnstakeAmounts = {}
    DepositAmounts = {4}
    SpendAmounts = {4}
    RewardAmounts = {}
    MaxEraReward = 26
    MaxEra = 2
    BlockPerEra = 2
    RegisterDeposit = 2
    OperatorRewardPercentage = 8
    MaxNumberOfStakersPerProvider = 2
    MinimumStakingAmount = 2
    MinimumRemainingAmount = 1
    MaxUnlockingChunks = 2
    UnbondingPeriod = 0
    MaxEraStakeValues = 4
    Accuracy = 10
    ExistentialDeposit = 2
    RewardAmount = 3
    RewardConfigs <- TriedConfigs
INVARIANTS
    RuntimeTypeOK
    IssuanceDistributed
    UsageWithinPayments
    PalletsAgree
PROPERTIES
    TokensConserved
    PotKeepsAll
