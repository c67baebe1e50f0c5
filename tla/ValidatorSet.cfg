SPECIFICATION FairSpec
CONSTANTS
    v1 = v1
    a1 = a1
    a2 = a2
    Accounts = {v1, a1, a2}
    DesiredCandidates = 2
    MinCandidates = 1
    KickThreshold = 4
    SessionLength = 2
    InvulnerableChoices <- ValidatorChoices
    ExistentialDeposit = 1
    PotBalance = 3
INVARIANTS
    TypeOK
    CandidatesInStep
PROPERTIES
    MinimumKept
    TurnBeforeKick
    IdleCandidatesLeave
