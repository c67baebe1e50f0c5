----------------------------- MODULE DapiStaking ------------------------------
(***************************************************************************)
(* pallets/dapi-staking: stakers lock funds on providers, eras pass, block *)
(* rewards gather in the pallet's account and are claimed per era by       *)
(* stakers and operators.  One action per dispatchable, hook and trait     *)
(* function.  A call that fails changes nothing, except register, whose    *)
(* writes stay when the stake at its end fails (RegisterStakeFails).       *)
(*                                                                         *)
(* Storage maps are functions on the keys present.  The unlocking chunks   *)
(* of a ledger, sorted and with distinct eras, are a function from unlock  *)
(* era to amount.  Balances are u128 and bounded by the issuance: no sum   *)
(* of them overflows, and saturating_add is +.                             *)
(***************************************************************************)
EXTENDS StakerInfo, Perbill, Balances, Sums

CONSTANTS
    Accounts,                       \* stakers and operators
    Providers,                      \* T::ProviderId
    InitialBalance,                 \* endowment of each account
    StakeAmounts,                   \* values of stake calls
    UnstakeAmounts,                 \* values of unstake calls
    DepositAmounts,                 \* values of deposit_provider calls
    SpendAmounts,                   \* what an account may pay elsewhere
    RewardAmounts,                  \* block rewards and project payments
    MaxEraReward,                   \* bound on the rewards of one era
    MaxEra,                         \* bound on the era counter
    BlockPerEra,                    \* T::BlockPerEra
    RegisterDeposit,                \* T::RegisterDeposit
    OperatorRewardPercentage,       \* T::OperatorRewardPercentage, in parts
    MaxNumberOfStakersPerProvider,  \* T::MaxNumberOfStakersPerProvider
    MinimumStakingAmount,           \* T::MinimumStakingAmount
    MinimumRemainingAmount,         \* T::MinimumRemainingAmount
    MaxUnlockingChunks,             \* T::MaxUnlockingChunks
    UnbondingPeriod,                \* T::UnbondingPeriod
    MaxEraStakeValues               \* T::MaxEraStakeValues

ASSUME DapiStakingAssumption ==
    /\ IsFiniteSet(Accounts)
    /\ IsFiniteSet(Providers)
    /\ StakeAmounts \subseteq Nat
    /\ UnstakeAmounts \subseteq Nat
    /\ DepositAmounts \subseteq Nat
    /\ SpendAmounts \subseteq Nat
    /\ RewardAmounts \subseteq Nat
    /\ {InitialBalance, MaxEraReward, MaxEra, RegisterDeposit,
        OperatorRewardPercentage, MaxNumberOfStakersPerProvider,
        MinimumRemainingAmount, MaxUnlockingChunks, UnbondingPeriod,
        MaxEraStakeValues} \subseteq Nat
    /\ MinimumStakingAmount \in Nat \ {0}
    /\ BlockPerEra \in Nat \ {0}
    /\ OperatorRewardPercentage <= Accuracy

VARIABLES
    account,               \* pallet_balances: the accounts
    pot,                   \* pallet_balances: the pallet's own account
    ledger,                \* Ledger
    stakerInfo,            \* GeneralStakerInfo
    registeredProviders,   \* RegisteredProviders
    providerEraStake,      \* ProviderEraStake
    generalEraInfo,        \* GeneralEraInfo
    currentEra,            \* CurrentEra
    forceEra,              \* ForceEra
    accumulator,           \* BlockRewardAccumulator
    now,                   \* block number modulo BlockPerEra
    receipts               \* history: the claims paid

vars == <<account, pot, ledger, stakerInfo, registeredProviders,
          providerEraStake, generalEraInfo, currentEra, forceEra,
          accumulator, now, receipts>>

(* What every call leaves alone, and what only era changes touch.          *)
eraVars == <<currentEra, forceEra, now>>
rewardVars == <<pot, accumulator, receipts>>

RewardInfo == [operators : Nat, stakers : Nat]
EraInfo == [rewards : RewardInfo, staked : Nat, locked : Nat]
ProviderStakeInfo ==
    [total : Nat, number_of_stakers : Nat, provider_reward_claimed : BOOLEAN]
ProviderInfo ==
    [state : {"Registered", "Unregistered"}, since : Nat,
     operator : Accounts, unreserved : BOOLEAN]
Receipt ==
    [role : {"staker", "operator"}, who : Accounts, provider : Providers,
     era : Nat, staked : Nat, amount : Nat]

NoReward == [operators |-> 0, stakers |-> 0]
NoStake ==
    [total |-> 0, number_of_stakers |-> 0, provider_reward_claimed |-> FALSE]
NoChunks == [e \in {} |-> 0]
EmptyLedger == [locked |-> 0, unbonding |-> NoChunks]

(* Storage maps: get(k).unwrap_or(default), and insert(k, v).              *)
Get(f, k, default) == IF k \in DOMAIN f THEN f[k] ELSE default
Insert(f, k, v) == [x \in DOMAIN f \cup {k} |-> IF x = k THEN v ELSE f[x]]

Init ==
    /\ account = [a \in Accounts |-> NewAccount(InitialBalance)]
    /\ pot = NewAccount(0)
    /\ ledger = [a \in Accounts |-> EmptyLedger]
    /\ stakerInfo = [a \in Accounts |-> [p \in Providers |-> <<>>]]
    /\ registeredProviders = [p \in {} |-> <<>>]
    /\ providerEraStake = [p \in Providers |-> [e \in {} |-> NoStake]]
    /\ generalEraInfo = [e \in {} |-> <<>>]
    /\ currentEra = 0
    /\ forceEra = "NotForcing"
    /\ accumulator = NoReward
    /\ now = 0
    /\ receipts = {}
-------------------------------------------------------------------------------
(* Helpers of the pallet *)

(* Calls run in a block, after the on_initialize of block 1.               *)
InBlock == currentEra > 0

IsRegistered(p) == p \in DOMAIN registeredProviders

IsActiveProvider(p) ==
    IsRegistered(p) /\ registeredProviders[p].state = "Registered"

IsUnregistered(p) ==
    IsRegistered(p) /\ registeredProviders[p].state = "Unregistered"

AvailableStakingBalance(free, l) ==
    SaturatingSub(SaturatingSub(free, MinimumRemainingAmount), l.locked)

Lesser(a, b) == IF a <= b THEN a ELSE b

ChunkSum(chunks) == Sum(chunks)

(* Slip: an update that frees nothing skips the lock.                      *)
UpdateLedgerNoRelock(s, b, l) ==
    LET empty == l.locked = 0 /\ DOMAIN l.unbonding = {}
    IN  /\ ledger' = [ledger EXCEPT ![s] = IF empty THEN EmptyLedger ELSE l]
        /\ account' = [account EXCEPT ![s] =
               IF empty THEN RemoveLock(b)
               ELSE IF b.lock > 0 THEN b ELSE SetLock(b, l.locked)]

(* update_ledger, on the account b of s: an empty ledger is removed with   *)
(* its lock, any other is stored and the lock set to what it says.         *)
UpdateLedger(s, b, l) ==
    LET empty == l.locked = 0 /\ DOMAIN l.unbonding = {}
    IN  /\ ledger' = [ledger EXCEPT ![s] = IF empty THEN EmptyLedger ELSE l]
        /\ account' = [account EXCEPT ![s] =
               IF empty THEN RemoveLock(b) ELSE SetLock(b, l.locked)]

(* An empty staker info is removed, which reads back as empty.             *)
UpdateStakerInfo(s, p, stakes) ==
    stakerInfo' = [stakerInfo EXCEPT ![s][p] = stakes]

(* GeneralEraInfo::mutate of the current era; absent, it stays absent.     *)
UpdateEraInfo(staked, locked) ==
    generalEraInfo' =
        IF currentEra \in DOMAIN generalEraInfo
        THEN [generalEraInfo EXCEPT ![currentEra] =
                 [rewards |-> generalEraInfo[currentEra].rewards,
                  staked |-> staked, locked |-> locked]]
        ELSE generalEraInfo

EraInfoAt(e) ==
    Get(generalEraInfo, e, [rewards |-> NoReward, staked |-> 0, locked |-> 0])

ProviderStakeAt(p, e) == Get(providerEraStake[p], e, NoStake)

(* Slip: the operator of every provider gets the whole of the era's part.  *)
OperatorsPartWhole(p, e) == EraInfoAt(e).rewards.operators

(* operator_stakers_split: the provider's portion of the era's rewards.    *)
OperatorsPart(p, e) ==
    PartOf(FromRational(ProviderStakeAt(p, e).total, EraInfoAt(e).staked),
           EraInfoAt(e).rewards.operators)

StakersPart(p, e) ==
    PartOf(FromRational(ProviderStakeAt(p, e).total, EraInfoAt(e).staked),
           EraInfoAt(e).rewards.stakers)
-------------------------------------------------------------------------------
(* Eras *)

(* Slip: the accumulator is read and not taken.                            *)
AccumulatorAfterSnapshotKept == accumulator

AccumulatorAfterSnapshot == NoReward

(* reward_balance_snapshot of the ending era: its rewards are fixed, its   *)
(* totals carried over.                                                    *)
RewardBalanceSnapshot(e) ==
    LET info == EraInfoAt(e)
    IN  generalEraInfo' =
            Insert(Insert(generalEraInfo, e + 1,
                          [info EXCEPT !.rewards = NoReward]),
                   e, [info EXCEPT !.rewards = accumulator])

(* rotate_staking_info: the stakes of registered providers are carried     *)
(* over, their rewards of the new era not claimed.                         *)
RotateStakingInfo(e) ==
    providerEraStake' = [p \in Providers |->
        IF IsActiveProvider(p) /\ e \in DOMAIN providerEraStake[p]
        THEN Insert(providerEraStake[p], e + 1,
                    [providerEraStake[p][e]
                        EXCEPT !.provider_reward_claimed = FALSE])
        ELSE providerEraStake[p]]

(* The condition of on_initialize on the block's place in its era.         *)
EraEnds(block) == block = 1 \/ forceEra = "ForceNew" \/ currentEra = 0

(* on_initialize of the next block.                                        *)
OnInitialize ==
    LET block == (now + 1) % BlockPerEra
    IN  /\ now' = block
        /\ \/ /\ EraEnds(block)
              /\ currentEra < MaxEra
              /\ currentEra' = currentEra + 1
              /\ accumulator' = AccumulatorAfterSnapshot
              /\ RewardBalanceSnapshot(currentEra)
              /\ RotateStakingInfo(currentEra)
              /\ forceEra' = "NotForcing"
           \/ /\ ~EraEnds(block)
              /\ UNCHANGED <<currentEra, accumulator, generalEraInfo,
                             providerEraStake, forceEra>>
        /\ UNCHANGED <<account, pot, ledger, stakerInfo, registeredProviders,
                       receipts>>

(* force_new_era, from Root.                                               *)
ForceNewEra ==
    /\ InBlock
    /\ forceEra' = "ForceNew"
    /\ UNCHANGED <<account, pot, ledger, stakerInfo, registeredProviders,
                   providerEraStake, generalEraInfo, currentEra, accumulator,
                   now, receipts>>
-------------------------------------------------------------------------------
(* Staking *)

(* stake of `value` by s, whose account is b, on the active provider p:    *)
(* the amount, the history it leads to, the checks and the writes.         *)
StakeAmount(s, b, value) ==
    Lesser(value, AvailableStakingBalance(b.free, ledger[s]))

StakeChecks(s, p, b, value) ==
    LET amount == StakeAmount(s, b, value)
        stakes == stakerInfo[s][p]
        next == AddStake(stakes, currentEra, amount)
    IN  /\ amount > 0
        /\ \/ LatestStakedValue(stakes) # 0
           \/ ProviderStakeAt(p, currentEra).number_of_stakers
                  < MaxNumberOfStakersPerProvider
        /\ ~UnexpectedEra(stakes, currentEra)
        /\ Len(next) < MaxEraStakeValues
        /\ LatestStakedValue(next) >= MinimumStakingAmount

StakeWrites(s, p, b, value) ==
    LET amount == StakeAmount(s, b, value)
        stakes == stakerInfo[s][p]
        info == ProviderStakeAt(p, currentEra)
        arrives == IF LatestStakedValue(stakes) = 0 THEN 1 ELSE 0
    IN  /\ UpdateLedger(s, b, [ledger[s] EXCEPT !.locked =
               ledger[s].locked + amount])
        /\ UpdateEraInfo(EraInfoAt(currentEra).staked + amount,
                         EraInfoAt(currentEra).locked + amount)
        /\ UpdateStakerInfo(s, p, AddStake(stakes, currentEra, amount))
        /\ providerEraStake' = [providerEraStake EXCEPT ![p] =
               Insert(providerEraStake[p], currentEra,
                   [info EXCEPT
                       !.total = info.total + amount,
                       !.number_of_stakers = info.number_of_stakers + arrives])]

Stake(s, p, value) ==
    /\ InBlock
    /\ IsActiveProvider(p)
    /\ StakeChecks(s, p, account[s], value)
    /\ StakeWrites(s, p, account[s], value)
    /\ UNCHANGED <<eraVars, rewardVars, registeredProviders>>

(* unstake: what would remain below the minimum goes as well, the amount   *)
(* joins the chunk of the era in which it unlocks.                         *)
UnstakeAmount(s, p, value) ==
    LET staked == LatestStakedValue(stakerInfo[s][p])
    IN  IF SaturatingSub(staked, value) < MinimumStakingAmount
        THEN staked ELSE value

(* Slip: a second unstake of the era replaces the chunk instead of joining *)
(* it.                                                                     *)
ChunksAfterUnstakeLost(s, amount) ==
    Insert(ledger[s].unbonding, currentEra + UnbondingPeriod, amount)

ChunksAfterUnstake(s, amount) ==
    LET unlockEra == currentEra + UnbondingPeriod
    IN  Insert(ledger[s].unbonding, unlockEra,
               Get(ledger[s].unbonding, unlockEra, 0) + amount)

(* Slip: a staker that leaves is still counted.                            *)
StakersAfterUnstakeKept(s, p, value) ==
    ProviderStakeAt(p, currentEra).number_of_stakers

StakersAfterUnstake(s, p, value) ==
    LET staked == LatestStakedValue(stakerInfo[s][p])
        count == ProviderStakeAt(p, currentEra).number_of_stakers
    IN  IF SaturatingSub(staked, value) < MinimumStakingAmount
        THEN SaturatingSub(count, 1) ELSE count

Unstake(s, p, value) ==
    LET amount == UnstakeAmount(s, p, value)
        stakes == stakerInfo[s][p]
        next == RemoveStake(stakes, currentEra, amount)
        chunks == ChunksAfterUnstake(s, amount)
        info == ProviderStakeAt(p, currentEra)
    IN  /\ InBlock
        /\ value > 0
        /\ IsActiveProvider(p)
        /\ LatestStakedValue(stakes) > 0
        /\ amount > 0
        /\ ~UnexpectedEra(stakes, currentEra)
        /\ Len(next) < MaxEraStakeValues
        /\ Cardinality(DOMAIN chunks) <= MaxUnlockingChunks
        /\ UpdateLedger(s, account[s],
               [ledger[s] EXCEPT !.unbonding = chunks])
        /\ UpdateEraInfo(SaturatingSub(EraInfoAt(currentEra).staked, amount),
                         EraInfoAt(currentEra).locked)
        /\ UpdateStakerInfo(s, p, next)
        /\ providerEraStake' = [providerEraStake EXCEPT ![p] =
               Insert(providerEraStake[p], currentEra,
                   [info EXCEPT
                       !.total = SaturatingSub(info.total, amount),
                       !.number_of_stakers =
                           StakersAfterUnstake(s, p, value)])]
        /\ UNCHANGED <<eraVars, rewardVars, registeredProviders>>

(* Slip: a chunk is withdrawn one era early.                               *)
UnlockedEarly(s) ==
    {e \in DOMAIN ledger[s].unbonding : e <= currentEra + 1}

(* Slip: a chunk can be withdrawn only in the era in which it unlocks.     *)
UnlockedThisEra(s) == {e \in DOMAIN ledger[s].unbonding : e = currentEra}

(* UnbondingInfo::partition: the chunks unlocked by now.                   *)
Unlocked(s) == {e \in DOMAIN ledger[s].unbonding : e <= currentEra}

WithdrawUnstaked(s) ==
    LET chunks == ledger[s].unbonding
        amount == ChunkSum(Restrict(chunks, Unlocked(s)))
        future == Restrict(chunks, DOMAIN chunks \ Unlocked(s))
    IN  /\ InBlock
        /\ amount # 0
        /\ UpdateLedger(s, account[s],
               [locked |-> SaturatingSub(ledger[s].locked, amount),
                unbonding |-> future])
        /\ UpdateEraInfo(EraInfoAt(currentEra).staked,
                         SaturatingSub(EraInfoAt(currentEra).locked, amount))
        /\ UNCHANGED <<eraVars, rewardVars, registeredProviders,
                       providerEraStake, stakerInfo>>
-------------------------------------------------------------------------------
(* Rewards *)

(* rewards(imbalance): the pallet's account gets it, the era's shares grow.*)
AddRewards(value) ==
    LET operators == PartOf(OperatorRewardPercentage, value)
        stakers == SaturatingSub(value, operators)
    IN  /\ accumulator.operators + accumulator.stakers + value <= MaxEraReward
        /\ accumulator' = [operators |-> accumulator.operators + operators,
                           stakers |-> accumulator.stakers + stakers]
        /\ pot' = Deposit(pot, value)

(* rewards, from block-reward's payout and from project payments.          *)
Rewards(value) ==
    /\ InBlock
    /\ AddRewards(value)
    /\ UNCHANGED <<account, ledger, stakerInfo, registeredProviders,
                   providerEraStake, generalEraInfo, eraVars, receipts>>

(* Slip: the era in progress can be claimed.                               *)
ClaimableEraInProgress(p, e) ==
    /\ IsRegistered(p)
    /\ IsUnregistered(p) => e < registeredProviders[p].since
    /\ e <= currentEra

(* An era that can still be claimed on provider p.                         *)
ClaimableEra(p, e) ==
    /\ IsRegistered(p)
    /\ IsUnregistered(p) => e < registeredProviders[p].since
    /\ e < currentEra

(* Slip: the reward is created, not taken from the pot.                    *)
PayFromNothing(receipt) ==
    /\ account' = [account EXCEPT ![receipt.who] =
           Deposit(account[receipt.who], receipt.amount)]
    /\ receipts' = receipts \cup {receipt}
    /\ UNCHANGED pot

(* The reward moves from the pot to the account it is for; a reward of     *)
(* zero moves nothing.                                                     *)
Pay(receipt) ==
    /\ receipt.amount <= pot.free
    /\ receipts' = receipts \cup {receipt}
    /\ \/ /\ receipt.amount > 0
          /\ pot' = Withdraw(pot, receipt.amount)
          /\ account' = [account EXCEPT ![receipt.who] =
                 Deposit(account[receipt.who], receipt.amount)]
       \/ /\ receipt.amount = 0
          /\ UNCHANGED <<pot, account>>

(* Slip: the share of the stake is taken of the provider's total of today. *)
StakerRewardNow(p, e, staked) ==
    PartOf(FromRational(staked, ProviderStakeAt(p, currentEra).total),
           StakersPart(p, e))

(* The reward for a stake on p in era e.                                   *)
StakerReward(p, e, staked) ==
    PartOf(FromRational(staked, ProviderStakeAt(p, e).total), StakersPart(p, e))

ClaimStaker(s, p) ==
    LET head == Claimable(stakerInfo[s][p])
    IN  /\ InBlock
        /\ head.staked > 0
        /\ ClaimableEra(p, head.era)
        /\ head.era \in DOMAIN generalEraInfo
        /\ Pay([role |-> "staker", who |-> s, provider |-> p,
                era |-> head.era, staked |-> head.staked,
                amount |-> StakerReward(p, head.era, head.staked)])
        /\ UpdateStakerInfo(s, p, AfterClaim(stakerInfo[s][p]))
        /\ UNCHANGED <<eraVars, accumulator, ledger, registeredProviders,
                       providerEraStake, generalEraInfo>>

(* Slip: the era is not marked as claimed.                                 *)
MarkClaimedNot(p, e) == ProviderStakeAt(p, e)

MarkClaimed(p, e) ==
    [ProviderStakeAt(p, e) EXCEPT !.provider_reward_claimed = TRUE]

(* claim_operator: any signed origin, the operator is paid.                *)
ClaimOperator(p, e) ==
    /\ InBlock
    /\ ClaimableEra(p, e)
    /\ ~ProviderStakeAt(p, e).provider_reward_claimed
    /\ ProviderStakeAt(p, e).total > 0
    /\ e \in DOMAIN generalEraInfo
    /\ Pay([role |-> "operator", who |-> registeredProviders[p].operator,
            provider |-> p, era |-> e, staked |-> ProviderStakeAt(p, e).total,
            amount |-> OperatorsPart(p, e)])
    /\ providerEraStake' = [providerEraStake EXCEPT ![p] =
           Insert(providerEraStake[p], e, MarkClaimed(p, e))]
    /\ UNCHANGED <<eraVars, accumulator, ledger, registeredProviders,
                   stakerInfo, generalEraInfo>>
-------------------------------------------------------------------------------
(* Providers *)

NewProvider(o) ==
    [state |-> "Registered", since |-> 0, operator |-> o, unreserved |-> FALSE]

(* Slip: the deposit is taken without a look at the balance.               *)
RegisterChecksNoFunds(o, p, deposit) ==
    /\ InBlock
    /\ ~IsRegistered(p)
    /\ deposit >= RegisterDeposit + MinimumStakingAmount

(* The checks of register before its first write.                          *)
RegisterChecks(o, p, deposit) ==
    /\ InBlock
    /\ ~IsRegistered(p)
    /\ deposit >= RegisterDeposit + MinimumStakingAmount
    /\ Usable(account[o], RegisterDeposit)

(* register, from dapi::deposit_provider: reserve, insert, then stake.     *)
Register(o, p, deposit) ==
    LET b == Reserve(account[o], RegisterDeposit)
        value == SaturatingSub(deposit, RegisterDeposit)
    IN  /\ RegisterChecks(o, p, deposit)
        /\ StakeChecks(o, p, b, value)
        /\ registeredProviders' =
               Insert(registeredProviders, p, NewProvider(o))
        /\ StakeWrites(o, p, b, value)
        /\ UNCHANGED <<eraVars, rewardVars>>

(* The same call when its stake fails: dispatchables of this runtime are   *)
(* not transactional, so the reserve and the insert stay.                  *)
RegisterStakeFails(o, p, deposit) ==
    LET b == Reserve(account[o], RegisterDeposit)
        value == SaturatingSub(deposit, RegisterDeposit)
    IN  /\ RegisterChecks(o, p, deposit)
        /\ ~StakeChecks(o, p, b, value)
        /\ registeredProviders' =
               Insert(registeredProviders, p, NewProvider(o))
        /\ account' = [account EXCEPT ![o] = b]
        /\ UNCHANGED <<eraVars, rewardVars, ledger, stakerInfo,
                       providerEraStake, generalEraInfo>>

(* Slip: unregistered from the next era on.                                *)
UnregisterNextEra(p) ==
    /\ InBlock
    /\ IsActiveProvider(p)
    /\ registeredProviders' = [registeredProviders EXCEPT ![p] =
           [registeredProviders[p] EXCEPT
               !.state = "Unregistered", !.since = currentEra + 1]]
    /\ UNCHANGED <<eraVars, rewardVars, account, ledger, stakerInfo,
                   providerEraStake, generalEraInfo>>

(* unregister, from dapi::unregister_provider and report_provider_offence. *)
Unregister(p) ==
    /\ InBlock
    /\ IsActiveProvider(p)
    /\ registeredProviders' = [registeredProviders EXCEPT ![p] =
           [registeredProviders[p] EXCEPT
               !.state = "Unregistered", !.since = currentEra]]
    /\ UNCHANGED <<eraVars, rewardVars, account, ledger, stakerInfo,
                   providerEraStake, generalEraInfo>>

(* Slip: the two sides of the comparison are swapped.                      *)
UnbondedSwapped(p) ==
    /\ IsUnregistered(p)
    /\ registeredProviders[p].since > currentEra + UnbondingPeriod

UnbondedSinceUnregistered(p) ==
    /\ IsUnregistered(p)
    /\ currentEra > registeredProviders[p].since + UnbondingPeriod

(* Slip: the era's staked total keeps the withdrawn stake.                 *)
StakedAfterWithdrawKept(staked) == EraInfoAt(currentEra).staked

StakedAfterWithdraw(staked) ==
    SaturatingSub(EraInfoAt(currentEra).staked, staked)

(* Slip: the last era before the unregistration does not count.            *)
AllClaimedButLast(s, p) ==
    LET claimable == Claimable(stakerInfo[s][p]).era
    IN  claimable + 1 >= registeredProviders[p].since \/ claimable = 0

(* "Don't allow withdrawal until all rewards have been claimed."           *)
AllClaimed(s, p) ==
    LET claimable == Claimable(stakerInfo[s][p]).era
    IN  claimable >= registeredProviders[p].since \/ claimable = 0

WithdrawFromUnregisteredStaker(s, p) ==
    LET staked == LatestStakedValue(stakerInfo[s][p])
    IN  /\ InBlock
        /\ UnbondedSinceUnregistered(p)
        /\ staked > 0
        /\ AllClaimed(s, p)
        /\ UpdateLedger(s, account[s], [ledger[s] EXCEPT !.locked =
               SaturatingSub(ledger[s].locked, staked)])
        /\ UpdateStakerInfo(s, p, <<>>)
        /\ UpdateEraInfo(StakedAfterWithdraw(staked),
                         SaturatingSub(EraInfoAt(currentEra).locked, staked))
        /\ UNCHANGED <<eraVars, rewardVars, registeredProviders,
                       providerEraStake>>

(* Slip: the deposit can be withdrawn again.                               *)
MarkUnreservedNot(p) == registeredProviders[p]

MarkUnreserved(p) == [registeredProviders[p] EXCEPT !.unreserved = TRUE]

(* withdraw_from_unregistered_operator, by the operator of p.              *)
WithdrawFromUnregisteredOperator(p) ==
    LET o == registeredProviders[p].operator
    IN  /\ InBlock
        /\ UnbondedSinceUnregistered(p)
        /\ ~registeredProviders[p].unreserved
        /\ registeredProviders' = [registeredProviders EXCEPT ![p] =
               MarkUnreserved(p)]
        /\ account' = [account EXCEPT ![o] =
               Unreserve(account[o], RegisterDeposit)]
        /\ UNCHANGED <<eraVars, rewardVars, ledger, stakerInfo,
                       providerEraStake, generalEraInfo>>

(* The rest of the chain: an account pays elsewhere, within its lock.      *)
SpendElsewhere(s, value) ==
    /\ InBlock
    /\ value > 0
    /\ CanSpend(account[s], value)
    /\ account' = [account EXCEPT ![s] = Spend(account[s], value)]
    /\ UNCHANGED <<eraVars, rewardVars, ledger, stakerInfo,
                   registeredProviders, providerEraStake, generalEraInfo>>
-------------------------------------------------------------------------------
(* The dispatchables of the pallet, and its rewards function.              *)
Calls ==
    \/ ForceNewEra
    \/ \E s \in Accounts, p \in Providers :
           \/ \E v \in StakeAmounts : Stake(s, p, v)
           \/ \E v \in UnstakeAmounts : Unstake(s, p, v)
           \/ ClaimStaker(s, p)
           \/ WithdrawFromUnregisteredStaker(s, p)
    \/ \E s \in Accounts :
           \/ WithdrawUnstaked(s)
           \/ \E v \in SpendAmounts : SpendElsewhere(s, v)
    \/ \E p \in Providers :
           \/ WithdrawFromUnregisteredOperator(p)
           \/ \E e \in 0..MaxEra : ClaimOperator(p, e)
    \/ \E v \in RewardAmounts : Rewards(v)

(* The trait DapiStaking: register and unregister, for pallet dapi.        *)
RegistryCalls ==
    \/ \E o \in Accounts, p \in Providers, v \in DepositAmounts :
           Register(o, p, v) \/ RegisterStakeFails(o, p, v)
    \/ \E p \in Providers : Unregister(p)

Next == OnInitialize \/ Calls \/ RegistryCalls

Spec == Init /\ [][Next]_vars
-------------------------------------------------------------------------------
(* Properties *)

TypeOK ==
    /\ account \in [Accounts -> Account]
    /\ pot \in Account
    /\ DOMAIN ledger = Accounts
    /\ \A s \in Accounts :
           /\ DOMAIN ledger[s] = {"locked", "unbonding"}
           /\ ledger[s].locked \in Nat
           /\ \A e \in DOMAIN ledger[s].unbonding :
                  e \in Nat /\ ledger[s].unbonding[e] \in Nat
    /\ stakerInfo \in [Accounts -> [Providers -> Seq(EraStake)]]
    /\ DOMAIN registeredProviders \subseteq Providers
    /\ \A p \in DOMAIN registeredProviders :
           registeredProviders[p] \in ProviderInfo
    /\ DOMAIN providerEraStake = Providers
    /\ \A p \in Providers : \A e \in DOMAIN providerEraStake[p] :
           e \in Nat /\ providerEraStake[p][e] \in ProviderStakeInfo
    /\ \A e \in DOMAIN generalEraInfo :
           e \in Nat /\ generalEraInfo[e] \in EraInfo
    /\ currentEra \in Nat
    /\ forceEra \in {"NotForcing", "ForceNew"}
    /\ accumulator \in RewardInfo
    /\ now \in 0..(BlockPerEra - 1)
    /\ receipts \subseteq Receipt

StakeOf(s) == Sum([p \in Providers |-> LatestStakedValue(stakerInfo[s][p])])

StakeOn(p) == Sum([s \in Accounts |-> LatestStakedValue(stakerInfo[s][p])])

(* What is staked on all providers together, by the records of era e.      *)
EraTotal(e) == Sum([p \in Providers |-> ProviderStakeAt(p, e).total])

(* What a ledger locks is what its owner has at stake on all providers and *)
(* what is unbonding: stake, unstake, both withdrawals and unregistration  *)
(* keep the two books of the pallet in step.                               *)
LedgerMatchesStakes ==
    \A s \in Accounts :
        ledger[s].locked = StakeOf(s) + ChunkSum(ledger[s].unbonding)

(* Locked funds are there: the lock set by update_ledger covers the ledger *)
(* and the free balance covers the lock, whatever the account pays, earns  *)
(* or reserves in between.                                                 *)
LocksBacked ==
    \A s \in Accounts :
        /\ ledger[s].locked <= account[s].lock
        /\ account[s].lock <= account[s].free

(* An account has reserved one RegisterDeposit for each provider it        *)
(* operates whose deposit it has not taken back, even when the stake at    *)
(* the end of register failed.                                             *)
DepositsReserved ==
    \A a \in Accounts :
        account[a].reserved = RegisterDeposit *
            Cardinality({p \in DOMAIN registeredProviders :
                            /\ registeredProviders[p].operator = a
                            /\ ~registeredProviders[p].unreserved})

(* The totals of the current era, which the rewards are divided by, are    *)
(* those of the stakers' own records.                                      *)
EraTotalsMatchStakes ==
    currentEra > 0 =>
        /\ EraInfoAt(currentEra).staked = Sum([s \in Accounts |-> StakeOf(s)])
        /\ EraInfoAt(currentEra).locked = Sum([s \in Accounts |-> ledger[s].locked])

(* So are the total and the number of stakers of an active provider, also  *)
(* after eras in which nothing was written for it.                         *)
ProviderTotalsMatchStakes ==
    \A p \in Providers : IsActiveProvider(p) =>
        /\ ProviderStakeAt(p, currentEra).total = StakeOn(p)
        /\ ProviderStakeAt(p, currentEra).number_of_stakers =
               Cardinality({s \in Accounts :
                                LatestStakedValue(stakerInfo[s][p]) > 0})

(* In every era that can be claimed, the stakes the unclaimed histories of *)
(* a provider's stakers show add up to no more than the provider's total   *)
(* of that era, and the totals to no more than what the era's rewards are  *)
(* divided by: no one's share can exceed the whole.                        *)
SharesWithinTotals ==
    \A e \in 1..currentEra :
        /\ \A p \in Providers : ClaimableEra(p, e) =>
               Sum([s \in Accounts |-> StakedAt(stakerInfo[s][p], e)])
                   <= ProviderStakeAt(p, e).total
        /\ EraTotal(e) <= EraInfoAt(e).staked

(* What was at stake with a registered provider in an era is still locked  *)
(* UnbondingPeriod eras later, on whichever way it is taken out.           *)
StakeHeldThroughUnbonding ==
    \A e \in 1..currentEra : currentEra <= e + UnbondingPeriod =>
        EraTotal(e) <= EraInfoAt(currentEra).locked

(* The errors to "report on github if ever emitted" are never emitted:     *)
(* each ended era has its reward record (UnknownEraReward) and no history  *)
(* is ahead of the era (UnexpectedStakeInfoEra).                           *)
NoInternalError ==
    /\ \A e \in 0..(currentEra - 1) : e \in DOMAIN generalEraInfo
    /\ \A s \in Accounts, p \in Providers :
           ~UnexpectedEra(stakerInfo[s][p], currentEra)

ReceiptsOf(role, e) == {r \in receipts : r.role = role /\ r.era = e}

AmountOf(claims) == Sum([r \in claims |-> r.amount])

(* Every token in the pallet's account is accounted for: what came in, in  *)
(* ended eras and in this one, is either still there or on a receipt.      *)
PotMatchesRewards ==
    pot.free + AmountOf(receipts) =
        Sum([e \in DOMAIN generalEraInfo |->
                generalEraInfo[e].rewards.operators
                    + generalEraInfo[e].rewards.stakers])
            + accumulator.operators + accumulator.stakers

(* The claims of an era draw on that era's rewards alone: all together,    *)
(* operators and stakers get what was set aside for them, give or take the *)
(* rounding of each claim.                                                 *)
PayoutsWithinRewards ==
    \A e \in DOMAIN generalEraInfo :
        LET claims(role) == {r \in ReceiptsOf(role, e) : r.amount > 0}
        IN  /\ AmountOf(claims("operator")) <=
                   generalEraInfo[e].rewards.operators
                       + Cardinality(claims("operator"))
            /\ AmountOf(claims("staker")) <=
                   generalEraInfo[e].rewards.stakers
                       + Cardinality(claims("staker"))

(* However late and in whichever order claims come, a reward is the share  *)
(* that the stake had of all stakes in its own era, up to the rounding of  *)
(* the parts, once for an operator and twice for a staker, and of the      *)
(* whole units: more by at most one unit and the part in Accuracy that     *)
(* from_rational may add each time it cuts a large total, less by at most  *)
(* one unit and two parts of the era's fund each time.                     *)
ReceiptsAreFairShares ==
    \A r \in receipts :
        LET info == generalEraInfo[r.era]
            fund == IF r.role = "staker" THEN info.rewards.stakers
                                        ELSE info.rewards.operators
            exact == r.staked * fund   \* of which the share is 1/info.staked
        IN  /\ SaturatingSub(r.amount, 1) * info.staked * (Accuracy - 1) * (Accuracy - 1)
                   <= exact * Accuracy * Accuracy
            /\ exact * Accuracy <= (r.amount + 1) * info.staked * Accuracy
                                       + 4 * fund * info.staked

SameClaim(q, r) ==
    q.role = r.role /\ q.who = r.who /\ q.provider = r.provider /\ q.era = r.era

(* Whenever the pot pays, it pays for a stake and an era it has never paid *)
(* before, and never for an era from the provider's unregistration on.     *)
NoDoublePayment ==
    [][pot'.free < pot.free =>
          \E r \in receipts' :
              /\ \A q \in receipts : ~SameClaim(q, r)
              /\ IsUnregistered(r.provider) =>
                     r.era < registeredProviders[r.provider].since]_vars

(* The documentation of stake: "Effects of staking will be felt at the     *)
(* beginning of the next era."                                             *)
StakeFeltNextEra ==
    [][currentEra' = currentEra =>
          \A p \in Providers : ProviderStakeAt(p, currentEra)'.total
                                   <= ProviderStakeAt(p, currentEra).total]_vars

(* The documentation of ProviderState::Unregistered: "Claim for past eras  *)
(* and unstaking is still possible".                                       *)
UnstakingStillPossible ==
    \A s \in Accounts, p \in Providers :
        LET staked == LatestStakedValue(stakerInfo[s][p])
        IN  IsUnregistered(p) /\ staked > 0 => ENABLED Unstake(s, p, staked)

(* Whatever else the staker does, funds put into unbonding come back: a    *)
(* chunk waits for its era, however many chunks join it meanwhile, and is  *)
(* withdrawn once the era has come, also when it is long past.  (An era    *)
(* within the bound on eras.)                                              *)
UnbondingCompletes ==
    \A s \in Accounts, e \in (UnbondingPeriod + 1)..MaxEra :
        e \in DOMAIN ledger[s].unbonding ~> e \notin DOMAIN ledger[s].unbonding

(* The deposit of a provider that was unregistered comes back, unless the  *)
(* bound on eras cuts the unbonding short.                                 *)
DepositReturns ==
    \A p \in Providers :
        IsUnregistered(p)
            /\ registeredProviders[p].since + UnbondingPeriod < MaxEra
            ~> IsRegistered(p) /\ registeredProviders[p].unreserved
===============================================================================
