----------------------------- MODULE RuntimeProofs -----------------------------
(***************************************************************************)
(* Proofs about the blocks of the chain: what the proofs about DapiStaking *)
(* show of its own steps holds of the pallet among the others, where its   *)
(* rewards come from block-reward and from the projects of dapi.  At the   *)
(* end, with the bound on all tokens that this gives, the histories of the *)
(* pairings.                                                               *)
(***************************************************************************)
EXTENDS Runtime, StakingRewardsProofs

(* Rewards from another pallet: out of thin air, or paid by an account.    *)
Income(v) ==
    /\ AddRewards(v)
    /\ \/ UNCHANGED account
       \/ \E s \in Accounts :
              /\ CanSpend(account[s], v)
              /\ account' = [account EXCEPT ![s] = Spend(account[s], v)]
    /\ UNCHANGED <<ledger, stakerInfo, registeredProviders, providerEraStake,
                   generalEraInfo, eraVars, receipts>>

(* The steps of the staking pallet in the chain.                           *)
ChainStep == [Next]_vars \/ \E v \in Nat : Income(v)

LEMMA IncomeIInv ==
    ASSUME IInv, NEW v \in Nat, Income(v)
    PROVE  IInv'
<1> DEFINE operators == PartOf(OperatorRewardPercentage, v)
           stakers == SaturatingSub(v, operators)
<1>1. /\ accumulator' = [operators |-> accumulator.operators + operators,
                         stakers |-> accumulator.stakers + stakers]
      /\ pot' = Deposit(pot, v)
      /\ UNCHANGED <<ledger, stakerInfo, registeredProviders, providerEraStake,
                     generalEraInfo, currentEra, forceEra, now, receipts>>
  BY DEF Income, AddRewards, eraVars
<1>2. operators \in Nat /\ stakers \in Nat
  BY PartOfType, SaturatingSubType, DapiStakingAssumption
<1> HIDE DEF operators, stakers
<1>3. RewardsOK'
  <2>1. RewardsOK
    BY TypeParts DEF IInv
  <2>2. accumulator' \in RewardInfo
    BY <1>1, <1>2, <2>1 DEF RewardsOK, RewardInfo
  <2>3. pot' \in Account
    BY <1>1, <2>1, DepositType DEF RewardsOK
  <2> QED
    BY <1>1, <2>1, <2>2, <2>3 DEF RewardsOK
<1>4. AccountsOK' /\ LedgersOK' /\ LocksBacked'
  <2>1. CASE UNCHANGED account
    BY <1>1, <2>1, TypeParts DEF IInv, AccountsOK, LedgersOK, LocksBacked
  <2>2. ASSUME NEW s \in Accounts, CanSpend(account[s], v),
               account' = [account EXCEPT ![s] = Spend(account[s], v)]
        PROVE  AccountsOK' /\ LedgersOK' /\ LocksBacked'
    <3>1. Backed(Spend(account[s], v)) /\ Spend(account[s], v).lock = account[s].lock
      BY <2>2, AccountBacked, SpendBacked
    <3> QED
      BY <1>1, <2>2, <3>1, AccountStep
  <2> QED
    BY <2>1, <2>2 DEF Income
<1>5. /\ HistoriesOK' /\ HistoriesInOrder' /\ EraInfosOK' /\ ErasRecorded'
      /\ ProvidersOK' /\ EraStakesOK' /\ ErasOK'
  BY <1>1, TypeParts
     DEF IInv, HistoriesOK, HistoriesInOrder, EraInfosOK, ErasRecorded,
         ProvidersOK, EraStakesOK, ErasOK
<1> QED
  BY <1>3, <1>4, <1>5, TypePartsNext DEF IInv

LEMMA IncomeBooks ==
    ASSUME BooksInv, IInv', NEW v \in Nat, Income(v)
    PROVE  BooksInv'
<1>1. /\ UNCHANGED <<currentEra, ledger, generalEraInfo, stakerInfo,
                     registeredProviders, providerEraStake>>
      /\ \/ account' = account
         \/ \E s \in Accounts : account' = [account EXCEPT ![s] = Spend(account[s], v)]
  BY DEF Income, eraVars
<1>2. IInv /\ Books /\ DepositsReserved /\ AccountsOK
  BY TypeParts DEF BooksInv, IInv
<1>3. Books'
  BY <1>1, <1>2, QuietBooks
<1>4. \A a \in Accounts : account'[a].reserved = account[a].reserved
  <2>1. ASSUME NEW s \in Accounts, NEW a \in Accounts,
               account' = [account EXCEPT ![s] = Spend(account[s], v)]
        PROVE  account'[a].reserved = account[a].reserved
    <3>1. Spend(account[s], v).reserved = account[s].reserved
      BY <1>2 DEF AccountsOK, Account, Spend
    <3>2. account'[a] = IF a = s THEN Spend(account[s], v) ELSE account[a]
      BY <1>2, <2>1 DEF AccountsOK
    <3> QED
      BY <3>1, <3>2
  <2> QED
    BY <1>1, <2>1
<1>5. DepositsReserved'
  BY <1>1, <1>2, <1>4, SameDepositsKept
<1> QED
  BY <1>3, <1>5 DEF BooksInv

(* The invariants of the staking pallet hold in the chain.                 *)
LEMMA ChainMoney ==
    ASSUME MoneyInv, ChainStep
    PROVE  MoneyInv' /\ MoneyHandled /\ MoneyMoves
<1>1. CASE [Next]_vars
  BY <1>1, MoneyStep
<1>2. ASSUME NEW v \in Nat, Income(v)
      PROVE  MoneyInv' /\ MoneyHandled /\ MoneyMoves
  <2>1. /\ AddRewards(v)
        /\ UNCHANGED <<currentEra, ledger, stakerInfo, registeredProviders,
                       providerEraStake, generalEraInfo, receipts>>
    BY <1>2 DEF Income, eraVars
  <2>2. ClaimsInv /\ ErasInv /\ BooksInv /\ IInv
    BY DEF MoneyInv, ClaimsInv, ErasInv, BooksInv
  <2>3. BooksInv'
    BY <1>2, <2>2, IncomeIInv, IncomeBooks
  <2>4. SameEra
    BY <2>1, <2>2, <2>3, SameRegistry, QuietErasStep
  <2>5. ErasInv'
    BY <2>2, <2>3, <2>4, SameEraInv DEF SameEra
  <2>6. ClaimsInv'
    BY <2>1, <2>2, <2>4, <2>5, QuietClaims
  <2>7. MoneyHandled
    BY <2>1 DEF MoneyHandled, IncomeArrives
  <2> QED
    BY <2>6, <2>7, HandledMoney
<1> QED
  BY <1>1, <1>2 DEF ChainStep

-------------------------------------------------------------------------------
(* The pallet's account, whatever the existential deposit *)

LEMMA CallsInBlock ==
    ASSUME Calls \/ RegistryCalls
    PROVE  InBlock /\ UNCHANGED currentEra
<1>1. ASSUME NEW s \in Accounts, NEW p \in Providers, NEW v,
             \/ Stake(s, p, v) \/ Unstake(s, p, v)
             \/ Register(s, p, v) \/ RegisterStakeFails(s, p, v)
      PROVE  InBlock /\ UNCHANGED currentEra
  <2>1. InBlock
    BY <1>1 DEF Stake, Unstake, Register, RegisterStakeFails, RegisterChecks
  <2> QED
    BY <1>1, <2>1, StakingUntouched DEF MoneyUntouched
<1>2. ASSUME NEW s, NEW p,
             \/ WithdrawUnstaked(s) \/ WithdrawFromUnregisteredStaker(s, p)
             \/ WithdrawFromUnregisteredOperator(p) \/ Unregister(p)
      PROVE  InBlock /\ UNCHANGED currentEra
  <2>1. InBlock
    BY <1>2 DEF WithdrawUnstaked, WithdrawFromUnregisteredStaker,
                WithdrawFromUnregisteredOperator, Unregister
  <2> QED
    BY <1>2, <2>1, WithdrawalsUntouched DEF MoneyUntouched
<1>3. ASSUME NEW s, NEW p, NEW e, NEW v,
             \/ ClaimStaker(s, p) \/ ClaimOperator(p, e)
             \/ Rewards(v) \/ SpendElsewhere(s, v) \/ ForceNewEra
      PROVE  InBlock /\ UNCHANGED currentEra
  BY <1>3 DEF ClaimStaker, ClaimOperator, Rewards, SpendElsewhere, ForceNewEra, eraVars
<1>4. CASE Calls
  BY <1>1, <1>2, <1>3, <1>4 DEF Calls
<1>5. CASE RegistryCalls
  BY <1>1, <1>2, <1>5 DEF RegistryCalls
<1> QED
  BY <1>4, <1>5

LEMMA PaidWithinRewardedNext ==
    ClaimsInv' => (AmountOf(receipts) <= RewardedTotal + Cardinality(Payments))'
<1> DEFINE Within == AmountOf(receipts) <= RewardedTotal + Cardinality(Payments)
<1>1. ClaimsInv => Within
  BY PaidWithinRewarded
<1> HIDE DEF Within
<1>2. ClaimsInv' => Within'
  BY <1>1, PTL
<1> QED
  BY <1>2 DEF Within

LEMMA PaymentsFinite ==
    ClaimsInv => IsFiniteSet(Payments) /\ Cardinality(Payments) \in Nat
<1>1. ClaimsInv => IsFiniteSet(receipts)
  BY DEF ClaimsInv
<1>2. Payments \subseteq receipts
  BY DEF Payments
<1> QED
  BY <1>1, <1>2, FS_Subset, FS_CardinalityType

LEMMA PaymentsFiniteNext ==
    ClaimsInv' => IsFiniteSet(Payments') /\ Cardinality(Payments') \in Nat
<1> DEFINE Finite == IsFiniteSet(Payments) /\ Cardinality(Payments) \in Nat
<1>1. ClaimsInv => Finite
  BY PaymentsFinite
<1> HIDE DEF Finite
<1>2. ClaimsInv' => Finite'
  BY <1>1, PTL
<1> QED
  BY <1>2 DEF Finite

(* More claims paid need more income to make up for.                       *)
LEMMA IncomeLasts ==
    ASSUME ClaimsInv, ClaimsInv', receipts \subseteq receipts', IncomeKeepsPotAlive'
    PROVE  IncomeKeepsPotAlive
<1>1. Payments \subseteq Payments'
  BY DEF Payments
<1>2. Cardinality(Payments) <= Cardinality(Payments')
  BY <1>1, PaymentsFiniteNext, FS_Subset
<1>3. /\ Cardinality(Payments) \in Nat /\ Cardinality(Payments') \in Nat
      /\ RewardAmount \in Nat /\ ExistentialDeposit \in Nat
  BY PaymentsFinite, PaymentsFiniteNext, BlockRewardAssumption,
     ExistentialDepositAssumption
<1>4. RewardAmount >= ExistentialDeposit + Cardinality(Payments')
  BY DEF IncomeKeepsPotAlive, Payments
<1>5. RewardAmount >= ExistentialDeposit + Cardinality(Payments)
  BY <1>2, <1>3, <1>4
<1> QED
  BY <1>5 DEF IncomeKeepsPotAlive, Payments

(* The income of the era covers the account.                               *)
PotCovered == Gathered >= ExistentialDeposit + Cardinality(Payments)

(* Such an income keeps the account alive, before a step and after it.     *)
LEMMA CallsBurnNothing ==
    ASSUME MoneyInv, MoneyInv', PotWhole, PotCovered, PotCovered'
    PROVE  NoneBurned
<1>1. /\ IInv /\ IsFiniteSet(receipts) /\ ClaimsInv /\ ClaimsInv'
      /\ pot \in Account /\ pot.free \in Nat /\ pot.reserved = 0
      /\ Gathered \in Nat /\ RewardedTotal \in Nat /\ ExistentialDeposit \in Nat
  BY MoneyTypes, ErasFinite, ExistentialDepositAssumption
     DEF MoneyInv, ClaimsInv, ErasInv, BooksInv
<1>2. /\ Cardinality(Payments) \in Nat /\ Cardinality(Payments') \in Nat
      /\ AmountOf(receipts) \in Nat
  BY <1>1, PaymentsFinite, PaymentsFiniteNext, AmountType
<1>3. /\ Gathered >= ExistentialDeposit + Cardinality(Payments)
      /\ Gathered' >= ExistentialDeposit + Cardinality(Payments')
  BY DEF PotCovered
<1>4. ASSUME NEW v \in Nat, MoneyComes(v)
      PROVE  pot'.free = pot.free + v
  <2>1. AmountOf(receipts) <= RewardedTotal + Cardinality(Payments)
    BY <1>1, PaidWithinRewarded
  <2>2. pot.free + AmountOf(receipts) = RewardedTotal + Gathered
    BY DEF PotWhole, Received
  <2>3. pot.free >= ExistentialDeposit
    BY <1>1, <1>2, <1>3, <2>1, <2>2
  <2>4. pot' = Deposit(pot, v)
    BY <1>4 DEF MoneyComes
  <2> QED
    BY <1>1, <2>3, <2>4 DEF Deposit, Account
<1>5. ASSUME NEW r, MoneyPaid(r)
      PROVE  pot'.free = pot.free - r.amount
  <2>1. /\ AmountOf(receipts)' = AmountOf(receipts) + r.amount /\ r.amount \in Nat
    BY <1>1, <1>5, AmountGrows DEF MoneyPaid
  <2>2. AmountOf(receipts)' <= RewardedTotal' + Cardinality(Payments')
    BY <1>1, PaidWithinRewardedNext
  <2>3. pot.free + AmountOf(receipts) = RewardedTotal + Gathered
    BY DEF PotWhole, Received
  <2>4. RewardedTotal' = RewardedTotal /\ r.amount <= pot.free
    BY <1>1, <1>5, <2>1 DEF MoneyPaid
  <2>0. Gathered' = Gathered
    BY <1>5 DEF MoneyPaid, Gathered
  <2>5. pot.free - r.amount >= ExistentialDeposit
    BY <1>1, <1>2, <1>3, <2>0, <2>1, <2>2, <2>3, <2>4
  <2>6. CASE r.amount = 0
    BY <1>1, <1>5, <2>6 DEF MoneyPaid
  <2>7. CASE r.amount > 0
    <3>1. pot' = Withdraw(pot, r.amount)
      BY <1>5, <2>7 DEF MoneyPaid
    <3>2. pot.free - r.amount + pot.reserved = pot.free - r.amount
      BY <1>1, <2>1, <2>4
    <3>3. pot' = Spend(pot, r.amount)
      BY <1>1, <2>1, <2>4, <2>5, <3>1, <3>2 DEF Withdraw
    <3> QED
      BY <1>1, <3>3 DEF Spend, Account
  <2> QED
    BY <2>1, <2>6, <2>7
<1> QED
  BY <1>4, <1>5 DEF NoneBurned

LEMMA GatheredTypeNext == MoneyInv' => Gathered' \in Nat
<1> DEFINE Typed == Gathered \in Nat
<1>1. MoneyInv => Typed
  BY MoneyTypes DEF MoneyInv, ClaimsInv, ErasInv, BooksInv
<1> HIDE DEF Typed
<1>2. MoneyInv' => Typed'
  BY <1>1, PTL
<1> QED
  BY <1>2 DEF Typed

LEMMA WholePart ==
    ASSUME NEW x \in Nat
    PROVE  PartOf(Accuracy, x) = x
<1> DEFINE n == Accuracy * x
           d == n \div Accuracy
           m == n % Accuracy
           h == Accuracy \div 2
<1>1. Accuracy \in Nat /\ Accuracy > 0
  BY AccuracyAssumption
<1>2. d = x /\ m = 0
  BY <1>1
<1>3. h \in Nat
  BY <1>1
<1>4. PartOf(Accuracy, x) = d + (IF m > h THEN 1 ELSE 0)
  BY DEF PartOf
<1> HIDE DEF d, m, h
<1> QED
  BY <1>2, <1>3, <1>4

(* All rewards go to providers; in the calls of a block the block's income *)
(* has come; and the account is whole as long as the income lasts.         *)
BlocksInv ==
    /\ MoneyInv
    /\ rewardConfig.providers_percent = Accuracy
    /\ phase = "calls" /\ InBlock => Gathered >= RewardAmount
    /\ IncomeKeepsPotAlive => PotWhole

LEMMA BlocksStep ==
    ASSUME BlocksInv, [BlocksNext]_blockVars
    PROVE  BlocksInv'
<1>0. /\ MoneyInv /\ IInv /\ RewardAmount \in Nat /\ Gathered \in Nat
      /\ ExistentialDeposit \in Nat
  BY MoneyTypes, BlockRewardAssumption, ExistentialDepositAssumption
     DEF BlocksInv, MoneyInv, ClaimsInv, ErasInv, BooksInv
<1>1. CASE BeginBlock
  <2>1. /\ OnInitialize /\ [Next]_vars /\ phase' = "timestamp"
        /\ rewardConfig' = rewardConfig
    BY <1>1 DEF BeginBlock, Next, blockRewardVars
  <2>2. MoneyInv' /\ MoneyStays
    BY <1>0, <2>1, MoneyStep, OnInitializeMoney
  <2>3. PotWhole => PotWhole'
    BY <2>2 DEF PotWhole, MoneyStays
  <2>4. IncomeKeepsPotAlive' => IncomeKeepsPotAlive
    BY <2>2 DEF IncomeKeepsPotAlive, MoneyStays
  <2> QED
    BY <2>1, <2>2, <2>3, <2>4 DEF BlocksInv
<1>2. CASE OnTimestampSet
  <2>1. /\ rewardConfig' = rewardConfig /\ AddRewards(ProvidersPart)
        /\ UNCHANGED <<account, ledger, stakerInfo, registeredProviders,
                       providerEraStake, generalEraInfo, eraVars, receipts>>
    BY <1>2 DEF OnTimestampSet, DistributeRewards
  <2>2. ProvidersPart = RewardAmount
    BY <1>0, WholePart DEF BlocksInv, ProvidersPart
  <2>3. Income(RewardAmount)
    BY <2>1, <2>2 DEF Income
  <2>4. MoneyInv'
    BY <1>0, <2>3, ChainMoney DEF ChainStep
  <2>5. MoneyComes(RewardAmount)
    BY <1>0, <2>1, <2>2, IncomeComes DEF eraVars
  <2>6. Gathered' >= RewardAmount
    BY <1>0, <2>5 DEF MoneyComes
  <2>7. ASSUME IncomeKeepsPotAlive' PROVE PotWhole'
    <3>1. IncomeKeepsPotAlive /\ PotWhole
      BY <2>5, <2>7 DEF MoneyComes, IncomeKeepsPotAlive, BlocksInv
    <3>2. RewardAmount >= ExistentialDeposit
      BY <1>0, <3>1, PaymentsFinite DEF IncomeKeepsPotAlive, Payments, MoneyInv
    <3>3. pot' = Deposit(pot, RewardAmount) /\ pot \in Account
      BY <1>0, <2>5, MoneyTypes DEF MoneyComes
    <3>4. pot'.free = pot.free + RewardAmount
      BY <1>0, <3>2, <3>3 DEF Deposit, Account
    <3>5. /\ AmountOf(receipts) \in Nat /\ AmountOf(receipts)' = AmountOf(receipts)
          /\ pot.free \in Nat /\ Received' = Received + RewardAmount
      BY <1>0, <2>5, AmountType, MoneyTypes DEF MoneyComes, MoneyInv, ClaimsInv
    <3> QED
      BY <1>0, <3>1, <3>4, <3>5 DEF PotWhole
  <2> QED
    BY <2>1, <2>4, <2>6, <2>7 DEF BlocksInv
<1>3. CASE InCalls(Calls) \/ InCalls(RegistryCalls)
  <2>1. /\ phase = "calls" /\ phase' = phase /\ rewardConfig' = rewardConfig
        /\ Calls \/ RegistryCalls
    BY <1>3 DEF InCalls, blockRewardVars
  <2>2. InBlock /\ currentEra' = currentEra /\ InBlock' /\ Gathered >= RewardAmount
    BY <2>1, CallsInBlock DEF BlocksInv, InBlock
  <2>3. MoneyInv' /\ MoneyMoves
    BY <1>0, <2>1, MoneyStep DEF Next
  <2>4. Gathered' >= RewardAmount /\ receipts \subseteq receipts'
    BY <1>0, <2>2, <2>3
       DEF MoneyMoves, MoneyStays, MoneyComes, MoneyPaid, NewClaim, Gathered
  <2>5. ASSUME IncomeKeepsPotAlive' PROVE PotWhole'
    <3>1. IncomeKeepsPotAlive /\ PotWhole
      BY <1>0, <2>3, <2>4, <2>5, IncomeLasts DEF MoneyInv, BlocksInv
    <3>2. PotCovered /\ PotCovered'
      <4>1. /\ RewardAmount >= ExistentialDeposit + Cardinality(Payments)
            /\ RewardAmount >= ExistentialDeposit + Cardinality(Payments')
        BY <2>5, <3>1 DEF IncomeKeepsPotAlive, Payments
      <4>2. /\ Cardinality(Payments) \in Nat /\ Cardinality(Payments') \in Nat
            /\ Gathered' \in Nat
        BY <1>0, <2>3, PaymentsFinite, PaymentsFiniteNext, GatheredTypeNext DEF MoneyInv
      <4> QED
        BY <1>0, <2>2, <2>4, <4>1, <4>2 DEF PotCovered
    <3>3. NoneBurned
      BY <1>0, <2>3, <3>1, <3>2, CallsBurnNothing
    <3> QED
      BY <1>0, <2>3, <3>1, <3>3, PotStaysWhole
  <2> QED
    BY <2>1, <2>3, <2>4, <2>5 DEF BlocksInv
<1>4. CASE UNCHANGED blockVars
  <2>1. UNCHANGED vars /\ UNCHANGED <<phase, rewardConfig>>
    BY <1>4 DEF blockVars, blockRewardVars
  <2>2. MoneyInv' /\ MoneyUntouched
    BY <1>0, <2>1, MoneyStep, OthersUntouched
  <2>3. MoneyStays
    BY <1>0, <2>2, QuietMoney DEF MoneyUntouched, MoneyInv
  <2>4. /\ PotWhole => PotWhole'
        /\ IncomeKeepsPotAlive' => IncomeKeepsPotAlive
        /\ Gathered' = Gathered /\ (InBlock' <=> InBlock)
    BY <2>2, <2>3 DEF PotWhole, MoneyStays, IncomeKeepsPotAlive, MoneyUntouched,
                      Gathered, InBlock
  <2> QED
    BY <2>1, <2>2, <2>4 DEF BlocksInv
<1> QED
  BY <1>1, <1>2, <1>3, <1>4 DEF BlocksNext

(* Although the pallet's account pays with AllowDeath, no token in it is   *)
(* ever burned, whatever the existential deposit: the income of a block    *)
(* comes before its calls and cannot be claimed yet, and what was claimed  *)
(* of earlier eras is within their rewards but for a unit per claim.       *)
THEOREM PotStaysAlive == BlocksSpec => []PotNeverDies
<1>1. BlocksInit => BlocksInv
  <2> SUFFICES ASSUME BlocksInit PROVE BlocksInv
    OBVIOUS
  <2>1. MoneyInv /\ PotWhole
    BY InitMoney DEF BlocksInit
  <2>2. rewardConfig.providers_percent = Accuracy
    BY DEF BlocksInit, BlockRewardInit
  <2>3. ~InBlock
    BY DEF BlocksInit, Init, InBlock
  <2> QED
    BY <2>1, <2>2, <2>3 DEF BlocksInv
<1>2. BlocksInv /\ [BlocksNext]_blockVars => BlocksInv'
  BY BlocksStep
<1>3. BlocksInv => PotNeverDies
  BY PotWholeMatches DEF BlocksInv, PotNeverDies, MoneyInv, ClaimsInv, ErasInv
<1> QED
  BY <1>1, <1>2, <1>3, PTL DEF BlocksSpec

-------------------------------------------------------------------------------
(* The steps of the runtime are steps of the staking pallet in its chain *)

LEMMA PartsOfReward ==
    BlockRewardTypeOK =>
        /\ ProvidersPart \in 0..RewardAmount
        /\ PartOf(rewardConfig.providers_percent, RewardAmount) = ProvidersPart
        /\ PartOf(rewardConfig.validators_percent, RewardAmount) \in Nat
<1> SUFFICES ASSUME BlockRewardTypeOK
             PROVE  /\ ProvidersPart \in 0..RewardAmount
                    /\ PartOf(rewardConfig.providers_percent, RewardAmount) = ProvidersPart
                    /\ PartOf(rewardConfig.validators_percent, RewardAmount) \in Nat
  OBVIOUS
<1>1. /\ rewardConfig.providers_percent \in Nat
      /\ rewardConfig.providers_percent <= Accuracy
      /\ rewardConfig.validators_percent \in Nat
      /\ rewardConfig.validators_percent <= Accuracy
      /\ RewardAmount \in Nat
  BY AccuracyAssumption, BlockRewardAssumption
     DEF BlockRewardTypeOK, RewardDistributionConfig
<1>2. /\ PartOf(rewardConfig.providers_percent, RewardAmount) \in Nat
      /\ PartOf(rewardConfig.providers_percent, RewardAmount) <= RewardAmount
      /\ PartOf(rewardConfig.validators_percent, RewardAmount) \in Nat
  BY <1>1, PartOfWithin
<1> QED
  BY <1>1, <1>2 DEF ProvidersPart

LEMMA PayProjectChain ==
    ASSUME NEW a \in Accounts, NEW v \in PaymentAmounts, PayProject(a, v)
    PROVE  ChainStep
<1>1. v \in Nat
  BY DapiAssumption
<1>2. CASE v = 0
  <2>1. UNCHANGED vars
    BY <1>2 DEF PayProject, vars, eraVars
  <2> QED
    BY <2>1 DEF ChainStep
<1>3. CASE v > 0
  <2>1. Income(v)
    BY <1>3 DEF PayProject, Income
  <2> QED
    BY <1>1, <2>1 DEF ChainStep
<1> QED
  BY <1>1, <1>2, <1>3

LEMMA DapiCallsChain ==
    ASSUME DapiCalls
    PROVE  ChainStep
<1>1. CASE Calls
  BY <1>1 DEF ChainStep, Next
<1>2. ASSUME NEW a \in Accounts, NEW j, NEW c, NEW v \in PaymentAmounts,
             RegisterProject(a, j, c, v) \/ DepositProject(a, j, v)
      PROVE  ChainStep
  <2>1. PayProject(a, v)
    BY <1>2 DEF RegisterProject, DepositProject
  <2> QED
    BY <2>1, PayProjectChain
<1>3. ASSUME NEW a \in Accounts, NEW p \in Providers, NEW v \in DepositAmounts,
             DepositProvider(a, p, v)
      PROVE  ChainStep
  <2>1. Register(a, p, v) \/ RegisterStakeFails(a, p, v)
    BY <1>3 DEF DepositProvider
  <2> QED
    BY <2>1 DEF ChainStep, Next, RegistryCalls
<1>4. ASSUME NEW a \in Accounts, NEW p \in Providers,
             UnregisterProvider(a, p) \/ ReportProviderOffence(a, p)
      PROVE  ChainStep
  <2>1. Unregister(p)
    BY <1>4 DEF UnregisterProvider, ReportProviderOffence, Deactivate
  <2> QED
    BY <2>1 DEF ChainStep, Next, RegistryCalls
<1>5. ASSUME NEW a, NEW j, NEW u, NEW p, NEW o, NEW c,
             \/ SubmitProjectUsage(a, j, u) \/ RegisterProvider(a, p, o, c)
             \/ AddRegulator(a) \/ RemoveRegulator(a)
             \/ AddChainId(c) \/ RemoveChainId(c)
      PROVE  ChainStep
  <2>1. UNCHANGED vars
    BY <1>5 DEF SubmitProjectUsage, RegisterProvider, AddRegulator, RemoveRegulator,
                AddChainId, RemoveChainId, stakingVars
  <2> QED
    BY <2>1 DEF ChainStep
<1> QED
  BY <1>1, <1>2, <1>3, <1>4, <1>5 DEF DapiCalls

LEMMA RuntimeChain ==
    ASSUME BlockRewardTypeOK, [RuntimeNext]_runtimeVars
    PROVE  ChainStep
<1>1. CASE BeginBlock
  BY <1>1 DEF BeginBlock, ChainStep, Next
<1>2. CASE OnTimestampSet
  <2>1. Income(ProvidersPart)
    BY <1>2 DEF OnTimestampSet, Income
  <2>2. ProvidersPart \in Nat
    BY PartsOfReward, BlockRewardAssumption
  <2> QED
    BY <2>1, <2>2 DEF ChainStep
<1>3. CASE Reconfigure
  BY <1>3 DEF Reconfigure, ChainStep, stakingVars
<1>4. CASE InCalls(DapiCalls)
  BY <1>4, DapiCallsChain DEF InCalls
<1>5. CASE UNCHANGED runtimeVars
  BY <1>5 DEF runtimeVars, ChainStep, stakingVars
<1> QED
  BY <1>1, <1>2, <1>3, <1>4, <1>5 DEF RuntimeNext

-------------------------------------------------------------------------------
(* The issuance of a block *)

(* The remainders of two parts that make up the whole cannot both be above *)
(* the half, so that rounding never makes more of an amount than there is. *)
LEMMA SplitLosesLittle ==
    ASSUME NEW k \in Nat, NEW l \in Nat, k + l = Accuracy, NEW x \in Nat
    PROVE  /\ PartOf(k, x) + PartOf(l, x) <= x
           /\ x <= PartOf(k, x) + PartOf(l, x) + 1
<1> DEFINE A == Accuracy
           h == A \div 2
           d(n) == (n * x) \div A
           m(n) == (n * x) % A
           dk == d(k)
           dl == d(l)
           mk == m(k)
           ml == m(l)
           uk == IF mk > h THEN 1 ELSE 0
           ul == IF ml > h THEN 1 ELSE 0
<1>1. A \in Nat /\ A > 0
  BY AccuracyAssumption
<1>2. PartOf(k, x) = dk + uk /\ PartOf(l, x) = dl + ul
  BY DEF PartOf
<1>3. ASSUME NEW n \in Nat
      PROVE  d(n) \in Nat /\ m(n) \in Nat /\ m(n) < A /\ n * x = A * d(n) + m(n)
  <2>1. n * x \in Nat
    OBVIOUS
  <2> QED
    BY <1>1, <2>1
<1>4. h \in Nat /\ 2 * h <= A /\ A <= 2 * h + 1
  BY <1>1
<1>5. /\ dk \in Nat /\ mk \in Nat /\ mk < A /\ k * x = A * dk + mk
      /\ dl \in Nat /\ ml \in Nat /\ ml < A /\ l * x = A * dl + ml
  BY <1>3
<1>6. k * x + l * x = A * x
  BY DEF A
<1> HIDE DEF A, h, d, m, dk, dl, mk, ml
<1>7. A * (dk + dl) + (mk + ml) = A * x
  BY <1>1, <1>5, <1>6
<1>8. \/ x = dk + dl /\ mk + ml = 0
      \/ x = dk + dl + 1 /\ mk + ml = A
  <2> DEFINE t == x - (dk + dl)
  <2>1. t \in Int /\ x = dk + dl + t
    BY <1>5
  <2>2. A * x = A * (dk + dl) + A * t
    BY <1>1, <1>5, <2>1
  <2> HIDE DEF t
  <2>3. A * t \in Int /\ A * (dk + dl) \in Nat
    BY <1>1, <1>5, <2>1
  <2>4. mk + ml = A * t
    BY <1>5, <1>7, <2>2, <2>3
  <2>5. t < 2
    <3> SUFFICES ASSUME t >= 2 PROVE FALSE
      BY <2>1
    <3>1. A * t >= A * 2
      BY <1>1, <2>1
    <3> QED
      BY <1>1, <1>5, <2>4, <3>1
  <2>6. t > -1
    <3> SUFFICES ASSUME t <= -1 PROVE FALSE
      BY <2>1
    <3>1. A * t <= A * (-1)
      BY <1>1, <2>1
    <3> QED
      BY <1>1, <1>5, <2>4, <3>1
  <2>7. t = 0 \/ t = 1
    BY <2>1, <2>5, <2>6
  <2> QED
    BY <1>1, <1>5, <2>1, <2>4, <2>7
<1>9. uk \in Nat /\ ul \in Nat /\ uk <= 1 /\ ul <= 1
  OBVIOUS
<1>10. uk + ul <= x - (dk + dl) /\ x - (dk + dl) <= uk + ul + 1
  BY <1>1, <1>4, <1>5, <1>8
<1> HIDE DEF uk, ul
<1> QED
  BY <1>2, <1>5, <1>9, <1>10

(* The configuration stays consistent.                                     *)
RewardInv == BlockRewardTypeOK /\ IsConsistent(rewardConfig) /\ IssuanceDistributed

LEMMA ConsistentSplit ==
    ASSUME BlockRewardTypeOK, IsConsistent(rewardConfig)
    PROVE  /\ PartOf(rewardConfig.validators_percent, RewardAmount)
                  <= RewardAmount - ProvidersPart
           /\ ValidatorsPart \in Nat /\ ProvidersPart \in Nat
           /\ ProvidersPart + ValidatorsPart <= RewardAmount
           /\ RewardAmount <= ProvidersPart + ValidatorsPart + 1
<1> DEFINE k == rewardConfig.providers_percent
           l == rewardConfig.validators_percent
<1>1. /\ k \in Nat /\ l \in Nat /\ k + l = Accuracy /\ RewardAmount \in Nat
  BY AccuracyAssumption, BlockRewardAssumption
     DEF BlockRewardTypeOK, RewardDistributionConfig, IsConsistent
<1>2. /\ ProvidersPart \in 0..RewardAmount /\ PartOf(k, RewardAmount) = ProvidersPart
      /\ PartOf(l, RewardAmount) \in Nat
  BY PartsOfReward
<1> HIDE DEF k, l
<1>3. /\ ProvidersPart + PartOf(l, RewardAmount) <= RewardAmount
      /\ RewardAmount <= ProvidersPart + PartOf(l, RewardAmount) + 1
  BY <1>1, <1>2, SplitLosesLittle
<1>4. PartOf(l, RewardAmount) <= RewardAmount - ProvidersPart
  BY <1>1, <1>2, <1>3
<1>5. ValidatorsPart = PartOf(l, RewardAmount)
  BY <1>4 DEF ValidatorsPart, l
<1> QED
  BY <1>1, <1>2, <1>3, <1>4, <1>5 DEF l

LEMMA ConsistentSplitNext ==
    BlockRewardTypeOK' /\ IsConsistent(rewardConfig)' =>
        PartOf(rewardConfig'.validators_percent, RewardAmount)
            <= RewardAmount - ProvidersPart'
<1> DEFINE Left == PartOf(rewardConfig.validators_percent, RewardAmount)
                       <= RewardAmount - ProvidersPart
<1>1. BlockRewardTypeOK /\ IsConsistent(rewardConfig) => Left
  BY ConsistentSplit
<1> HIDE DEF Left
<1>2. BlockRewardTypeOK' /\ IsConsistent(rewardConfig)' => Left'
  BY <1>1, PTL
<1> QED
  BY <1>2 DEF Left

LEMMA DistributeRewardsInv ==
    ASSUME RewardInv, DistributeRewards
    PROVE  RewardInv'
<1> DEFINE b == minted.blocks
           p == minted.providers
           v == minted.validators
           R == RewardAmount
<1>1. /\ minted \in [blocks : Nat, providers : Nat, validators : Nat]
      /\ b \in Nat /\ p \in Nat /\ v \in Nat /\ R \in Nat
  BY BlockRewardAssumption DEF RewardInv, BlockRewardTypeOK
<1>2. /\ minted'.blocks = b + 1 /\ minted'.providers = p + ProvidersPart
      /\ minted'.validators = v + ValidatorsPart
      /\ minted' = [blocks |-> b + 1, providers |-> p + ProvidersPart,
                    validators |-> v + ValidatorsPart]
      /\ rewardConfig' = rewardConfig
  BY DEF DistributeRewards
<1>3. /\ ValidatorsPart \in Nat /\ ProvidersPart \in Nat
      /\ ProvidersPart + ValidatorsPart <= R
      /\ R <= ProvidersPart + ValidatorsPart + 1
  BY ConsistentSplit DEF RewardInv
<1>4. p + v <= b * R /\ b * R <= p + v + b
  BY DEF RewardInv, IssuanceDistributed
<1> HIDE DEF b, p, v, R
<1>5. (b + 1) * R = b * R + R /\ b * R \in Nat
  BY <1>1
<1>6. /\ minted'.providers + minted'.validators <= minted'.blocks * R
      /\ minted'.blocks * R <= minted'.providers + minted'.validators + minted'.blocks
  BY <1>1, <1>2, <1>3, <1>4, <1>5
<1>7. BlockRewardTypeOK'
  BY <1>1, <1>2, <1>3 DEF RewardInv, BlockRewardTypeOK
<1>8. ProvidersPart' = ProvidersPart
  BY <1>2 DEF ProvidersPart
<1> QED
  BY <1>2, <1>6, <1>7, <1>8 DEF RewardInv, IssuanceDistributed, R

LEMMA SetConfigurationInv ==
    ASSUME RewardInv, NEW c \in RewardConfigs, SetConfiguration(c)
    PROVE  RewardInv'
<1>1. rewardConfig' = c /\ minted' = minted /\ IsConsistent(c)
  BY DEF SetConfiguration
<1>2. BlockRewardTypeOK' /\ IsConsistent(rewardConfig)'
  BY <1>1, BlockRewardAssumption DEF RewardInv, BlockRewardTypeOK, IsConsistent
<1>3. PartOf(rewardConfig'.validators_percent, RewardAmount)
          <= RewardAmount - ProvidersPart'
  BY <1>2, ConsistentSplitNext
<1> QED
  BY <1>1, <1>2, <1>3 DEF RewardInv, IssuanceDistributed

-------------------------------------------------------------------------------
(* Projects and providers of pallet dapi *)

ProjectsOK ==
    /\ DOMAIN projects \subseteq Projects
    /\ \A j \in DOMAIN projects : projects[j] \in Project
    /\ paid \in [Projects -> Nat]
DapiProvidersOK ==
    /\ DOMAIN providers \subseteq Providers
    /\ \A p \in DOMAIN providers : providers[p] \in Provider
NamesOK == regulators \subseteq Accounts /\ chainIds \subseteq ChainNames

DapiInv ==
    ProjectsOK /\ DapiProvidersOK /\ NamesOK /\ PalletsAgree /\ UsageWithinPayments

(* A project after a call: what it may use is paid for.                    *)
ProjectPaid(q, amount) ==
    q \in Project /\ q.usage <= q.quota /\ q.quota * QuotaUnit <= amount

LEMMA QuotaIsPaid ==
    ASSUME NEW v \in Nat
    PROVE  CalculateQuota(v) \in Nat /\ CalculateQuota(v) * QuotaUnit <= v
<1>1. QuotaUnit \in Nat /\ QuotaUnit > 0
  BY DapiAssumption
<1> DEFINE d == v \div QuotaUnit
<1>2. d \in Nat /\ QuotaUnit * d <= v
  BY <1>1
<1> HIDE DEF d
<1>3. d * QuotaUnit <= v
  BY <1>1, <1>2
<1> QED
  BY <1>2, <1>3 DEF CalculateQuota, d

LEMMA OneProject ==
    ASSUME ProjectsOK, UsageWithinPayments, NEW j \in Projects, NEW q,
           NEW n \in Nat, ProjectPaid(q, n),
           projects' = [i \in DOMAIN projects \cup {j} |->
                            IF i = j THEN q ELSE projects[i]],
           paid' = [paid EXCEPT ![j] = n]
    PROVE  ProjectsOK' /\ UsageWithinPayments'
<1>1. DOMAIN projects' = DOMAIN projects \cup {j}
  OBVIOUS
<1>2. \A i \in DOMAIN projects' : projects'[i] = IF i = j THEN q ELSE projects[i]
  OBVIOUS
<1>3. /\ paid' \in [Projects -> Nat] /\ paid'[j] = n
      /\ \A i \in Projects : i # j => paid'[i] = paid[i]
  BY DEF ProjectsOK
<1>4. ProjectsOK'
  BY <1>1, <1>2, <1>3 DEF ProjectsOK, ProjectPaid
<1>5. ASSUME NEW i \in DOMAIN projects'
      PROVE  /\ projects'[i].usage <= projects'[i].quota
             /\ projects'[i].quota * QuotaUnit <= paid'[i]
  <2>1. CASE i = j
    BY <1>2, <1>3, <2>1 DEF ProjectPaid
  <2>2. CASE i # j
    BY <1>1, <1>2, <1>3, <2>2 DEF ProjectsOK, UsageWithinPayments
  <2> QED
    BY <2>1, <2>2
<1> QED
  BY <1>4, <1>5 DEF UsageWithinPayments

LEMMA RegisterProjectStep ==
    ASSUME ProjectsOK, UsageWithinPayments, NEW a \in Accounts, NEW j \in Projects,
           NEW c \in ChainNames, NEW v \in PaymentAmounts, RegisterProject(a, j, c, v)
    PROVE  ProjectsOK' /\ UsageWithinPayments'
<1> DEFINE q == [consumer |-> a, chain_id |-> c, quota |-> CalculateQuota(v), usage |-> 0]
           n == paid[j] + v
<1>1. /\ v \in Nat /\ paid[j] \in Nat /\ QuotaUnit \in Nat
      /\ CalculateQuota(v) \in Nat /\ CalculateQuota(v) * QuotaUnit <= v
  BY DapiAssumption, QuotaIsPaid DEF ProjectsOK
<1>2. q \in Project /\ q.usage = 0 /\ q.quota = CalculateQuota(v) /\ n \in Nat /\ v <= n
  BY <1>1 DEF Project
<1>3. /\ projects' = [i \in DOMAIN projects \cup {j} |-> IF i = j THEN q ELSE projects[i]]
      /\ paid' = [paid EXCEPT ![j] = n]
  BY DEF RegisterProject, Insert
<1> HIDE DEF q, n
<1>4. q.quota * QuotaUnit <= n /\ q.usage <= q.quota
  <2> DEFINE cost == CalculateQuota(v) * QuotaUnit
  <2>1. cost \in Nat /\ cost <= v /\ q.quota * QuotaUnit = cost
    BY <1>1, <1>2
  <2> HIDE DEF cost
  <2> QED
    BY <1>1, <1>2, <2>1
<1>5. ProjectPaid(q, n)
  BY <1>2, <1>4 DEF ProjectPaid
<1> QED
  BY <1>2, <1>3, <1>5, OneProject

LEMMA DepositProjectStep ==
    ASSUME ProjectsOK, UsageWithinPayments, NEW a \in Accounts, NEW j \in Projects,
           NEW v \in PaymentAmounts, DepositProject(a, j, v)
    PROVE  ProjectsOK' /\ UsageWithinPayments'
<1> DEFINE old == projects[j]
           more == CalculateQuota(v)
           q == [old EXCEPT !.quota = old.quota + more]
           n == paid[j] + v
<1>1. /\ v \in Nat /\ paid[j] \in Nat /\ QuotaUnit \in Nat
      /\ more \in Nat /\ more * QuotaUnit <= v
  BY DapiAssumption, QuotaIsPaid DEF ProjectsOK
<1>2. /\ j \in DOMAIN projects /\ old \in Project
      /\ old.usage <= old.quota /\ old.quota * QuotaUnit <= paid[j]
  BY DEF DepositProject, ProjectsOK, UsageWithinPayments
<1>3. /\ projects' = [projects EXCEPT ![j] = q]
      /\ paid' = [paid EXCEPT ![j] = n]
  BY DEF DepositProject
<1> HIDE DEF old, more
<1>4. /\ q \in Project /\ q.usage = old.usage /\ q.quota = old.quota + more
      /\ old.usage \in Nat /\ old.quota \in Nat /\ n \in Nat
  BY <1>1, <1>2 DEF Project
<1> HIDE DEF q, n
<1>5. projects' = [i \in DOMAIN projects \cup {j} |-> IF i = j THEN q ELSE projects[i]]
  BY <1>2, <1>3
<1>6. q.quota * QuotaUnit <= n /\ q.usage <= q.quota
  <2> DEFINE x == old.quota * QuotaUnit
             y == more * QuotaUnit
  <2>1. /\ x \in Nat /\ y \in Nat /\ x <= paid[j] /\ y <= v
        /\ q.quota * QuotaUnit = x + y
    BY <1>1, <1>2, <1>4
  <2> HIDE DEF x, y
  <2> QED
    BY <1>1, <1>2, <1>4, <2>1 DEF n
<1>7. ProjectPaid(q, n)
  BY <1>4, <1>6 DEF ProjectPaid
<1> QED
  BY <1>3, <1>4, <1>5, <1>7, OneProject

LEMMA SubmitProjectUsageStep ==
    ASSUME ProjectsOK, UsageWithinPayments, NEW a \in Accounts, NEW j \in Projects,
           NEW u \in UsageAmounts, SubmitProjectUsage(a, j, u)
    PROVE  ProjectsOK' /\ UsageWithinPayments'
<1> DEFINE old == projects[j]
           q == [old EXCEPT !.usage = UsageAfter(j, u)]
           n == paid[j]
<1>1. /\ j \in DOMAIN projects /\ old \in Project
      /\ old.quota * QuotaUnit <= paid[j] /\ n \in Nat /\ u \in Nat
  BY DapiAssumption DEF SubmitProjectUsage, ProjectsOK, UsageWithinPayments
<1>2. old.usage \in Nat /\ old.quota \in Nat
  BY <1>1 DEF Project
<1>3. UsageAfter(j, u) \in Nat /\ UsageAfter(j, u) <= old.quota
  BY <1>1, <1>2 DEF UsageAfter, Lesser
<1>4. projects' = [projects EXCEPT ![j] = q] /\ paid' = paid
  BY DEF SubmitProjectUsage
<1>5. paid' = [paid EXCEPT ![j] = n]
  BY <1>4 DEF ProjectsOK
<1> HIDE DEF old
<1>6. q \in Project /\ q.quota = old.quota /\ q.usage = UsageAfter(j, u)
  BY <1>1, <1>3 DEF Project
<1> HIDE DEF q, n
<1>7. projects' = [i \in DOMAIN projects \cup {j} |-> IF i = j THEN q ELSE projects[i]]
  BY <1>1, <1>4
<1>8. ProjectPaid(q, n)
  BY <1>1, <1>3, <1>6 DEF ProjectPaid, n
<1> QED
  BY <1>1, <1>5, <1>7, <1>8, OneProject

(* The calls of dapi-staking leave alone who operates which provider, and  *)
(* which providers are active.                                             *)
RegistryKept ==
    /\ DOMAIN registeredProviders' = DOMAIN registeredProviders
    /\ \A p \in DOMAIN registeredProviders :
           /\ registeredProviders'[p].operator = registeredProviders[p].operator
           /\ registeredProviders'[p].state = registeredProviders[p].state

LEMMA CallsKeepRegistry ==
    ASSUME IInv, Calls
    PROVE  RegistryKept
<1>1. ASSUME NEW s, NEW p, NEW e, NEW v,
             \/ ForceNewEra \/ Rewards(v) \/ SpendElsewhere(s, v)
             \/ ClaimStaker(s, p) \/ ClaimOperator(p, e)
      PROVE  RegistryKept
  BY <1>1 DEF ForceNewEra, Rewards, SpendElsewhere, ClaimStaker, ClaimOperator, RegistryKept
<1>2. ASSUME NEW s, NEW p, NEW v,
             \/ Stake(s, p, v) \/ Unstake(s, p, v) \/ WithdrawUnstaked(s)
             \/ WithdrawFromUnregisteredStaker(s, p)
      PROVE  RegistryKept
  BY <1>2 DEF Stake, Unstake, WithdrawUnstaked, WithdrawFromUnregisteredStaker, RegistryKept
<1>3. ASSUME NEW p \in Providers, WithdrawFromUnregisteredOperator(p)
      PROVE  RegistryKept
  <2>1. /\ p \in DOMAIN registeredProviders
        /\ registeredProviders' = [registeredProviders EXCEPT ![p] = MarkUnreserved(p)]
    BY <1>3 DEF WithdrawFromUnregisteredOperator, UnbondedSinceUnregistered,
                IsUnregistered, IsRegistered
  <2>2. registeredProviders[p] \in ProviderInfo
    BY <2>1, TypeParts DEF IInv, ProvidersOK
  <2>3. /\ MarkUnreserved(p).operator = registeredProviders[p].operator
        /\ MarkUnreserved(p).state = registeredProviders[p].state
    BY <2>2 DEF MarkUnreserved, ProviderInfo
  <2> QED
    BY <2>1, <2>3 DEF RegistryKept
<1> QED
  BY <1>1, <1>2, <1>3 DEF Calls

LEMMA AgreementKept ==
    ASSUME PalletsAgree, RegistryKept, UNCHANGED providers
    PROVE  PalletsAgree'
<1>1. \A p : /\ IsUnregistered(p)' <=> IsUnregistered(p)
             /\ IsActiveProvider(p)' <=> IsActiveProvider(p)
  BY DEF RegistryKept, IsUnregistered, IsActiveProvider, IsRegistered
<1> QED
  BY <1>1 DEF PalletsAgree, RegistryKept

LEMMA RegisterProviderStep ==
    ASSUME DapiProvidersOK, NamesOK, PalletsAgree, NEW a, NEW p \in Providers,
           NEW o \in Accounts, NEW c \in ChainNames, RegisterProvider(a, p, o, c)
    PROVE  DapiProvidersOK' /\ PalletsAgree'
<1> DEFINE new == [operator |-> o, chain_id |-> c, state |-> "Registered"]
<1>1. /\ p \notin DOMAIN providers /\ registeredProviders' = registeredProviders
      /\ providers' = [x \in DOMAIN providers \cup {p} |->
                           IF x = p THEN new ELSE providers[x]]
  BY DEF RegisterProvider, Insert, stakingVars, vars
<1>2. new \in Provider /\ new.state = "Registered"
  BY DEF Provider
<1> HIDE DEF new
<1>3. /\ DOMAIN providers' = DOMAIN providers \cup {p} /\ providers'[p] = new
      /\ \A x \in DOMAIN providers : providers'[x] = providers[x]
  BY <1>1
<1>4. DapiProvidersOK'
  BY <1>2, <1>3 DEF DapiProvidersOK
<1>5. p \notin DOMAIN registeredProviders
  BY <1>1 DEF PalletsAgree
<1>6. \A x : /\ IsUnregistered(x)' <=> IsUnregistered(x)
             /\ IsActiveProvider(x)' <=> IsActiveProvider(x)
  BY <1>1 DEF IsUnregistered, IsActiveProvider, IsRegistered
<1>7. ~IsUnregistered(p)
  BY <1>5 DEF IsUnregistered, IsRegistered
<1> QED
  BY <1>1, <1>2, <1>3, <1>4, <1>5, <1>6, <1>7 DEF PalletsAgree

LEMMA DepositProviderStep ==
    ASSUME IInv, DapiProvidersOK, PalletsAgree, NEW o \in Accounts,
           NEW p \in Providers, NEW v \in DepositAmounts, DepositProvider(o, p, v)
    PROVE  DapiProvidersOK' /\ PalletsAgree'
<1>1. /\ p \in DOMAIN providers /\ providers[p].operator = o
      /\ providers[p].state = "Registered" /\ providers[p] \in Provider
  BY DEF DepositProvider, CanDeposit, DapiProvidersOK
<1>2. /\ p \notin DOMAIN registeredProviders
      /\ registeredProviders' =
             [x \in DOMAIN registeredProviders \cup {p} |->
                 IF x = p THEN NewProvider(o) ELSE registeredProviders[x]]
  BY DEF DepositProvider, Register, RegisterStakeFails, RegisterChecks, IsRegistered, Insert
<1>3. NewProvider(o).operator = o /\ NewProvider(o).state = "Registered"
  BY DEF NewProvider
<1>4. /\ DOMAIN registeredProviders' = DOMAIN registeredProviders \cup {p}
      /\ registeredProviders'[p].operator = o
      /\ registeredProviders'[p].state = "Registered"
      /\ \A x \in DOMAIN registeredProviders :
             registeredProviders'[x] = registeredProviders[x]
  BY <1>2, <1>3
<1>5. IsActiveProvider(p)' /\ ~IsUnregistered(p)'
  BY <1>4 DEF IsActiveProvider, IsUnregistered, IsRegistered
<1>6. \A x : x # p => /\ IsUnregistered(x)' <=> IsUnregistered(x)
                      /\ IsActiveProvider(x)' <=> IsActiveProvider(x)
  BY <1>4 DEF IsUnregistered, IsActiveProvider, IsRegistered
<1>7. /\ DOMAIN providers' = DOMAIN providers /\ providers'[p] \in Provider
      /\ providers'[p].operator = o /\ providers'[p].state \in {"Registered", "Active"}
      /\ \A x \in DOMAIN providers : x # p => providers'[x] = providers[x]
  <2>1. CASE UNCHANGED providers
    BY <1>1, <2>1
  <2>2. CASE SetProviderState(p, "Active")
    BY <1>1, <2>2 DEF SetProviderState, Provider
  <2> QED
    BY <2>1, <2>2 DEF DepositProvider
<1>8. DapiProvidersOK'
  BY <1>7 DEF DapiProvidersOK
<1> QED
  BY <1>1, <1>2, <1>4, <1>5, <1>6, <1>7, <1>8 DEF PalletsAgree

LEMMA DeactivateStep ==
    ASSUME IInv, DapiProvidersOK, PalletsAgree, NEW p \in Providers,
           p \in DOMAIN providers, Deactivate(p)
    PROVE  DapiProvidersOK' /\ PalletsAgree'
<1>1. /\ p \in DOMAIN registeredProviders
      /\ registeredProviders' = [registeredProviders EXCEPT ![p] =
             [registeredProviders[p] EXCEPT
                 !.state = "Unregistered", !.since = currentEra]]
  BY DEF Deactivate, Unregister, IsActiveProvider, IsRegistered
<1>2. registeredProviders[p] \in ProviderInfo
  BY <1>1, TypeParts DEF IInv, ProvidersOK
<1>3. /\ DOMAIN registeredProviders' = DOMAIN registeredProviders
      /\ registeredProviders'[p].operator = registeredProviders[p].operator
      /\ registeredProviders'[p].state = "Unregistered"
      /\ \A x \in DOMAIN registeredProviders : x # p =>
             registeredProviders'[x] = registeredProviders[x]
  BY <1>1, <1>2 DEF ProviderInfo
<1>4. IsUnregistered(p)'
  BY <1>1, <1>3 DEF IsUnregistered, IsRegistered
<1>5. \A x : x # p => /\ IsUnregistered(x)' <=> IsUnregistered(x)
                      /\ IsActiveProvider(x)' <=> IsActiveProvider(x)
  BY <1>3 DEF IsUnregistered, IsActiveProvider, IsRegistered
<1>6. providers[p] \in Provider
  BY DEF DapiProvidersOK
<1>7. /\ DOMAIN providers' = DOMAIN providers /\ providers'[p] \in Provider
      /\ providers'[p].operator = providers[p].operator
      /\ providers'[p].state = "InActive"
      /\ \A x \in DOMAIN providers : x # p => providers'[x] = providers[x]
  BY <1>6 DEF Deactivate, SetProviderState, Provider
<1>8. DapiProvidersOK'
  BY <1>7 DEF DapiProvidersOK
<1> QED
  BY <1>1, <1>3, <1>4, <1>5, <1>7, <1>8 DEF PalletsAgree

LEMMA DapiCallsInv ==
    ASSUME IInv, DapiInv, DapiCalls
    PROVE  DapiInv'
<1>1. ProjectsOK /\ DapiProvidersOK /\ NamesOK /\ PalletsAgree /\ UsageWithinPayments
  BY DEF DapiInv
<1>2. ASSUME UNCHANGED <<projects, paid>>
      PROVE  ProjectsOK' /\ UsageWithinPayments'
  BY <1>1, <1>2 DEF ProjectsOK, UsageWithinPayments
<1>3. ASSUME UNCHANGED <<registeredProviders, providers>>
      PROVE  DapiProvidersOK' /\ PalletsAgree'
  BY <1>1, <1>3, AgreementKept DEF DapiProvidersOK, RegistryKept
<1>4. ASSUME UNCHANGED <<regulators, chainIds>>
      PROVE  NamesOK'
  BY <1>1, <1>4 DEF NamesOK
<1>5. CASE Calls /\ UNCHANGED dapiVars
  <2>1. UNCHANGED <<projects, providers, regulators, chainIds, paid>> /\ RegistryKept
    BY <1>5, CallsKeepRegistry DEF dapiVars
  <2>2. PalletsAgree' /\ DapiProvidersOK'
    BY <1>1, <2>1, AgreementKept DEF DapiProvidersOK
  <2> QED
    BY <1>2, <1>4, <2>1, <2>2 DEF DapiInv
<1>6. ASSUME NEW a \in Accounts, NEW j \in Projects, NEW c \in ChainNames,
             NEW v \in PaymentAmounts, RegisterProject(a, j, c, v)
      PROVE  DapiInv'
  <2>1. UNCHANGED <<registeredProviders, providers, regulators, chainIds>>
    BY <1>6 DEF RegisterProject, PayProject
  <2> QED
    BY <1>1, <1>3, <1>4, <1>6, <2>1, RegisterProjectStep DEF DapiInv
<1>7. ASSUME NEW a \in Accounts, NEW j \in Projects, NEW v \in PaymentAmounts,
             DepositProject(a, j, v)
      PROVE  DapiInv'
  <2>1. UNCHANGED <<registeredProviders, providers, regulators, chainIds>>
    BY <1>7 DEF DepositProject, PayProject
  <2> QED
    BY <1>1, <1>3, <1>4, <1>7, <2>1, DepositProjectStep DEF DapiInv
<1>8. ASSUME NEW a \in Accounts, NEW j \in Projects, NEW u \in UsageAmounts,
             SubmitProjectUsage(a, j, u)
      PROVE  DapiInv'
  <2>1. UNCHANGED <<registeredProviders, providers, regulators, chainIds>>
    BY <1>8 DEF SubmitProjectUsage, stakingVars, vars
  <2> QED
    BY <1>1, <1>3, <1>4, <1>8, <2>1, SubmitProjectUsageStep DEF DapiInv
<1>9. ASSUME NEW a \in Accounts, NEW p \in Providers, NEW o \in Accounts,
             NEW c \in ChainNames, RegisterProvider(a, p, o, c)
      PROVE  DapiInv'
  <2>1. UNCHANGED <<projects, paid, regulators, chainIds>>
    BY <1>9 DEF RegisterProvider
  <2> QED
    BY <1>1, <1>2, <1>4, <1>9, <2>1, RegisterProviderStep DEF DapiInv
<1>10. ASSUME NEW a \in Accounts, NEW p \in Providers, NEW v \in DepositAmounts,
              DepositProvider(a, p, v)
       PROVE  DapiInv'
  <2>1. UNCHANGED <<projects, paid, regulators, chainIds>>
    BY <1>10 DEF DepositProvider
  <2> QED
    BY <1>1, <1>2, <1>4, <1>10, <2>1, DepositProviderStep DEF DapiInv
<1>11. ASSUME NEW a \in Accounts, NEW p \in Providers,
              UnregisterProvider(a, p) \/ ReportProviderOffence(a, p)
       PROVE  DapiInv'
  <2>1. p \in DOMAIN providers /\ Deactivate(p)
    BY <1>11 DEF UnregisterProvider, ReportProviderOffence
  <2>2. UNCHANGED <<projects, paid, regulators, chainIds>>
    BY <2>1 DEF Deactivate
  <2> QED
    BY <1>1, <1>2, <1>4, <2>1, <2>2, DeactivateStep DEF DapiInv
<1>12. ASSUME NEW a \in Accounts, AddRegulator(a) \/ RemoveRegulator(a)
       PROVE  DapiInv'
  <2>1. /\ UNCHANGED <<registeredProviders, projects, paid, providers, chainIds>>
        /\ regulators' \subseteq regulators \cup {a}
    BY <1>12 DEF AddRegulator, RemoveRegulator, stakingVars, vars
  <2>2. NamesOK'
    BY <1>1, <2>1 DEF NamesOK
  <2> QED
    BY <1>2, <1>3, <2>1, <2>2 DEF DapiInv
<1>13. ASSUME NEW c \in ChainNames, AddChainId(c) \/ RemoveChainId(c)
       PROVE  DapiInv'
  <2>1. /\ UNCHANGED <<registeredProviders, projects, paid, providers, regulators>>
        /\ chainIds' \subseteq chainIds \cup {c}
    BY <1>13 DEF AddChainId, RemoveChainId, stakingVars, vars
  <2>2. NamesOK'
    BY <1>1, <2>1 DEF NamesOK
  <2> QED
    BY <1>2, <1>3, <2>1, <2>2 DEF DapiInv
<1> QED
  BY <1>5, <1>6, <1>7, <1>8, <1>9, <1>10, <1>11, <1>12, <1>13
     DEF DapiCalls
-------------------------------------------------------------------------------
(* The invariant of the runtime *)

RuntimeInv ==
    /\ MoneyInv /\ RewardInv /\ DapiInv
    /\ phase \in {"timestamp", "calls"}
    /\ phase = "timestamp" => InBlock

(* No block before the first era begins.                                   *)
LEMMA BlockIsBegun ==
    ASSUME IInv, OnInitialize
    PROVE  InBlock'
<1>1. currentEra \in Nat
  BY TypeParts DEF IInv, ErasOK
<1>2. currentEra' = currentEra + 1 \/ (currentEra' = currentEra /\ currentEra # 0)
  BY DEF OnInitialize, EraEnds
<1> QED
  BY <1>1, <1>2 DEF InBlock

LEMMA RuntimeInitInv == RuntimeInit => RuntimeInv /\ PotWhole
<1> SUFFICES ASSUME RuntimeInit PROVE RuntimeInv /\ PotWhole
  OBVIOUS
<1>1. MoneyInv /\ PotWhole /\ phase = "calls"
  BY InitMoney DEF RuntimeInit, BlocksInit
<1>2. /\ rewardConfig = [providers_percent |-> Accuracy, validators_percent |-> 0]
      /\ minted = [blocks |-> 0, providers |-> 0, validators |-> 0]
  BY DEF RuntimeInit, BlocksInit, BlockRewardInit
<1>3. BlockRewardTypeOK /\ IsConsistent(rewardConfig)
  BY <1>2, AccuracyAssumption
     DEF BlockRewardTypeOK, RewardDistributionConfig, IsConsistent
<1>4. /\ minted.providers + minted.validators <= minted.blocks * RewardAmount
      /\ minted.blocks * RewardAmount
             <= minted.providers + minted.validators + minted.blocks
  BY <1>2, BlockRewardAssumption
<1>5. RewardInv
  BY <1>3, <1>4, ConsistentSplit DEF RewardInv, IssuanceDistributed
<1>6. /\ DOMAIN projects = {} /\ DOMAIN providers = {} /\ chainIds = {}
      /\ regulators \subseteq Accounts /\ paid \in [Projects -> Nat]
      /\ DOMAIN registeredProviders = {}
  BY DapiAssumption DEF RuntimeInit, DapiInit, Init
<1>7. DapiInv
  BY <1>6 DEF DapiInv, ProjectsOK, DapiProvidersOK, NamesOK, PalletsAgree,
              UsageWithinPayments
<1> QED
  BY <1>1, <1>5, <1>7 DEF RuntimeInv

LEMMA RuntimeStep ==
    ASSUME RuntimeInv, [RuntimeNext]_runtimeVars
    PROVE  RuntimeInv' /\ MoneyHandled /\ MoneyMoves
<1>1. MoneyInv /\ IInv /\ RewardInv /\ BlockRewardTypeOK /\ DapiInv
  BY DEF RuntimeInv, RewardInv, MoneyInv, ClaimsInv, ErasInv, BooksInv
<1>2. MoneyInv' /\ MoneyHandled /\ MoneyMoves
  BY <1>1, RuntimeChain, ChainMoney
<1>3. ASSUME UNCHANGED blockRewardVars PROVE RewardInv'
  BY <1>1, <1>3 DEF RewardInv, BlockRewardTypeOK, IsConsistent, IssuanceDistributed,
                    ProvidersPart, blockRewardVars
<1>4. ASSUME UNCHANGED registeredProviders, UNCHANGED dapiVars
      PROVE  DapiInv'
  <2>1. /\ UNCHANGED <<projects, providers, regulators, chainIds, paid>>
        /\ RegistryKept
    BY <1>4 DEF dapiVars, RegistryKept
  <2> QED
    BY <1>1, <2>1, AgreementKept
       DEF DapiInv, ProjectsOK, DapiProvidersOK, NamesOK, UsageWithinPayments
<1>5. CASE BeginBlock /\ UNCHANGED dapiVars
  <2>1. InBlock'
    BY <1>1, <1>5, BlockIsBegun DEF BeginBlock
  <2> QED
    BY <1>2, <1>3, <1>4, <1>5, <2>1 DEF BeginBlock, OnInitialize, RuntimeInv
<1>6. CASE OnTimestampSet /\ UNCHANGED dapiVars
  BY <1>1, <1>2, <1>4, <1>6, DistributeRewardsInv DEF OnTimestampSet, RuntimeInv
<1>7. CASE Reconfigure
  <2>1. RewardInv'
    BY <1>1, <1>7, SetConfigurationInv DEF Reconfigure
  <2>2. DapiInv'
    BY <1>4, <1>7 DEF Reconfigure, stakingVars, vars
  <2> QED
    BY <1>2, <1>7, <2>1, <2>2 DEF Reconfigure, RuntimeInv
<1>8. CASE InCalls(DapiCalls)
  BY <1>1, <1>2, <1>3, <1>8, DapiCallsInv DEF InCalls, RuntimeInv
<1>9. CASE UNCHANGED runtimeVars
  BY <1>2, <1>3, <1>4, <1>9
     DEF runtimeVars, RuntimeInv, stakingVars, vars, eraVars, InBlock
<1> QED
  BY <1>5, <1>6, <1>7, <1>8, <1>9 DEF RuntimeNext

(* The storage of the three pallets keeps its types.                       *)
THEOREM RuntimeTypeCorrect == RuntimeSpec => []RuntimeTypeOK
<1>1. RuntimeInv => RuntimeTypeOK
  BY DEF RuntimeInv, MoneyInv, ClaimsInv, ErasInv, BooksInv, IInv, RewardInv,
         DapiInv, ProjectsOK, DapiProvidersOK, NamesOK, RuntimeTypeOK, DapiTypeOK
<1> QED
  BY <1>1, RuntimeInitInv, RuntimeStep, PTL DEF RuntimeSpec

(* Over all configurations and all blocks, the beneficiaries get what is   *)
(* issued but for a unit per block, and the second split is never short.   *)
THEOREM IssuanceIsDistributed == RuntimeSpec => []IssuanceDistributed
<1>1. RuntimeInv => IssuanceDistributed
  BY DEF RuntimeInv, RewardInv
<1> QED
  BY <1>1, RuntimeInitInv, RuntimeStep, PTL DEF RuntimeSpec

(* Pallet dapi and dapi-staking do not contradict each other on a provider *)
(* that is Active or InActive in dapi, also after deposits whose stake     *)
(* failed.                                                                 *)
THEOREM PalletsAlwaysAgree == RuntimeSpec => []PalletsAgree
<1>1. RuntimeInv => PalletsAgree
  BY DEF RuntimeInv, DapiInv
<1> QED
  BY <1>1, RuntimeInitInv, RuntimeStep, PTL DEF RuntimeSpec

(* No project is charged for more than its quota, nor has more quota than  *)
(* was paid for it.                                                        *)
THEOREM UsageIsPaidFor == RuntimeSpec => []UsageWithinPayments
<1>1. RuntimeInv => UsageWithinPayments
  BY DEF RuntimeInv, DapiInv
<1> QED
  BY <1>1, RuntimeInitInv, RuntimeStep, PTL DEF RuntimeSpec

(* What the pallet shows on its own it keeps in the runtime, where         *)
(* registrations come through dapi and rewards from the timestamp inherent *)
(* and from project payments: funds, books, shares and payments are as     *)
(* exact, and the internal errors as far away.                             *)
THEOREM StakingIsSafeInRuntime ==
    RuntimeSpec => [](/\ LocksBacked /\ LedgerMatchesStakes /\ DepositsReserved
                      /\ EraTotalsMatchStakes /\ ProviderTotalsMatchStakes
                      /\ StakeHeldThroughUnbonding /\ SharesWithinTotals
                      /\ ReceiptsAreFairShares /\ PayoutsWithinRewards
                      /\ NoInternalError)
<1>1. RuntimeInv => IInv /\ BooksInv /\ ErasInv /\ ClaimsInv
  BY DEF RuntimeInv, MoneyInv, ClaimsInv, ErasInv, BooksInv
<1>2. RuntimeInv => LocksBacked /\ LedgerMatchesStakes /\ DepositsReserved
  BY <1>1 DEF IInv, BooksInv, Books
<1> QED
  BY <1>1, <1>2, EraTotalsNow, ProviderTotalsNow, StakeHeldNow, SharesNow,
     FairSharesNow, PayoutsNow, NoInternalErrorNow, RuntimeInitInv, RuntimeStep,
     PTL DEF RuntimeSpec

(* In the runtime too the staking pallet is a correct pool of rewards,     *)
(* with what block-reward and dapi pay in, and among their calls.          *)
THEOREM PoolImplementedInRuntime == RuntimeSpec => ImplementsPool
<1>1. RuntimeInit => RuntimeInv /\ PoolInv /\ Pool!Init
  BY RuntimeInitInv, PoolInit DEF RuntimeInit, BlocksInit
<1>2. RuntimeInv /\ PoolInv /\ [RuntimeNext]_runtimeVars
          => RuntimeInv' /\ PoolInv' /\ [Pool!Next]_(Pool!vars)
  BY RuntimeStep, PoolStep DEF RuntimeInv
<1> QED
  BY <1>1, <1>2, PTL DEF RuntimeSpec, ImplementsPool, Pool!Spec

LEMMA DapiCallsInBlock ==
    ASSUME DapiCalls
    PROVE  InBlock /\ UNCHANGED currentEra
<1>1. CASE Calls
  BY <1>1, CallsInBlock
<1>2. ASSUME NEW a, NEW j, NEW c, NEW v,
             RegisterProject(a, j, c, v) \/ DepositProject(a, j, v)
      PROVE  InBlock /\ UNCHANGED currentEra
  BY <1>2 DEF RegisterProject, DepositProject, PayProject, eraVars
<1>3. ASSUME NEW a \in Accounts, NEW p \in Providers, NEW v \in DepositAmounts,
             DepositProvider(a, p, v)
      PROVE  InBlock /\ UNCHANGED currentEra
  <2>1. Register(a, p, v) \/ RegisterStakeFails(a, p, v)
    BY <1>3 DEF DepositProvider
  <2> QED
    BY <2>1, CallsInBlock DEF RegistryCalls
<1>4. ASSUME NEW a \in Accounts, NEW p \in Providers,
             UnregisterProvider(a, p) \/ ReportProviderOffence(a, p)
      PROVE  InBlock /\ UNCHANGED currentEra
  <2>1. Unregister(p)
    BY <1>4 DEF UnregisterProvider, ReportProviderOffence, Deactivate
  <2> QED
    BY <2>1, CallsInBlock DEF RegistryCalls
<1>5. ASSUME NEW a, NEW j, NEW u, NEW p, NEW o, NEW c,
             \/ SubmitProjectUsage(a, j, u) \/ RegisterProvider(a, p, o, c)
             \/ AddRegulator(a) \/ RemoveRegulator(a)
             \/ AddChainId(c) \/ RemoveChainId(c)
      PROVE  InBlock /\ UNCHANGED currentEra
  BY <1>5 DEF SubmitProjectUsage, RegisterProvider, AddRegulator, RemoveRegulator,
              AddChainId, RemoveChainId, stakingVars, vars, eraVars
<1> QED
  BY <1>1, <1>2, <1>3, <1>4, <1>5 DEF DapiCalls

LEMMA PotIsCovered ==
    ASSUME MoneyInv, IncomeCoversPot, phase = "calls", InBlock
    PROVE  PotCovered
  BY DEF IncomeCoversPot, PotCovered, Gathered, Payments

LEMMA PotIsCoveredNext ==
    ASSUME MoneyInv', IncomeCoversPot', phase' = "calls", InBlock'
    PROVE  PotCovered'
  BY DEF IncomeCoversPot, PotCovered, Gathered, Payments

(* The income of a block opens the account when it is empty: the claims    *)
(* have taken no more than the units they were rounded up by.              *)
LEMMA TimestampBurnsNothing ==
    ASSUME MoneyInv, PotWhole, NEW v \in Nat, MoneyComes(v), PotCovered'
    PROVE  PotWhole'
<1>1. /\ IInv /\ IsFiniteSet(receipts) /\ ClaimsInv
      /\ pot \in Account /\ pot.free \in Nat /\ pot.reserved = 0
      /\ Gathered \in Nat /\ RewardedTotal \in Nat /\ ExistentialDeposit \in Nat
  BY MoneyTypes, ErasFinite, ExistentialDepositAssumption
     DEF MoneyInv, ClaimsInv, ErasInv, BooksInv
<1>2. /\ Cardinality(Payments) \in Nat /\ AmountOf(receipts) \in Nat
      /\ AmountOf(receipts) <= RewardedTotal + Cardinality(Payments)
  BY <1>1, PaymentsFinite, AmountType, PaidWithinRewarded
<1>3. Gathered + v >= ExistentialDeposit + Cardinality(Payments)
  BY DEF PotCovered, MoneyComes, Payments
<1>4. pot.free + AmountOf(receipts) = RewardedTotal + Gathered
  BY DEF PotWhole, Received
<1>5. pot.free > 0 \/ v >= ExistentialDeposit
  BY <1>1, <1>2, <1>3, <1>4
<1>6. pot' = Deposit(pot, v)
  BY DEF MoneyComes
<1>7. pot'.free = pot.free + v
  BY <1>1, <1>5, <1>6 DEF Deposit, Account
<1>8. /\ AmountOf(receipts)' = AmountOf(receipts)
      /\ Received' = Received + v
  BY DEF MoneyComes, AmountOf
<1>9. pot.free + AmountOf(receipts) = Received
  BY DEF PotWhole
<1> QED
  BY <1>1, <1>2, <1>7, <1>8, <1>9 DEF PotWhole

LEMMA PotStep ==
    ASSUME RuntimeInv, [RuntimeNext]_runtimeVars, PotWhole,
           IncomeCoversPot, IncomeCoversPot'
    PROVE  PotWhole'
<1>1. /\ MoneyInv /\ MoneyInv' /\ MoneyMoves /\ IInv
      /\ BlockRewardTypeOK
  BY RuntimeStep DEF RuntimeInv, RewardInv, MoneyInv, ClaimsInv, ErasInv, BooksInv
<1>2. CASE BeginBlock
  <2>1. MoneyStays
    BY <1>1, <1>2, OnInitializeMoney DEF BeginBlock
  <2> QED
    BY <2>1 DEF PotWhole, MoneyStays
<1>3. CASE OnTimestampSet
  <2>1. /\ phase = "timestamp" /\ phase' = "calls" /\ AddRewards(ProvidersPart)
        /\ UNCHANGED <<generalEraInfo, currentEra, receipts>>
    BY <1>3 DEF OnTimestampSet, eraVars
  <2>2. InBlock'
    BY <2>1 DEF RuntimeInv, InBlock
  <2>3. PotCovered'
    BY <1>1, <2>1, <2>2, PotIsCoveredNext
  <2>4. PICK v \in Nat : v = ProvidersPart
    BY <1>1, PartsOfReward, BlockRewardAssumption
  <2>5. MoneyComes(v)
    BY <1>1, <2>1, <2>4, IncomeComes
  <2> QED
    BY <1>1, <2>3, <2>5, TimestampBurnsNothing
<1>4. CASE Reconfigure \/ InCalls(DapiCalls)
  <2>1. phase = "calls" /\ phase' = "calls" /\ InBlock /\ InBlock'
    BY <1>4, DapiCallsInBlock
       DEF Reconfigure, InCalls, stakingVars, vars, eraVars, InBlock
  <2>2. PotCovered /\ PotCovered'
    BY <1>1, <2>1, PotIsCovered, PotIsCoveredNext
  <2> QED
    BY <1>1, <2>2, CallsBurnNothing, PotStaysWhole
<1>5. CASE UNCHANGED runtimeVars
  <2>1. MoneyStays
    BY <1>1, <1>5, OthersUntouched, QuietMoney
       DEF runtimeVars, stakingVars, MoneyUntouched, MoneyInv
  <2> QED
    BY <2>1 DEF PotWhole, MoneyStays
<1> QED
  BY <1>2, <1>3, <1>4, <1>5 DEF RuntimeNext

LEMMA PotWholeMatchesNext == RuntimeInv' => (PotMatchesRewards' <=> PotWhole')
<1>1. RuntimeInv => (PotMatchesRewards <=> PotWhole)
  BY PotWholeMatches DEF RuntimeInv, MoneyInv, ClaimsInv, ErasInv
<1> QED
  BY <1>1, PTL

(* Every token in the pallet's account is accounted for, whoever it came   *)
(* from and whatever the existential deposit.  Only a step that the era's  *)
(* income does not cover can burn any; a chain whose income always covers  *)
(* the account never loses one.                                            *)
THEOREM PotIsWhole ==
    RuntimeSpec => PotKeepsAll /\ ([]IncomeCoversPot => []PotMatchesRewards)
<1>1. RuntimeInv => (PotMatchesRewards <=> PotWhole)
  BY PotWholeMatches DEF RuntimeInv, MoneyInv, ClaimsInv, ErasInv
<1>2. RuntimeInv /\ [RuntimeNext]_runtimeVars
          => RuntimeInv' /\ (PotMatchesRewards /\ IncomeCoversPot /\ IncomeCoversPot'
                                 => PotMatchesRewards')
  BY <1>1, RuntimeStep, PotStep, PotWholeMatchesNext
<1>3. RuntimeInit => RuntimeInv /\ PotMatchesRewards
  BY <1>1, RuntimeInitInv
<1> QED
  BY <1>2, <1>3, PTL DEF RuntimeSpec, PotKeepsAll
-------------------------------------------------------------------------------
(* Tokens *)

HoldingOf(a) == account[a].free + account[a].reserved
Holdings == Sum([a \in Accounts |-> HoldingOf(a)])

LEMMA HoldingTypes ==
    IInv => /\ \A a \in Accounts : /\ account[a] \in Account /\ HoldingOf(a) \in Nat
                                   /\ account[a].free \in Nat /\ account[a].reserved \in Nat
            /\ Holdings \in Nat
            /\ [a \in Accounts |-> HoldingOf(a)] \in [Accounts -> Nat]
<1> SUFFICES ASSUME IInv
             PROVE  /\ \A a \in Accounts : /\ account[a] \in Account /\ HoldingOf(a) \in Nat
                                           /\ account[a].free \in Nat
                                           /\ account[a].reserved \in Nat
                    /\ Holdings \in Nat
                    /\ [a \in Accounts |-> HoldingOf(a)] \in [Accounts -> Nat]
  OBVIOUS
<1>1. \A a \in Accounts : /\ account[a] \in Account /\ HoldingOf(a) \in Nat
                          /\ account[a].free \in Nat /\ account[a].reserved \in Nat
  BY TypeParts DEF IInv, AccountsOK, Account, HoldingOf
<1> DEFINE f == [a \in Accounts |-> HoldingOf(a)]
<1>2. f \in [Accounts -> Nat] /\ Holdings = Sum(f)
  BY <1>1 DEF Holdings
<1> HIDE DEF f
<1>3. Sum(f) \in Nat
  BY <1>2, FiniteDomains, SumType
<1> QED
  BY <1>1, <1>2, <1>3 DEF f

(* One account changes to b.                                               *)
LEMMA OneHolding ==
    ASSUME IInv, NEW s \in Accounts, NEW b, b.free \in Nat, b.reserved \in Nat,
           account' = [account EXCEPT ![s] = b]
    PROVE  /\ Holdings' + HoldingOf(s) = Holdings + (b.free + b.reserved)
           /\ Holdings' \in Nat /\ HoldingOf(s) <= Holdings
<1> DEFINE f == [a \in Accounts |-> HoldingOf(a)]
           g == [a \in Accounts |-> HoldingOf(a)']
<1>1. \A a \in Accounts : account'[a] = IF a = s THEN b ELSE account[a]
  BY TypeParts DEF IInv, AccountsOK
<1>2. b.free + b.reserved \in Nat
  OBVIOUS
<1>3. \A a \in Accounts : HoldingOf(a)' = IF a = s THEN b.free + b.reserved ELSE HoldingOf(a)
  BY <1>1 DEF HoldingOf
<1>4. /\ f \in [Accounts -> Nat] /\ Holdings = Sum(f) /\ f[s] = HoldingOf(s)
  BY HoldingTypes DEF Holdings
<1>5. /\ g \in [Accounts -> Nat] /\ Holdings' = Sum(g) /\ g[s] = b.free + b.reserved
      /\ \A a \in Accounts \ {s} : g[a] = f[a]
  BY <1>2, <1>3, HoldingTypes DEF Holdings
<1> HIDE DEF f, g
<1>6. /\ Sum(g) + f[s] = Sum(f) + g[s] /\ f[s] <= Sum(f)
      /\ {Sum(f), Sum(g), f[s], g[s]} \subseteq Nat
  BY <1>4, <1>5, FiniteDomains, SumUpdate
<1> QED
  BY <1>4, <1>5, <1>6

LEMMA SameHolding ==
    ASSUME IInv, NEW s \in Accounts, NEW b, b.free \in Nat, b.reserved \in Nat,
           account' = [account EXCEPT ![s] = b],
           b.free + b.reserved = HoldingOf(s)
    PROVE  Holdings' = Holdings
<1>1. /\ Holdings' + HoldingOf(s) = Holdings + HoldingOf(s)
      /\ Holdings' \in Nat /\ Holdings \in Nat /\ HoldingOf(s) \in Nat
  BY OneHolding, HoldingTypes
<1> QED
  BY <1>1

LEMMA SameAccounts ==
    ASSUME UNCHANGED account
    PROVE  Holdings' = Holdings
  BY DEF Holdings, HoldingOf

(* Locks and reserves do not change what an account holds.                 *)
LEMMA LedgerHoldings ==
    ASSUME IInv, NEW s \in Accounts, NEW b \in Account, NEW l,
           b.free + b.reserved = HoldingOf(s), UpdateLedger(s, b, l)
    PROVE  Holdings' = Holdings
<1>1. PICK c : /\ account' = [account EXCEPT ![s] = c]
               /\ c = RemoveLock(b) \/ c = SetLock(b, l.locked)
  BY DEF UpdateLedger
<1>2. /\ c.free = b.free /\ c.reserved = b.reserved
      /\ b.free \in Nat /\ b.reserved \in Nat
  BY <1>1 DEF RemoveLock, SetLock, Account
<1> QED
  BY <1>1, <1>2, SameHolding

LEMMA ReserveHoldings ==
    ASSUME IInv, NEW s \in Accounts, Usable(account[s], RegisterDeposit)
    PROVE  /\ Reserve(account[s], RegisterDeposit) \in Account
           /\ Reserve(account[s], RegisterDeposit).free
                  + Reserve(account[s], RegisterDeposit).reserved = HoldingOf(s)
<1>1. /\ account[s] \in Account /\ account[s].free \in Nat /\ account[s].reserved \in Nat
      /\ RegisterDeposit \in Nat /\ RegisterDeposit <= account[s].free
  BY HoldingTypes, DapiStakingAssumption DEF Usable
<1> QED
  BY <1>1 DEF Reserve, Account, HoldingOf

(* Everything in the accounts of the model: the users' and the pallet's.   *)
LEMMA TokensHeld ==
    Tokens = Holdings + pot.free /\ Tokens' = Holdings' + pot'.free
  BY DEF Tokens, Holdings, HoldingOf

AccountDust == {0} \cup UNION {DustOf(account'[a]) : a \in Accounts}

(* A step that loses n: dust of the pot and of an account, or what is      *)
(* spent elsewhere.                                                        *)
Loses(n) ==
    \/ \E m \in {0} \cup DustOf(pot'), k \in AccountDust : n = m + k
    \/ \E s \in Accounts, v \in SpendAmounts : SpendElsewhere(s, v) /\ n = v

(* A step that issues v creates nothing else.                              *)
Issues(v) ==
    /\ Tokens \in Nat /\ Tokens' \in Nat
    /\ Tokens' <= Tokens + v
    /\ Loses(Tokens + v - Tokens')

LEMMA NoneLost == Loses(0)
<1>1. 0 \in AccountDust /\ 0 = 0 + 0
  BY DEF AccountDust
<1> QED
  BY <1>1 DEF Loses

LEMMA PotDustLost ==
    ASSUME NEW n \in Nat, n \in {0} \cup DustOf(pot')
    PROVE  Loses(n)
<1>1. 0 \in AccountDust /\ n = n + 0
  BY DEF AccountDust
<1> QED
  BY <1>1 DEF Loses

LEMMA PotTypes ==
    IInv => pot \in Account /\ pot.free \in Nat /\ pot.reserved \in Nat
  BY TypeParts DEF IInv, RewardsOK, Account

LEMMA TokensKept ==
    ASSUME IInv, Holdings' = Holdings, UNCHANGED pot
    PROVE  Issues(0)
<1>1. Tokens \in Nat /\ Tokens' = Tokens
  BY HoldingTypes, PotTypes, TokensHeld
<1>2. Tokens + 0 - Tokens' = 0
  BY <1>1
<1> QED
  BY <1>1, <1>2, NoneLost DEF Issues

LEMMA StakingTokens ==
    ASSUME IInv, NEW s \in Accounts, NEW p, NEW v,
           \/ Stake(s, p, v) \/ Unstake(s, p, v) \/ Register(s, p, v)
           \/ RegisterStakeFails(s, p, v)
    PROVE  Issues(0)
<1>1. account[s] \in Account /\ account[s].free + account[s].reserved = HoldingOf(s)
  BY HoldingTypes DEF HoldingOf
<1>2. CASE Stake(s, p, v)
  <2>1. PICK l : UpdateLedger(s, account[s], l)
    BY <1>2 DEF Stake, StakeWrites
  <2> QED
    BY <1>1, <1>2, <2>1, LedgerHoldings, TokensKept DEF Stake, rewardVars
<1>3. CASE Unstake(s, p, v)
  <2>1. PICK l : UpdateLedger(s, account[s], l)
    BY <1>3 DEF Unstake
  <2> QED
    BY <1>1, <1>3, <2>1, LedgerHoldings, TokensKept DEF Unstake, rewardVars
<1>4. CASE Register(s, p, v)
  <2>1. PICK b, l : b = Reserve(account[s], RegisterDeposit) /\ UpdateLedger(s, b, l)
    BY <1>4 DEF Register, StakeWrites
  <2>2. Usable(account[s], RegisterDeposit) /\ UNCHANGED pot
    BY <1>4 DEF Register, RegisterChecks, rewardVars
  <2>3. b \in Account /\ b.free + b.reserved = HoldingOf(s)
    BY <2>1, <2>2, ReserveHoldings
  <2> QED
    BY <2>1, <2>2, <2>3, LedgerHoldings, TokensKept
<1>5. CASE RegisterStakeFails(s, p, v)
  <2>1. PICK b : /\ b = Reserve(account[s], RegisterDeposit)
                 /\ account' = [account EXCEPT ![s] = b]
    BY <1>5 DEF RegisterStakeFails
  <2>2. Usable(account[s], RegisterDeposit) /\ UNCHANGED pot
    BY <1>5 DEF RegisterStakeFails, RegisterChecks, rewardVars
  <2>3. b \in Account /\ b.free + b.reserved = HoldingOf(s)
    BY <2>1, <2>2, ReserveHoldings
  <2>4. b.free \in Nat /\ b.reserved \in Nat
    BY <2>3 DEF Account
  <2> QED
    BY <2>1, <2>2, <2>3, <2>4, SameHolding, TokensKept
<1> QED
  BY <1>2, <1>3, <1>4, <1>5

LEMMA UnreserveHoldings ==
    ASSUME NEW b \in Account, NEW v \in Nat
    PROVE  /\ Unreserve(b, v).free \in Nat /\ Unreserve(b, v).reserved \in Nat
           /\ Unreserve(b, v).free + Unreserve(b, v).reserved = b.free + b.reserved
  BY DEF Unreserve, Account

LEMMA WithdrawalTokens ==
    ASSUME IInv, NEW s \in Accounts, NEW p,
           \/ WithdrawUnstaked(s) \/ WithdrawFromUnregisteredStaker(s, p)
           \/ WithdrawFromUnregisteredOperator(p) \/ Unregister(p)
    PROVE  Issues(0)
<1>1. account[s] \in Account /\ account[s].free + account[s].reserved = HoldingOf(s)
  BY HoldingTypes DEF HoldingOf
<1>2. CASE WithdrawUnstaked(s)
  <2>1. PICK l : UpdateLedger(s, account[s], l)
    BY <1>2 DEF WithdrawUnstaked
  <2> QED
    BY <1>1, <1>2, <2>1, LedgerHoldings, TokensKept DEF WithdrawUnstaked, rewardVars
<1>3. CASE WithdrawFromUnregisteredStaker(s, p)
  <2>1. PICK l : UpdateLedger(s, account[s], l)
    BY <1>3 DEF WithdrawFromUnregisteredStaker
  <2> QED
    BY <1>1, <1>3, <2>1, LedgerHoldings, TokensKept
       DEF WithdrawFromUnregisteredStaker, rewardVars
<1>4. CASE WithdrawFromUnregisteredOperator(p)
  <2>1. UNCHANGED pot /\ p \in DOMAIN registeredProviders
    BY <1>4 DEF WithdrawFromUnregisteredOperator, UnbondedSinceUnregistered,
                IsUnregistered, IsRegistered, rewardVars
  <2>2. registeredProviders[p].operator \in Accounts
    BY <2>1, TypeParts DEF IInv, ProvidersOK, ProviderInfo
  <2>3. PICK o \in Accounts : account' = [account EXCEPT ![o] =
                                  Unreserve(account[o], RegisterDeposit)]
    BY <1>4, <2>2 DEF WithdrawFromUnregisteredOperator
  <2>4. PICK b : b = Unreserve(account[o], RegisterDeposit)
    OBVIOUS
  <2>5. b.free \in Nat /\ b.reserved \in Nat /\ b.free + b.reserved = HoldingOf(o)
    BY <2>4, HoldingTypes, UnreserveHoldings, DapiStakingAssumption DEF HoldingOf
  <2> QED
    BY <2>1, <2>3, <2>4, <2>5, SameHolding, TokensKept
<1>5. CASE Unregister(p)
  BY <1>5, SameAccounts, TokensKept DEF Unregister, rewardVars
<1> QED
  BY <1>2, <1>3, <1>4, <1>5

LEMMA DepositHoldings ==
    ASSUME NEW b \in Account, NEW v \in Nat
    PROVE  LET d == Deposit(b, v)
           IN  /\ d.free \in Nat /\ d.reserved = b.reserved
               /\ d.free <= b.free + v
               /\ b.free + v - d.free \in {0} \cup DustOf(d)
<1>1. b.free \in Nat /\ b.reserved \in Nat /\ ExistentialDeposit \in Nat
  BY ExistentialDepositAssumption DEF Account
<1>2. CASE b.free + b.reserved = 0 /\ v < ExistentialDeposit
  <2>1. Deposit(b, v) = b
    BY <1>2 DEF Deposit
  <2>2. b.free = 0 /\ b.free + v - b.free = v
    BY <1>1, <1>2
  <2>3. v \in DustOf(b)
    BY <1>1, <1>2 DEF DustOf
  <2> QED
    BY <1>1, <2>1, <2>2, <2>3
<1>3. CASE ~(b.free + b.reserved = 0 /\ v < ExistentialDeposit)
  <2>1. Deposit(b, v).free = b.free + v /\ Deposit(b, v).reserved = b.reserved
    BY <1>3 DEF Deposit, Account
  <2>2. (b.free + v) - (b.free + v) = 0
    BY <1>1
  <2> QED
    BY <1>1, <2>1, <2>2
<1> QED
  BY <1>2, <1>3

LEMMA WithdrawHoldings ==
    ASSUME NEW b \in Account, NEW v \in Nat, v <= b.free
    PROVE  LET w == Withdraw(b, v)
           IN  /\ w.free \in Nat
               /\ w.free + v <= b.free
               /\ b.free - v - w.free \in {0} \cup DustOf(w)
<1>1. b.free \in Nat /\ b.reserved \in Nat /\ ExistentialDeposit \in Nat
  BY ExistentialDepositAssumption DEF Account
<1>2. CASE b.free - v + b.reserved < ExistentialDeposit
  <2>1. Withdraw(b, v).free = 0 /\ Withdraw(b, v).reserved = 0
    BY <1>2 DEF Withdraw, NewAccount
  <2>2. b.free - v - 0 \in 0..(ExistentialDeposit - 1)
    BY <1>1, <1>2
  <2>3. DustOf(Withdraw(b, v)) = 0..(ExistentialDeposit - 1)
    BY <2>1 DEF DustOf
  <2> QED
    BY <1>1, <2>1, <2>2, <2>3
<1>3. CASE ~(b.free - v + b.reserved < ExistentialDeposit)
  <2>1. Withdraw(b, v).free = b.free - v
    BY <1>3 DEF Withdraw, Spend, Account
  <2>2. b.free - v \in Nat /\ b.free - v - (b.free - v) = 0
    BY <1>1
  <2> QED
    BY <1>1, <2>1, <2>2
<1> QED
  BY <1>2, <1>3

LEMMA PayTokens ==
    ASSUME IInv, IInv', NEW r, Pay(r)
    PROVE  Issues(0)
<1>1. r \in receipts'
  BY DEF Pay
<1>2. r.who \in Accounts /\ r.amount \in Nat
  BY <1>1, TypePartsNext DEF IInv, RewardsOK, Receipt
<1>3. CASE UNCHANGED <<pot, account>>
  BY <1>3, SameAccounts, TokensKept
<1>4. CASE /\ pot' = Withdraw(pot, r.amount)
           /\ account' = [account EXCEPT ![r.who] = Deposit(account[r.who], r.amount)]
  <2>1. PICK s \in Accounts, v \in Nat : s = r.who /\ v = r.amount
    BY <1>2
  <2>2. PICK d, w : d = Deposit(account[s], v) /\ w = Withdraw(pot, v)
    OBVIOUS
  <2>3. /\ Holdings \in Nat /\ HoldingOf(s) = account[s].free + account[s].reserved
        /\ account[s] \in Account /\ account[s].free \in Nat /\ account[s].reserved \in Nat
        /\ pot \in Account /\ pot.free \in Nat /\ v <= pot.free
    BY <2>1, HoldingTypes, PotTypes DEF Pay, HoldingOf
  <2>4. PICK k \in {0} \cup DustOf(d) :
            /\ d.free \in Nat /\ d.reserved = account[s].reserved
            /\ d.free <= account[s].free + v
            /\ k = account[s].free + v - d.free
    BY <2>2, <2>3, DepositHoldings
  <2>5. PICK m \in {0} \cup DustOf(w) :
            w.free \in Nat /\ w.free + v <= pot.free /\ m = pot.free - v - w.free
    BY <2>2, <2>3, WithdrawHoldings
  <2>6. /\ Holdings' + HoldingOf(s) = Holdings + (d.free + d.reserved)
        /\ Holdings' \in Nat
    BY <1>4, <2>1, <2>2, <2>3, <2>4, OneHolding
  <2>7. pot' = w /\ account'[s] = d
    BY <1>4, <2>1, <2>2, TypeParts DEF IInv, AccountsOK
  <2>8. Tokens = Holdings + pot.free /\ Tokens' = Holdings' + w.free
    BY <2>7, TokensHeld
  <2>9. Holdings' + k = Holdings + v
    <3>1. PICK h \in Nat, j \in Nat, x \in Nat, y \in Nat, z \in Nat :
              /\ h = Holdings' /\ j = Holdings
              /\ x = account[s].free /\ y = account[s].reserved /\ z = d.free
      BY <2>3, <2>4, <2>6
    <3>2. h + (x + y) = j + (z + y) /\ k = x + v - z
      BY <2>3, <2>4, <2>6, <3>1
    <3>3. h + k = j + v
      BY <3>2
    <3> QED
      BY <3>1, <3>3
  <2>10. k \in Nat /\ m \in Nat
    BY <2>3, <2>4, <2>5
  <2>11. /\ Tokens \in Nat /\ Tokens' \in Nat /\ Tokens' <= Tokens
         /\ Tokens + 0 - Tokens' = m + k
    <3>1. PICK h \in Nat, j \in Nat, x \in Nat, y \in Nat :
              h = Holdings' /\ j = Holdings /\ x = pot.free /\ y = w.free
      BY <2>3, <2>5, <2>6
    <3>2. /\ Tokens = j + x /\ Tokens' = h + y /\ h + k = j + v
          /\ m = x - v - y
      BY <2>5, <2>8, <2>9, <3>1
    <3>3. Tokens + 0 - Tokens' = m + k
      BY <2>10, <3>2
    <3>4. Tokens \in Nat /\ Tokens' \in Nat
      BY <3>2
    <3>5. h + y <= j + x
      BY <2>10, <3>2
    <3> QED
      BY <3>2, <3>3, <3>4, <3>5
  <2>12. Loses(m + k)
    <3>1. k \in AccountDust /\ m \in {0} \cup DustOf(pot')
      BY <2>4, <2>5, <2>7 DEF AccountDust
    <3> QED
      BY <3>1 DEF Loses
  <2>13. Tokens' <= Tokens + 0
    BY <2>11
  <2> QED
    BY <2>11, <2>12, <2>13 DEF Issues
<1> QED
  BY <1>3, <1>4 DEF Pay

(* Income that an account pays is not issued.                              *)
LEMMA SpentIncomeTokens ==
    ASSUME IInv, NEW s \in Accounts, NEW v \in Nat, CanSpend(account[s], v),
           account' = [account EXCEPT ![s] = Spend(account[s], v)], AddRewards(v)
    PROVE  Issues(0)
<1>1. PICK d, w : d = Spend(account[s], v) /\ w = Deposit(pot, v)
  OBVIOUS
<1>2. /\ Holdings \in Nat /\ HoldingOf(s) \in Nat
      /\ account[s] \in Account /\ account[s].free \in Nat /\ account[s].reserved \in Nat
      /\ pot \in Account /\ pot.free \in Nat
  BY HoldingTypes, PotTypes
<1>3. v <= account[s].free
  BY DEF CanSpend, Usable
<1>4. /\ d.free \in Nat /\ d.reserved \in Nat
      /\ d.free + d.reserved + v = HoldingOf(s)
  BY <1>1, <1>2, <1>3 DEF HoldingOf, Spend, Account
<1>5. PICK m \in {0} \cup DustOf(w) :
          w.free \in Nat /\ w.free <= pot.free + v /\ m = pot.free + v - w.free
  BY <1>1, <1>2, DepositHoldings
<1>6. /\ Holdings' + HoldingOf(s) = Holdings + (d.free + d.reserved)
      /\ Holdings' \in Nat
  BY <1>1, <1>4, OneHolding
<1>7. pot' = w
  BY <1>1 DEF AddRewards
<1>8. Holdings' + v = Holdings
  <2>1. PICK h \in Nat, k \in Nat, x \in Nat, y \in Nat :
            h = Holdings' /\ k = Holdings /\ x = HoldingOf(s) /\ y = d.free + d.reserved
    BY <1>2, <1>4, <1>6
  <2>2. y + v = x /\ h + x = k + y
    BY <1>4, <1>6, <2>1
  <2>3. h + v = k
    BY <2>2
  <2> QED
    BY <2>1, <2>3
<1>9. /\ Tokens = Holdings + pot.free /\ Tokens' = Holdings' + w.free
  BY <1>7, TokensHeld
<1>10. /\ Tokens \in Nat /\ Tokens' \in Nat /\ Tokens' <= Tokens + 0
       /\ Tokens + 0 - Tokens' = m /\ m \in Nat
  <2>1. PICK h \in Nat, x \in Nat, y \in Nat, q \in Nat :
            h = Holdings' /\ x = w.free /\ y = pot.free /\ q = Holdings
    BY <1>2, <1>5, <1>6
  <2>2. Tokens = h + v + y /\ Tokens' = h + x /\ x <= y + v /\ m = y + v - x
    BY <1>5, <1>8, <1>9, <2>1
  <2> QED
    BY <2>2
<1>11. Loses(m)
  BY <1>5, <1>7, <1>10, PotDustLost
<1> QED
  BY <1>10, <1>11 DEF Issues

LEMMA PaymentTokens ==
    ASSUME IInv, NEW s \in Accounts, NEW v \in Nat, PayProject(s, v)
    PROVE  Issues(0)
<1>1. CASE UNCHANGED <<account, accumulator, pot>>
  BY <1>1, SameAccounts, TokensKept
<1> QED
  BY <1>1, SpentIncomeTokens DEF PayProject

LEMMA SpendTokens ==
    ASSUME IInv, NEW s \in Accounts, NEW v \in SpendAmounts, SpendElsewhere(s, v)
    PROVE  Issues(0)
<1>1. PICK d : d = Spend(account[s], v)
  OBVIOUS
<1>2. /\ Holdings \in Nat /\ HoldingOf(s) \in Nat
      /\ account[s] \in Account /\ account[s].free \in Nat /\ account[s].reserved \in Nat
      /\ pot.free \in Nat
  BY HoldingTypes, PotTypes
<1>3. /\ v \in 0..account[s].free /\ UNCHANGED pot
      /\ account' = [account EXCEPT ![s] = d]
  BY <1>1 DEF SpendElsewhere, CanSpend, Usable, rewardVars
<1>4. /\ d.free \in Nat /\ d.reserved \in Nat /\ v \in Nat
      /\ d.free + d.reserved + v = HoldingOf(s)
  BY <1>1, <1>2, <1>3 DEF HoldingOf, Spend, Account
<1>5. /\ Holdings' + HoldingOf(s) = Holdings + (d.free + d.reserved)
      /\ Holdings' \in Nat
  BY <1>3, <1>4, OneHolding
<1>6. /\ Tokens = Holdings + pot.free /\ Tokens' = Holdings' + pot.free
  BY <1>3, TokensHeld
<1>7. /\ Tokens \in Nat /\ Tokens' \in Nat /\ Tokens' <= Tokens + 0
      /\ Tokens + 0 - Tokens' = v
  <2>1. PICK h \in Nat, k \in Nat : h = Holdings' /\ k = Holdings
    BY <1>2, <1>5
  <2>2. PICK x \in Nat, y \in Nat : x = HoldingOf(s) /\ y = d.free + d.reserved
    BY <1>2, <1>4
  <2>3. PICK z \in Nat : z = pot.free
    BY <1>2
  <2>4. y + v = x /\ h + x = k + y /\ Tokens = k + z /\ Tokens' = h + z
    BY <1>4, <1>5, <1>6, <2>1, <2>2, <2>3
  <2> QED
    BY <1>4, <2>4
<1>8. Loses(v)
  BY DEF Loses
<1> QED
  BY <1>7, <1>8 DEF Issues

(* Income that comes from block-reward is issued.                          *)
LEMMA IncomeTokens ==
    ASSUME IInv, NEW v \in Nat, AddRewards(v), UNCHANGED account
    PROVE  Issues(v)
<1>1. PICK w : w = Deposit(pot, v)
  OBVIOUS
<1>2. Holdings \in Nat /\ pot \in Account /\ pot.free \in Nat
  BY HoldingTypes, PotTypes
<1>3. PICK m \in {0} \cup DustOf(w) :
          w.free \in Nat /\ w.free <= pot.free + v /\ m = pot.free + v - w.free
  BY <1>1, <1>2, DepositHoldings
<1>4. Holdings' = Holdings /\ pot' = w
  BY <1>1, SameAccounts DEF AddRewards
<1>5. /\ Tokens = Holdings + pot.free /\ Tokens' = Holdings + w.free
  BY <1>4, TokensHeld
<1>6. /\ Tokens \in Nat /\ Tokens' \in Nat /\ Tokens' <= Tokens + v
      /\ Tokens + v - Tokens' = m /\ m \in Nat
  BY <1>2, <1>3, <1>5
<1>7. Loses(m)
  BY <1>3, <1>4, <1>6, PotDustLost
<1> QED
  BY <1>6, <1>7 DEF Issues

LEMMA CallsTokens ==
    ASSUME IInv, IInv', Calls
    PROVE  Issues(0) \/ \E v \in RewardAmounts : Rewards(v)
<1>1. CASE ForceNewEra
  BY <1>1, SameAccounts, TokensKept DEF ForceNewEra
<1>2. ASSUME NEW s \in Accounts, NEW p \in Providers, NEW v,
             \/ v \in StakeAmounts /\ Stake(s, p, v)
             \/ v \in UnstakeAmounts /\ Unstake(s, p, v)
      PROVE  Issues(0)
  BY <1>2, StakingTokens
<1>3. ASSUME NEW s \in Accounts, NEW p \in Providers,
             ClaimStaker(s, p) \/ WithdrawFromUnregisteredStaker(s, p)
      PROVE  Issues(0)
  <2>1. CASE ClaimStaker(s, p)
    <3>1. PICK r : Pay(r)
      BY <2>1 DEF ClaimStaker
    <3> QED
      BY <3>1, PayTokens
  <2> QED
    BY <1>3, <2>1, WithdrawalTokens
<1>4. ASSUME NEW s \in Accounts, WithdrawUnstaked(s)
      PROVE  Issues(0)
  BY <1>4, WithdrawalTokens
<1>5. ASSUME NEW s \in Accounts, NEW v \in SpendAmounts, SpendElsewhere(s, v)
      PROVE  Issues(0)
  BY <1>5, SpendTokens
<1>6. ASSUME NEW p \in Providers, WithdrawFromUnregisteredOperator(p)
      PROVE  Issues(0)
  <2>1. p \in DOMAIN registeredProviders
    BY <1>6 DEF WithdrawFromUnregisteredOperator, UnbondedSinceUnregistered,
                IsUnregistered, IsRegistered
  <2>2. registeredProviders[p].operator \in Accounts
    BY <2>1, TypeParts DEF IInv, ProvidersOK, ProviderInfo
  <2> QED
    BY <1>6, <2>2, WithdrawalTokens
<1>7. ASSUME NEW p \in Providers, NEW e, ClaimOperator(p, e)
      PROVE  Issues(0)
  <2>1. PICK r : Pay(r)
    BY <1>7 DEF ClaimOperator
  <2> QED
    BY <2>1, PayTokens
<1> QED
  BY <1>1, <1>2, <1>3, <1>4, <1>5, <1>6, <1>7 DEF Calls

LEMMA DapiCallsTokens ==
    ASSUME IInv, IInv', RewardAmounts = {}, DapiCalls
    PROVE  Issues(0)
<1>1. CASE Calls
  BY <1>1, CallsTokens
<1>2. ASSUME NEW a \in Accounts, NEW j, NEW c, NEW v \in PaymentAmounts,
             RegisterProject(a, j, c, v) \/ DepositProject(a, j, v)
      PROVE  Issues(0)
  <2>1. PayProject(a, v) /\ v \in Nat
    BY <1>2, DapiAssumption DEF RegisterProject, DepositProject
  <2> QED
    BY <2>1, PaymentTokens
<1>3. ASSUME NEW a \in Accounts, NEW p \in Providers, NEW v \in DepositAmounts,
             DepositProvider(a, p, v)
      PROVE  Issues(0)
  <2>1. Register(a, p, v) \/ RegisterStakeFails(a, p, v)
    BY <1>3 DEF DepositProvider
  <2> QED
    BY <2>1, StakingTokens
<1>4. ASSUME NEW a \in Accounts, NEW p \in Providers,
             UnregisterProvider(a, p) \/ ReportProviderOffence(a, p)
      PROVE  Issues(0)
  <2>1. Unregister(p)
    BY <1>4 DEF UnregisterProvider, ReportProviderOffence, Deactivate
  <2> QED
    BY <2>1, WithdrawalTokens
<1>5. ASSUME NEW a, NEW j, NEW u, NEW p, NEW o, NEW c,
             \/ SubmitProjectUsage(a, j, u) \/ RegisterProvider(a, p, o, c)
             \/ AddRegulator(a) \/ RemoveRegulator(a)
             \/ AddChainId(c) \/ RemoveChainId(c)
      PROVE  Issues(0)
  <2>1. UNCHANGED <<account, pot>>
    BY <1>5 DEF SubmitProjectUsage, RegisterProvider, AddRegulator, RemoveRegulator,
                AddChainId, RemoveChainId, stakingVars, vars
  <2> QED
    BY <2>1, SameAccounts, TokensKept
<1> QED
  BY <1>1, <1>2, <1>3, <1>4, <1>5 DEF DapiCalls

(* A step issues the providers' part of a block, or nothing.               *)
LEMMA RuntimeTokens ==
    ASSUME RuntimeInv, RuntimeInv', RewardAmounts = {}, [RuntimeNext]_runtimeVars
    PROVE  \E v \in Nat : Issues(v) /\ minted'.providers = minted.providers + v
<1>1. IInv /\ BlockRewardTypeOK
  BY DEF RuntimeInv, RewardInv, MoneyInv, ClaimsInv, ErasInv, BooksInv
<1>2. IInv'
  BY DEF RuntimeInv, MoneyInv, ClaimsInv, ErasInv, BooksInv
<1>3. minted.providers \in Nat
  BY <1>1 DEF BlockRewardTypeOK
<1>4. ASSUME UNCHANGED minted, Issues(0)
      PROVE  \E v \in Nat : Issues(v) /\ minted'.providers = minted.providers + v
  BY <1>3, <1>4
<1>5. CASE BeginBlock
  BY <1>1, <1>4, <1>5, SameAccounts, TokensKept
     DEF BeginBlock, OnInitialize, blockRewardVars
<1>6. CASE OnTimestampSet
  <2>1. PICK v \in Nat : v = ProvidersPart
    BY <1>1, PartsOfReward, BlockRewardAssumption
  <2>2. Issues(v)
    BY <1>1, <1>6, <2>1, IncomeTokens DEF OnTimestampSet
  <2>3. minted'.providers = minted.providers + v
    BY <1>6, <2>1 DEF OnTimestampSet, DistributeRewards
  <2> QED
    BY <2>2, <2>3
<1>7. CASE Reconfigure
  BY <1>1, <1>4, <1>7, SameAccounts, TokensKept
     DEF Reconfigure, SetConfiguration, stakingVars, vars
<1>8. CASE InCalls(DapiCalls)
  BY <1>1, <1>2, <1>4, <1>8, DapiCallsTokens DEF InCalls, blockRewardVars
<1>9. CASE UNCHANGED runtimeVars
  BY <1>1, <1>4, <1>9, SameAccounts, TokensKept
     DEF runtimeVars, stakingVars, vars, blockRewardVars
<1> QED
  BY <1>5, <1>6, <1>7, <1>8, <1>9 DEF RuntimeNext

Endowment == Cardinality(Accounts) * InitialBalance

TokensCovered == Tokens <= Endowment + minted.providers

LEMMA EndowmentType == Endowment \in Nat
<1>1. Cardinality(Accounts) \in Nat /\ InitialBalance \in Nat
  BY FiniteDomains, FS_CardinalityType, DapiStakingAssumption
<1> QED
  BY <1>1 DEF Endowment

LEMMA EndowedTokens ==
    ASSUME Init
    PROVE  Tokens = Endowment
<1>1. /\ account = [a \in Accounts |-> NewAccount(InitialBalance)]
      /\ pot.free = 0
  BY DEF Init, NewAccount
<1>2. InitialBalance \in Nat
  BY DapiStakingAssumption
<1>3. \A a \in Accounts : HoldingOf(a) = InitialBalance
  BY <1>1, <1>2 DEF HoldingOf, NewAccount
<1>4. Holdings = Sum([a \in Accounts |-> InitialBalance])
  BY <1>3 DEF Holdings
<1>5. Holdings = Endowment
  BY <1>2, <1>4, SumConstant, FiniteDomains DEF Endowment
<1> QED
  BY <1>1, <1>5, EndowmentType, TokensHeld

LEMMA InitTokens ==
    ASSUME RuntimeInit
    PROVE  Tokens = Endowment + minted.providers
<1>1. Init /\ minted.providers = 0
  BY DEF RuntimeInit, DapiInit, BlocksInit, BlockRewardInit
<1> QED
  BY <1>1, EndowedTokens, EndowmentType

LEMMA TokensStep ==
    ASSUME RuntimeInv, RewardAmounts = {}, [RuntimeNext]_runtimeVars
    PROVE  TokensCovered => TokensCovered'
<1>1. PICK v \in Nat : Issues(v) /\ minted'.providers = minted.providers + v
  BY RuntimeStep, RuntimeTokens
<1>2. minted.providers \in Nat /\ Endowment \in Nat
  BY EndowmentType DEF RuntimeInv, RewardInv, BlockRewardTypeOK
<1>3. TokensCovered' <=> Tokens' <= Endowment + minted'.providers
  BY DEF TokensCovered, Endowment
<1> QED
  BY <1>1, <1>2, <1>3 DEF TokensCovered, Issues

(* Whatever the existential deposit, and whatever is spent elsewhere: no   *)
(* call of the three pallets creates tokens.  All there are is what the    *)
(* accounts were endowed with and the providers' part of the blocks.       *)
THEOREM NoTokenFromNothing ==
    ASSUME RewardAmounts = {}
    PROVE  RuntimeSpec => []TokensCovered
<1>1. RuntimeInit => TokensCovered
  <2>1. ASSUME RuntimeInit PROVE TokensCovered
    <3>1. Tokens = Endowment + minted.providers /\ minted.providers \in Nat
      BY <2>1, InitTokens DEF RuntimeInit, BlocksInit, BlockRewardInit
    <3> QED
      BY <3>1, EndowmentType DEF TokensCovered
  <2> QED
    BY <2>1
<1>2. RuntimeInv /\ TokensCovered /\ [RuntimeNext]_runtimeVars
          => RuntimeInv' /\ TokensCovered'
  BY TokensStep, RuntimeStep
<1> QED
  BY <1>1, <1>2, RuntimeInitInv, PTL DEF RuntimeSpec

(* None is lost either, but for what is spent elsewhere and what is below  *)
(* the existential deposit where the pot, or the account paid, is empty.   *)
THEOREM TokensAreConserved ==
    ASSUME RewardAmounts = {}
    PROVE  RuntimeSpec => TokensConserved
<1> DEFINE Conserved ==
               LET issued == minted'.providers - minted.providers
                   lost == Tokens + issued - Tokens'
                   dust == {0} \cup UNION {DustOf(account'[a]) : a \in Accounts}
               IN  \/ \E m \in {0} \cup DustOf(pot'), n \in dust : lost = m + n
                   \/ \E s \in Accounts, v \in SpendAmounts :
                          SpendElsewhere(s, v) /\ lost = v
<1>1. RuntimeInv /\ [RuntimeNext]_runtimeVars => Conserved
  <2> SUFFICES ASSUME RuntimeInv, [RuntimeNext]_runtimeVars PROVE Conserved
    OBVIOUS
  <2>1. PICK v \in Nat : Issues(v) /\ minted'.providers = minted.providers + v
    BY RuntimeStep, RuntimeTokens
  <2>2. minted.providers \in Nat
    BY DEF RuntimeInv, RewardInv, BlockRewardTypeOK
  <2>3. minted'.providers - minted.providers = v
    BY <2>1, <2>2
  <2>4. Loses(Tokens + (minted'.providers - minted.providers) - Tokens')
    BY <2>1, <2>3 DEF Issues
  <2> QED
    BY <2>4 DEF Loses, AccountDust
<1> HIDE DEF Conserved
<1>2. RuntimeInv /\ [RuntimeNext]_runtimeVars => [Conserved]_runtimeVars
  BY <1>1
<1>3. RuntimeSpec => [][Conserved]_runtimeVars
  BY RuntimeInitInv, RuntimeStep, <1>2, PTL DEF RuntimeSpec
<1> QED
  BY <1>3, PTL DEF Conserved, TokensConserved
-------------------------------------------------------------------------------
(* The supply of tokens, and what can come to be staked *)

(* Each era brings at most MaxEraReward, so that there are never more than *)
(* AllFunds tokens.                                                        *)
SupplyInv ==
    /\ currentEra <= MaxEra
    /\ Gathered <= MaxEraReward
    /\ Tokens <= Endowment + currentEra * MaxEraReward + Gathered

LEMMA SupplyTypes ==
    IInv => /\ Tokens \in Nat /\ Gathered \in Nat /\ Endowment \in Nat
            /\ currentEra \in Nat /\ MaxEra \in Nat /\ MaxEraReward \in Nat
            /\ currentEra * MaxEraReward \in Nat
<1> SUFFICES ASSUME IInv
             PROVE  /\ Tokens \in Nat /\ Gathered \in Nat /\ Endowment \in Nat
                    /\ currentEra \in Nat /\ MaxEra \in Nat /\ MaxEraReward \in Nat
                    /\ currentEra * MaxEraReward \in Nat
  OBVIOUS
<1>1. /\ Holdings \in Nat /\ pot.free \in Nat /\ Gathered \in Nat /\ Endowment \in Nat
      /\ currentEra \in Nat /\ MaxEra \in Nat /\ MaxEraReward \in Nat
  BY HoldingTypes, PotTypes, MoneyTypes, EndowmentType, TypeParts, DapiStakingAssumption
     DEF IInv, ErasOK
<1> QED
  BY <1>1, TokensHeld

LEMMA InitSupply == Init => SupplyInv
<1> SUFFICES ASSUME Init PROVE SupplyInv
  OBVIOUS
<1>1. /\ currentEra = 0 /\ Gathered = 0 /\ MaxEra \in Nat /\ MaxEraReward \in Nat
  BY DapiStakingAssumption DEF Init, Gathered, NoReward
<1>2. Tokens = Endowment
  BY EndowedTokens
<1> QED
  BY <1>1, <1>2, EndowmentType DEF SupplyInv

LEMMA AllFundsType == AllFunds \in Nat
<1>1. /\ Cardinality(Accounts) * InitialBalance \in Nat
      /\ MaxEra \in Nat /\ MaxEraReward \in Nat
  BY EndowmentType, DapiStakingAssumption DEF Endowment
<1>2. (MaxEra + 1) * MaxEraReward \in Nat
  BY <1>1
<1> QED
  BY <1>1, <1>2 DEF AllFunds

LEMMA ChainTokens ==
    ASSUME IInv, IInv', ChainStep
    PROVE  \/ Issues(0)
           \/ \E v \in Nat : /\ Issues(v) /\ AddRewards(v)
                             /\ UNCHANGED <<generalEraInfo, currentEra, receipts>>
<1> DEFINE Done == \/ Issues(0)
                   \/ \E v \in Nat : /\ Issues(v) /\ AddRewards(v)
                                     /\ UNCHANGED <<generalEraInfo, currentEra, receipts>>
<1>1. ASSUME NEW v \in Nat, AddRewards(v), UNCHANGED account,
             UNCHANGED <<generalEraInfo, currentEra, receipts>>
      PROVE  Done
  BY <1>1, IncomeTokens
<1>2. ASSUME NEW s \in Accounts, NEW v \in Nat, CanSpend(account[s], v), AddRewards(v),
             account' = [account EXCEPT ![s] = Spend(account[s], v)]
      PROVE  Issues(0)
  BY <1>2, SpentIncomeTokens
<1>3. ASSUME NEW v \in Nat, Income(v)
      PROVE  Done
  BY <1>1, <1>2, <1>3 DEF Income, eraVars
<1>4. CASE Calls
  <2>1. ASSUME NEW v \in RewardAmounts, Rewards(v)
        PROVE  Done
    <3>1. v \in Nat
      BY DapiStakingAssumption
    <3> QED
      BY <1>1, <2>1, <3>1 DEF Rewards, eraVars
  <2> QED
    BY <1>4, <2>1, CallsTokens
<1>5. CASE OnInitialize
  BY <1>5, SameAccounts, TokensKept DEF OnInitialize
<1>6. ASSUME NEW o \in Accounts, NEW p \in Providers, NEW v,
             Register(o, p, v) \/ RegisterStakeFails(o, p, v)
      PROVE  Issues(0)
  BY <1>6, StakingTokens
<1>7. ASSUME NEW p \in Providers, Unregister(p)
      PROVE  Issues(0)
  BY <1>7, SameAccounts, TokensKept DEF Unregister, rewardVars
<1>8. CASE UNCHANGED vars
  BY <1>8, SameAccounts, TokensKept DEF vars
<1> HIDE DEF Done
<1>9. /\ Issues(0) => Done
      /\ OnInitialize \/ Calls \/ UNCHANGED vars => Done
  BY <1>4, <1>5, <1>8 DEF Done
<1>10. Done
  BY <1>3, <1>6, <1>7, <1>9 DEF ChainStep, Next, RegistryCalls
<1> QED
  BY <1>10 DEF Done

LEMMA ChainSupply ==
    ASSUME MoneyInv, SupplyInv, ChainStep
    PROVE  SupplyInv'
<1>1. IInv /\ IInv' /\ MoneyHandled
  BY ChainMoney DEF MoneyInv, ClaimsInv, ErasInv, BooksInv
<1> DEFINE n == currentEra * MaxEraReward
<1>2. /\ Tokens \in Nat /\ Gathered \in Nat /\ Endowment \in Nat
      /\ currentEra \in Nat /\ MaxEra \in Nat /\ MaxEraReward \in Nat /\ n \in Nat
  BY <1>1, SupplyTypes
<1>3. /\ SupplyInv <=> /\ currentEra <= MaxEra /\ Gathered <= MaxEraReward
                       /\ Tokens <= Endowment + n + Gathered
      /\ SupplyInv' <=> /\ currentEra' <= MaxEra /\ Gathered' <= MaxEraReward
                        /\ Tokens' <= Endowment + currentEra' * MaxEraReward + Gathered'
  BY DEF SupplyInv, Endowment
<1>4. ASSUME NEW v \in Nat, NEW w \in {0, v}, Issues(w), AddRewards(v),
             UNCHANGED <<generalEraInfo, currentEra, receipts>>
      PROVE  SupplyInv'
  <2>1. Gathered' = Gathered + v /\ Gathered + v <= MaxEraReward
    BY <1>4, IncomeComes DEF MoneyComes, AddRewards, Gathered
  <2>2. currentEra' * MaxEraReward = n
    BY <1>4
  <2>3. Tokens' \in Nat /\ Tokens' <= Tokens + w
    BY <1>4 DEF Issues
  <2> HIDE DEF n
  <2> QED
    BY <1>2, <1>3, <1>4, <2>1, <2>2, <2>3
<1>5. ASSUME Issues(0), UNCHANGED <<currentEra, accumulator>>
      PROVE  SupplyInv'
  <2>1. Gathered' = Gathered
    BY <1>5 DEF Gathered
  <2>2. currentEra' * MaxEraReward = n
    BY <1>5
  <2>3. Tokens' \in Nat /\ Tokens' <= Tokens
    BY <1>2, <1>5 DEF Issues
  <2> HIDE DEF n
  <2> QED
    BY <1>2, <1>3, <1>5, <2>1, <2>2, <2>3
<1>6. ASSUME Issues(0), NewEra
      PROVE  SupplyInv'
  <2>1. /\ Gathered' = 0 /\ currentEra < MaxEra /\ currentEra' = currentEra + 1
    BY <1>6 DEF Gathered, NewEra, EraBegins, NoReward
  <2>2. currentEra' * MaxEraReward = n + MaxEraReward
    BY <1>2, <2>1
  <2>3. Tokens' \in Nat /\ Tokens' <= Tokens
    BY <1>2, <1>6 DEF Issues
  <2> HIDE DEF n
  <2> QED
    BY <1>2, <1>3, <2>1, <2>2, <2>3
<1>7. ASSUME Issues(0) PROVE SupplyInv'
  <2>1. CASE MoneyUntouched
    BY <1>5, <1>7, <2>1 DEF MoneyUntouched
  <2>2. CASE NewEra
    BY <1>6, <1>7, <2>2
  <2>3. ASSUME NEW v \in Nat, IncomeArrives(v)
        PROVE  SupplyInv'
    BY <1>4, <1>7, <2>3 DEF IncomeArrives
  <2>4. ASSUME NEW r \in Receipt, ClaimIsPaid(r)
        PROVE  SupplyInv'
    BY <1>5, <1>7, <2>4 DEF ClaimIsPaid
  <2> QED
    BY <1>1, <2>1, <2>2, <2>3, <2>4 DEF MoneyHandled
<1> QED
  BY <1>1, <1>4, <1>7, ChainTokens

(* No one can come to stake more than there is.                            *)
LEMMA StakeWithinFunds ==
    ASSUME BooksInv, SupplyInv, NEW s \in Accounts, NEW p \in Providers
    PROVE  StakeNow(s, p) \in Nat /\ StakeNow(s, p) <= AllFunds /\ AllFunds \in Nat
<1>1. IInv /\ LedgerMatchesStakes /\ LocksBacked
  BY DEF BooksInv, Books, IInv
<1>0. ChunkSum(ledger[s].unbonding) \in Nat
  BY ChunkSumType DEF BooksInv, Books, ChunkSum
<1>2. StakeNow(s, p) \in Nat /\ StakeNow(s, p) <= StakeOf(s) /\ StakeOf(s) \in Nat
  <2> DEFINE f == [q \in Providers |-> StakeNow(s, q)]
  <2>1. f \in [Providers -> Nat] /\ f[p] = StakeNow(s, p) /\ StakeOf(s) = Sum(f)
    BY <1>1, StakeNowType DEF StakeOf, StakeNow
  <2> HIDE DEF f
  <2> QED
    BY <1>1, <2>1, FiniteDomains, SumMember, StakeNowType, StakeOfType
<1>3. StakeOf(s) <= ledger[s].locked
  BY <1>0, <1>1, <1>2 DEF LedgerMatchesStakes
<1>4. ledger[s].locked <= account[s].free /\ account[s].free <= HoldingOf(s)
  BY <1>1, HoldingTypes, TypeParts
     DEF IInv, LocksBacked, LedgersOK, IsLedger, Account, HoldingOf
<1>5. HoldingOf(s) <= Holdings /\ Holdings <= Tokens
  <2> DEFINE f == [a \in Accounts |-> HoldingOf(a)]
  <2>1. f \in [Accounts -> Nat] /\ f[s] = HoldingOf(s) /\ Holdings = Sum(f)
    BY <1>1, HoldingTypes DEF Holdings
  <2> HIDE DEF f
  <2>2. HoldingOf(s) <= Holdings
    BY <2>1, FiniteDomains, SumMember
  <2> QED
    BY <1>1, <2>2, HoldingTypes, PotTypes, TokensHeld
<1>6. Tokens <= AllFunds /\ AllFunds \in Nat
  <2>1. /\ Tokens \in Nat /\ Gathered \in Nat /\ Endowment \in Nat
        /\ currentEra \in Nat /\ MaxEra \in Nat /\ MaxEraReward \in Nat
    BY <1>1, SupplyTypes
  <2>2. AllFunds = Endowment + (MaxEra + 1) * MaxEraReward
    BY DEF AllFunds, Endowment
  <2> DEFINE n == currentEra * MaxEraReward
             m == MaxEra * MaxEraReward
  <2>3. n \in Nat /\ m \in Nat /\ n <= m /\ (MaxEra + 1) * MaxEraReward = m + MaxEraReward
    <3>1. currentEra <= MaxEra
      BY DEF SupplyInv
    <3> QED
      BY <2>1, <3>1
  <2>4. Gathered <= MaxEraReward /\ Tokens <= Endowment + n + Gathered
    BY DEF SupplyInv
  <2> HIDE DEF n, m
  <2> QED
    BY <2>1, <2>2, <2>3, <2>4
<1>7. {StakeOf(s), ledger[s].locked, account[s].free, HoldingOf(s), Holdings, Tokens} \subseteq Nat
  BY <1>1, <1>2, HoldingTypes, SupplyTypes, TypeParts DEF IInv, LedgersOK, IsLedger
<1> QED
  BY <1>2, <1>3, <1>4, <1>5, <1>6, <1>7

-------------------------------------------------------------------------------
(* The histories of the pairings *)

EraOf == IF currentEra = 0 THEN 1 ELSE currentEra
ClosedIn(p) == IF IsUnregistered(p) THEN registeredProviders[p].since ELSE 0

PairingSame(s, p) ==
    /\ stakerInfo'[s][p] = stakerInfo[s][p]
    /\ EraOf' = EraOf
    /\ ClosedIn(p)' = ClosedIn(p)
    /\ LastPayout(s, p)' = LastPayout(s, p)

PairingStep(s, p) == [Pairing(s, p)!Next]_(Pairing(s, p)!vars)

LEMMA SamePairing ==
    ASSUME NEW s, NEW p, PairingSame(s, p)
    PROVE  PairingStep(s, p)
  BY DEF PairingSame, PairingStep, Pairing!vars, EraOf, ClosedIn

(* The methods of StakerInfo are the same in both modules.                 *)
LEMMA SameMethods ==
    ASSUME NEW s, NEW p, NEW t, NEW e, NEW v
    PROVE  /\ Pairing(s, p)!AddStake(t, e, v) = AddStake(t, e, v)
           /\ Pairing(s, p)!RemoveStake(t, e, v) = RemoveStake(t, e, v)
           /\ Pairing(s, p)!LatestStakedValue(t) = LatestStakedValue(t)
           /\ Pairing(s, p)!UnexpectedEra(t, e) <=> UnexpectedEra(t, e)
           /\ Pairing(s, p)!SaturatingSub(e, v) = SaturatingSub(e, v)
           /\ Pairing(s, p)!Claimable(t) = Claimable(t)
           /\ Pairing(s, p)!AfterClaim(t) = AfterClaim(t)
  BY DEF Pairing!AddStake, AddStake, Pairing!RemoveStake, RemoveStake,
         Pairing!LatestStakedValue, LatestStakedValue, Pairing!UnexpectedEra, UnexpectedEra,
         Pairing!SaturatingSub, SaturatingSub, Pairing!Claimable, Claimable,
         Pairing!AfterClaim, AfterClaim, Pairing!SetLatest, SetLatest,
         Pairing!DropUnstakedHead, DropUnstakedHead, Pairing!AdvanceHead, AdvanceHead

Mine(s, p) == {r \in receipts : r.role = "staker" /\ r.who = s /\ r.provider = p}

LEMMA LastPayoutIs ==
    ASSUME UniqueClaims, NEW s, NEW p, NEW r \in Mine(s, p),
           \A q \in Mine(s, p) : q.era \in Nat /\ q.era <= r.era
    PROVE  LastPayout(s, p) = [era |-> r.era, staked |-> r.staked]
<1>1. PICK m : m = Mine(s, p)
  OBVIOUS
<1>2. PICK last : last = CHOOSE q \in m : \A k \in m : k.era <= q.era
  OBVIOUS
<1>3. last \in m /\ \A k \in m : k.era <= last.era
  BY <1>1, <1>2
<1>4. last.era = r.era
  BY <1>1, <1>3
<1>5. last = r
  BY <1>1, <1>3, <1>4 DEF UniqueClaims, SameClaim, Mine
<1>6. LastPayout(s, p) = IF m = {} THEN [era |-> 0, staked |-> 0]
                         ELSE [era |-> last.era, staked |-> last.staked]
  BY <1>1, <1>2 DEF LastPayout, Mine
<1> QED
  BY <1>1, <1>5, <1>6

IsLast(r, s, p) == r \in Mine(s, p) /\ \A q \in Mine(s, p) : q.era \in Nat /\ q.era <= r.era
Last(r, s, p) == LastPayout(s, p) = [era |-> r.era, staked |-> r.staked]

LEMMA LastPayoutNow == UniqueClaims => \A r, s, p : IsLast(r, s, p) => Last(r, s, p)
  BY LastPayoutIs DEF IsLast, Last

LEMMA SamePayout ==
    ASSUME NEW s, NEW p, Mine(s, p)' = Mine(s, p)
    PROVE  LastPayout(s, p)' = LastPayout(s, p)
  BY DEF LastPayout, Mine

LEMMA LastPayoutNext ==
    UniqueClaims' => (\A r, s, p : IsLast(r, s, p) => Last(r, s, p))'
  BY LastPayoutNow, PTL

LEMMA PairingInit ==
    ASSUME Init, NEW s \in Accounts, NEW p \in Providers
    PROVE  Pairing(s, p)!Init
<1>1. /\ stakerInfo[s][p] = <<>> /\ currentEra = 0 /\ ~IsUnregistered(p) /\ receipts = {}
  BY DEF Init, IsUnregistered, IsRegistered
<1>2. LastPayout(s, p) = [era |-> 0, staked |-> 0]
  BY <1>1 DEF LastPayout
<1> QED
  BY <1>1, <1>2 DEF Pairing!Init

AllWithinFunds == \A s \in Accounts, p \in Providers : StakeNow(s, p) <= AllFunds

LEMMA StakesWithinFunds == BooksInv /\ SupplyInv => AllWithinFunds
  BY StakeWithinFunds DEF AllWithinFunds

LEMMA StakesWithinFundsNext == BooksInv' /\ SupplyInv' => AllWithinFunds'
  BY StakesWithinFunds, PTL

(* The conditions of stake and its write, for the pairing it is about.     *)
LEMMA PairingStakes ==
    ASSUME IInv, BooksInv', SupplyInv', NEW s \in Accounts, NEW p \in Providers,
           NEW v \in Nat, v > 0, InBlock, UNCHANGED currentEra,
           ClosedIn(p) = 0, ClosedIn(p)' = 0, LastPayout(s, p)' = LastPayout(s, p),
           ~UnexpectedEra(stakerInfo[s][p], currentEra),
           Len(AddStake(stakerInfo[s][p], currentEra, v)) < MaxEraStakeValues,
           LatestStakedValue(AddStake(stakerInfo[s][p], currentEra, v))
               >= MinimumStakingAmount,
           stakerInfo'[s][p] = AddStake(stakerInfo[s][p], currentEra, v)
    PROVE  PairingStep(s, p)
<1> DEFINE next == AddStake(stakerInfo[s][p], currentEra, v)
<1>1. currentEra \in Nat /\ currentEra # 0 /\ EraOf = currentEra /\ EraOf' = EraOf
  BY TypeParts DEF IInv, ErasOK, InBlock, EraOf
<1>2. /\ LatestStakedValue(next) <= AllFunds /\ AllFunds \in Nat
      /\ LatestStakedValue(next) = StakeNow(s, p) + v /\ StakeNow(s, p) \in Nat
  <2>1. StakeNow(s, p)' = LatestStakedValue(next)
    BY DEF StakeNow
  <2>2. LatestStakedValue(next) = StakeNow(s, p) + v
    BY <1>1, HistoryInOrder, LatestAfterAdd DEF StakeNow
  <2>3. StakeNow(s, p)' <= AllFunds
    BY StakesWithinFundsNext DEF AllWithinFunds, AllFunds
  <2> QED
    BY <2>1, <2>2, <2>3, StakeNowType, AllFundsType
<1> HIDE DEF next
<1>3. v \in 1..AllFunds
  BY <1>2
<1>4. Pairing(s, p)!Stake(v)
  BY <1>1, <1>2, SameMethods DEF Pairing!Stake, EraOf, ClosedIn, next
<1> QED
  BY <1>3, <1>4 DEF PairingStep, Pairing!Next

LEMMA PairingUnstakes ==
    ASSUME BooksInv, SupplyInv, NEW s \in Accounts, NEW p \in Providers,
           NEW v \in Nat, Unstake(s, p, v)
    PROVE  PairingStep(s, p)
<1>1. IInv /\ currentEra \in Nat /\ currentEra # 0 /\ currentEra' = currentEra
  BY TypeParts DEF BooksInv, IInv, ErasOK, Unstake, InBlock, eraVars
<1>2. ClosedIn(p) = 0 /\ ClosedIn(p)' = 0
  BY DEF Unstake, ClosedIn, IsActiveProvider, IsUnregistered, IsRegistered
<1>3. LastPayout(s, p)' = LastPayout(s, p)
  BY SamePayout DEF Unstake, rewardVars, Mine
<1>4. StakeNow(s, p) \in Nat /\ StakeNow(s, p) <= AllFunds /\ AllFunds \in Nat
  BY StakeWithinFunds
<1>5. PICK n, t, next : /\ n = UnstakeAmount(s, p, v) /\ t = stakerInfo[s][p]
                        /\ next = RemoveStake(t, currentEra, n)
  OBVIOUS
<1>6. /\ StakeNow(s, p) > 0 /\ ~UnexpectedEra(t, currentEra) /\ v > 0
      /\ Len(next) < MaxEraStakeValues /\ stakerInfo'[s][p] = next
  BY <1>1, <1>5, TypeParts DEF Unstake, UpdateStakerInfo, StakeNow, IInv, HistoriesOK
<1> DEFINE taken(w) == IF SaturatingSub(StakeNow(s, p), w) < MinimumStakingAmount
                       THEN StakeNow(s, p) ELSE w
<1>7. n = taken(v)
  BY <1>5 DEF UnstakeAmount, StakeNow
<1>8. PICK w \in 1..AllFunds : taken(w) = n
  <2>1. CASE v <= AllFunds
    BY <1>4, <1>6, <1>7, <2>1
  <2>2. CASE v > AllFunds
    <3>1. SaturatingSub(StakeNow(s, p), v) = 0
      BY <1>4, <2>2 DEF SaturatingSub
    <3>2. SaturatingSub(StakeNow(s, p), StakeNow(s, p)) = 0
      BY <1>4 DEF SaturatingSub
    <3>3. 0 < MinimumStakingAmount
      BY DapiStakingAssumption
    <3>4. n = StakeNow(s, p) /\ taken(StakeNow(s, p)) = StakeNow(s, p)
      BY <1>7, <3>1, <3>2, <3>3
    <3> QED
      BY <1>4, <1>6, <3>4
  <2> QED
    BY <1>4, <2>1, <2>2
<1>9. Pairing(s, p)!Unstake(w)
  <2>1. PICK k : k = StakeNow(s, p)
    OBVIOUS
  <2>2. /\ Pairing(s, p)!LatestStakedValue(t) = k
        /\ Pairing(s, p)!SaturatingSub(k, w) = SaturatingSub(k, w)
        /\ Pairing(s, p)!RemoveStake(t, currentEra, n) = next
        /\ ~Pairing(s, p)!UnexpectedEra(t, currentEra)
    BY <1>5, <1>6, <2>1, SameMethods DEF StakeNow
  <2>3. (IF SaturatingSub(k, w) < MinimumStakingAmount THEN k ELSE w) = n
    BY <1>8, <2>1
  <2> QED
    BY <1>1, <1>2, <1>3, <1>5, <1>6, <2>1, <2>2, <2>3
       DEF Pairing!Unstake, EraOf, ClosedIn
<1> QED
  BY <1>8, <1>9 DEF PairingStep, Pairing!Next

(* Claims of a pairing are paid in order: the history has moved on from    *)
(* all eras that were paid.                                                *)
LEMMA PairingClaims ==
    ASSUME PoolInv, PoolInv', NEW s \in Accounts, NEW p \in Providers, ClaimStaker(s, p)
    PROVE  PairingStep(s, p)
<1>1. IInv /\ IInv' /\ currentEra \in Nat /\ currentEra # 0 /\ currentEra' = currentEra
  BY TypeParts DEF PoolInv, MoneyInv, ClaimsInv, ErasInv, BooksInv, IInv, ErasOK,
                   ClaimStaker, InBlock, eraVars
<1>2. PICK t, head, r : /\ t = stakerInfo[s][p] /\ head = Claimable(t)
                        /\ r = [role |-> "staker", who |-> s, provider |-> p,
                                era |-> head.era, staked |-> head.staked,
                                amount |-> StakerReward(p, head.era, head.staked)]
  OBVIOUS
<1>3. /\ head.staked > 0 /\ ClaimableEra(p, head.era)
      /\ receipts' = receipts \cup {r}
      /\ stakerInfo'[s][p] = AfterClaim(t)
      /\ UNCHANGED registeredProviders
  BY <1>1, <1>2, TypeParts
     DEF ClaimStaker, Pay, UpdateStakerInfo, IInv, HistoriesOK
<1>4. t # <<>> /\ t \in Seq(EraStake) /\ head = t[1]
  BY <1>1, <1>2, <1>3, HistoryInOrder DEF Claimable, InOrder
<1>5. head \in EraStake /\ 1 \in DOMAIN t
  BY <1>4
<1>6. \A q \in Mine(s, p) : q.era \in Nat /\ q.era < head.era
  <2> SUFFICES ASSUME NEW q \in Mine(s, p)
               PROVE  q.era \in Nat /\ q.era < head.era
    OBVIOUS
  <2>1. q \in receipts /\ q.role = "staker" /\ q.who = s /\ q.provider = p
    BY DEF Mine
  <2>2. Settled(q)
    BY <2>1 DEF PoolInv, MoneyInv, ClaimsInv
  <2>3. Later(t, q.era)
    BY <1>2, <2>1, <2>2 DEF Settled
  <2>4. q.era \in Nat
    BY <1>1, <2>1, TypeParts DEF IInv, RewardsOK, Receipt
  <2> QED
    BY <1>4, <1>5, <2>3, <2>4 DEF Later, EraStake
<1>7. LastPayout(s, p)' = head
  <2>1. Mine(s, p)' = Mine(s, p) \cup {r}
    BY <1>2, <1>3 DEF Mine
  <2>2. r.era = head.era /\ r.staked = head.staked /\ head.era \in Nat
    BY <1>2, <1>5 DEF EraStake
  <2>3. r \in Mine(s, p)' /\ \A q \in Mine(s, p)' : q.era \in Nat /\ q.era <= r.era
    BY <1>6, <2>1, <2>2
  <2>4. UniqueClaims'
    BY DEF PoolInv
  <2>5. LastPayout(s, p)' = [era |-> r.era, staked |-> r.staked]
    BY <2>3, <2>4, LastPayoutNext DEF IsLast, Last
  <2>6. head = [era |-> head.era, staked |-> head.staked]
    BY <1>5 DEF EraStake
  <2> QED
    BY <2>2, <2>5, <2>6
<1>8. Pairing(s, p)!Claimable(t) = head /\ Pairing(s, p)!AfterClaim(t) = AfterClaim(t)
  BY <1>2, SameMethods
<1>9. ClosedIn(p)' = ClosedIn(p) /\ (ClosedIn(p) # 0 => head.era < ClosedIn(p))
  BY <1>3 DEF ClosedIn, ClaimableEra, IsUnregistered, IsRegistered
<1>10. EraOf = currentEra /\ EraOf' = EraOf /\ head.era < currentEra
  BY <1>1, <1>3 DEF EraOf, ClaimableEra
<1>11. Pairing(s, p)!Claim
  BY <1>2, <1>3, <1>7, <1>8, <1>9, <1>10 DEF Pairing!Claim, EraOf, ClosedIn
<1> QED
  BY <1>11 DEF PairingStep, Pairing!Next

LEMMA PairingWithdraws ==
    ASSUME BooksInv, NEW s \in Accounts, NEW p \in Providers,
           WithdrawFromUnregisteredStaker(s, p)
    PROVE  PairingStep(s, p)
<1>1. IInv /\ currentEra \in Nat /\ currentEra # 0 /\ currentEra' = currentEra
  BY TypeParts DEF BooksInv, IInv, ErasOK, WithdrawFromUnregisteredStaker, InBlock, eraVars
<1>2. PICK t : t = stakerInfo[s][p]
  OBVIOUS
<1>3. /\ UnbondedSinceUnregistered(p) /\ AllClaimed(s, p) /\ LatestStakedValue(t) > 0
      /\ stakerInfo'[s][p] = <<>> /\ UNCHANGED <<registeredProviders, receipts>>
  BY <1>1, <1>2, TypeParts
     DEF WithdrawFromUnregisteredStaker, UpdateStakerInfo, IInv, HistoriesOK, rewardVars
<1>4. IsUnregistered(p) /\ registeredProviders[p].since # 0
  BY <1>3 DEF UnbondedSinceUnregistered, BooksInv, Books, RecordsInRange
<1>5. /\ ClosedIn(p) = registeredProviders[p].since /\ ClosedIn(p) # 0
      /\ ClosedIn(p)' = ClosedIn(p)
  BY <1>3, <1>4 DEF ClosedIn, IsUnregistered, IsRegistered
<1>6. LastPayout(s, p)' = LastPayout(s, p)
  BY <1>3, SamePayout DEF Mine
<1>7. /\ Pairing(s, p)!Claimable(t) = Claimable(t)
      /\ Pairing(s, p)!LatestStakedValue(t) = LatestStakedValue(t)
  BY SameMethods
<1>8. Pairing(s, p)!Withdraw
  BY <1>1, <1>2, <1>3, <1>4, <1>5, <1>6, <1>7
     DEF Pairing!Withdraw, EraOf, ClosedIn, AllClaimed, UnbondedSinceUnregistered
<1> QED
  BY <1>8 DEF PairingStep, Pairing!Next

LEMMA PairingEra ==
    ASSUME IInv, NEW s, NEW p, currentEra < MaxEra, currentEra' = currentEra + 1,
           UNCHANGED <<stakerInfo, registeredProviders, receipts>>
    PROVE  PairingStep(s, p)
<1>1. currentEra \in Nat /\ MaxEra \in Nat
  BY TypeParts, DapiStakingAssumption DEF IInv, ErasOK
<1>2. LastPayout(s, p)' = LastPayout(s, p) /\ ClosedIn(p)' = ClosedIn(p)
  BY SamePayout DEF Mine, ClosedIn, IsUnregistered, IsRegistered
<1>3. CASE currentEra = 0
  BY <1>1, <1>2, <1>3, SamePairing DEF PairingSame, EraOf
<1>4. CASE currentEra # 0
  <2>1. EraOf = currentEra /\ EraOf' = currentEra + 1
    BY <1>1, <1>4 DEF EraOf
  <2>2. Pairing(s, p)!NextEra
    BY <1>1, <1>2, <2>1 DEF Pairing!NextEra, EraOf, ClosedIn
  <2> QED
    BY <2>2 DEF PairingStep, Pairing!Next
<1> QED
  BY <1>3, <1>4

LEMMA PairingUnregistered ==
    ASSUME IInv, NEW s, NEW p, NEW q \in Providers, Unregister(q)
    PROVE  PairingStep(s, p)
<1>1. /\ currentEra \in Nat /\ currentEra # 0
      /\ UNCHANGED <<currentEra, stakerInfo, receipts>>
  BY TypeParts DEF IInv, ErasOK, Unregister, InBlock, eraVars, rewardVars
<1>2. LastPayout(s, p)' = LastPayout(s, p)
  BY <1>1, SamePayout DEF Mine
<1>3. EraOf = currentEra /\ EraOf' = EraOf
  BY <1>1 DEF EraOf
<1>4. PICK x : /\ x = [registeredProviders[q] EXCEPT
                          !.state = "Unregistered", !.since = currentEra]
               /\ registeredProviders' = [registeredProviders EXCEPT ![q] = x]
  BY DEF Unregister
<1>5. q \in DOMAIN registeredProviders /\ registeredProviders[q] \in ProviderInfo
      /\ registeredProviders[q].state = "Registered"
  BY TypeParts DEF IInv, ProvidersOK, Unregister, IsActiveProvider, IsRegistered
<1>6. x.state = "Unregistered" /\ x.since = currentEra
  BY <1>4, <1>5 DEF ProviderInfo
<1>7. CASE p = q
  <2>1. ClosedIn(p) = 0 /\ ClosedIn(p)' = currentEra
    BY <1>4, <1>5, <1>6, <1>7 DEF ClosedIn, IsUnregistered, IsRegistered
  <2>2. Pairing(s, p)!Unregister
    BY <1>1, <1>2, <1>3, <2>1 DEF Pairing!Unregister, EraOf, ClosedIn
  <2> QED
    BY <2>2 DEF PairingStep, Pairing!Next
<1>8. CASE p # q
  <2>1. ClosedIn(p)' = ClosedIn(p)
    BY <1>4, <1>8 DEF ClosedIn, IsUnregistered, IsRegistered
  <2> QED
    BY <1>1, <1>2, <1>3, <2>1, SamePairing DEF PairingSame
<1> QED
  BY <1>7, <1>8

LEMMA QuietPairing ==
    ASSUME NEW s, NEW p, stakerInfo'[s][p] = stakerInfo[s][p], UNCHANGED currentEra,
           ClosedIn(p)' = ClosedIn(p), Mine(s, p)' = Mine(s, p)
    PROVE  PairingStep(s, p)
  BY SamePayout, SamePairing DEF PairingSame, EraOf

LEMMA SameClosed ==
    ASSUME NEW p, UNCHANGED registeredProviders
    PROVE  ClosedIn(p)' = ClosedIn(p)
  BY DEF ClosedIn, IsUnregistered, IsRegistered

LEMMA SameMine ==
    ASSUME NEW s, NEW p, UNCHANGED receipts
    PROVE  Mine(s, p)' = Mine(s, p)
  BY DEF Mine

LEMMA OneHistory ==
    ASSUME IInv, NEW s \in Accounts, NEW p \in Providers, NEW t, UpdateStakerInfo(s, p, t)
    PROVE  /\ stakerInfo'[s][p] = t
           /\ \A a \in Accounts, q \in Providers :
                  a # s \/ q # p => stakerInfo'[a][q] = stakerInfo[a][q]
  BY TypeParts DEF UpdateStakerInfo, IInv, HistoriesOK

(* A stake, in a call of its own or at the end of register.                *)
LEMMA StakePairings ==
    ASSUME IInv, BooksInv', SupplyInv', NEW s \in Accounts, NEW p \in Providers,
           NEW b, b.free \in Nat, NEW v \in Nat,
           InBlock, StakeChecks(s, p, b, v), StakeWrites(s, p, b, v),
           UNCHANGED <<currentEra, receipts>>,
           ClosedIn(p) = 0, \A q \in Providers : ClosedIn(q)' = ClosedIn(q),
           NEW a \in Accounts, NEW q \in Providers
    PROVE  PairingStep(a, q)
<1>1. PICK n : n = StakeAmount(s, b, v)
  OBVIOUS
<1>2. n \in Nat /\ n > 0
  <2>1. ledger[s].locked \in Nat /\ MinimumRemainingAmount \in Nat
    BY TypeParts, DapiStakingAssumption DEF IInv, LedgersOK, IsLedger
  <2> QED
    BY <1>1, <2>1 DEF StakeChecks, StakeAmount, Lesser, AvailableStakingBalance, SaturatingSub
<1>3. /\ stakerInfo'[s][p] = AddStake(stakerInfo[s][p], currentEra, n)
      /\ a # s \/ q # p => stakerInfo'[a][q] = stakerInfo[a][q]
  BY <1>1, OneHistory DEF StakeWrites
<1>4. LastPayout(s, p)' = LastPayout(s, p) /\ Mine(a, q)' = Mine(a, q)
  BY SamePayout, SameMine
<1>5. CASE a = s /\ q = p
  <2>1. /\ ~UnexpectedEra(stakerInfo[s][p], currentEra)
        /\ Len(AddStake(stakerInfo[s][p], currentEra, n)) < MaxEraStakeValues
        /\ LatestStakedValue(AddStake(stakerInfo[s][p], currentEra, n))
               >= MinimumStakingAmount
    BY <1>1 DEF StakeChecks
  <2>2. PairingStep(s, p)
    BY <1>2, <1>3, <1>4, <2>1, PairingStakes
  <2> QED
    BY <1>5, <2>2
<1>6. CASE a # s \/ q # p
  BY <1>3, <1>4, <1>6, QuietPairing
<1> QED
  BY <1>5, <1>6

LEMMA RegisteringPairings ==
    ASSUME BooksInv, NEW o, NEW p \in Providers, ~IsRegistered(p),
           registeredProviders' = Insert(registeredProviders, p, NewProvider(o))
    PROVE  ClosedIn(p) = 0 /\ \A q \in Providers : ClosedIn(q)' = ClosedIn(q)
<1>1. ClosedIn(p) = 0
  BY DEF ClosedIn, IsUnregistered
<1>2. /\ registeredProviders'[p] = NewProvider(o) /\ p \in DOMAIN registeredProviders'
      /\ \A q \in Providers : q # p =>
             /\ q \in DOMAIN registeredProviders' <=> q \in DOMAIN registeredProviders
             /\ IsRegistered(q) => registeredProviders'[q] = registeredProviders[q]
  BY DEF Insert, IsRegistered
<1>3. ClosedIn(p)' = 0
  BY <1>2 DEF ClosedIn, IsUnregistered, IsRegistered, NewProvider
<1>4. \A q \in Providers : q # p => ClosedIn(q)' = ClosedIn(q)
  BY <1>2 DEF ClosedIn, IsUnregistered, IsRegistered
<1> QED
  BY <1>1, <1>3, <1>4

LEMMA UnreservedPairings ==
    ASSUME IInv, NEW p \in Providers, WithdrawFromUnregisteredOperator(p), NEW q
    PROVE  ClosedIn(q)' = ClosedIn(q)
<1>1. /\ IsUnregistered(p) /\ p \in DOMAIN registeredProviders
      /\ registeredProviders[p] \in ProviderInfo
  BY TypeParts DEF IInv, ProvidersOK, WithdrawFromUnregisteredOperator,
                   UnbondedSinceUnregistered, IsUnregistered, IsRegistered
<1>2. PICK x : x = MarkUnreserved(p)
  OBVIOUS
<1>3. x.state = registeredProviders[p].state /\ x.since = registeredProviders[p].since
  BY <1>1, <1>2 DEF MarkUnreserved, ProviderInfo
<1>4. registeredProviders' = [registeredProviders EXCEPT ![p] = x]
  BY <1>2 DEF WithdrawFromUnregisteredOperator
<1> QED
  BY <1>1, <1>3, <1>4 DEF ClosedIn, IsUnregistered, IsRegistered

PairingsInv == PoolInv /\ SupplyInv

LEMMA PairingsStep ==
    ASSUME PairingsInv, PairingsInv', ChainStep, NEW a \in Accounts, NEW q \in Providers
    PROVE  PairingStep(a, q)
<1>1. /\ IInv /\ BooksInv /\ PoolInv /\ SupplyInv
      /\ BooksInv' /\ PoolInv' /\ SupplyInv'
  BY DEF PairingsInv, PoolInv, MoneyInv, ClaimsInv, ErasInv, BooksInv
<1>2. ASSUME UNCHANGED <<currentEra, stakerInfo, registeredProviders, receipts>>
      PROVE  PairingStep(a, q)
  BY <1>2, QuietPairing, SameClosed, SameMine
<1>3. CASE OnInitialize
  <2>1. /\ UNCHANGED <<stakerInfo, registeredProviders, receipts>>
        /\ EraBegins \/ UNCHANGED currentEra
    BY <1>1, <1>3, OnInitializeEffects
  <2> QED
    BY <1>1, <1>2, <2>1, PairingEra DEF EraBegins
<1>4. ASSUME NEW s \in Accounts, NEW p \in Providers, NEW v \in StakeAmounts, Stake(s, p, v)
      PROVE  PairingStep(a, q)
  <2>1. /\ InBlock /\ StakeChecks(s, p, account[s], v) /\ StakeWrites(s, p, account[s], v)
        /\ UNCHANGED <<currentEra, receipts, registeredProviders>>
    BY <1>4 DEF Stake, eraVars, rewardVars
  <2>2. account[s].free \in Nat /\ v \in Nat
    BY <1>1, HoldingTypes, DapiStakingAssumption
  <2>3. ClosedIn(p) = 0 /\ \A k \in Providers : ClosedIn(k)' = ClosedIn(k)
    BY <1>4, <2>1, SameClosed DEF Stake, IsActiveProvider, IsUnregistered, ClosedIn
  <2> QED
    BY <1>1, <2>1, <2>2, <2>3, StakePairings
<1>5. ASSUME NEW s \in Accounts, NEW p \in Providers, NEW v \in UnstakeAmounts, Unstake(s, p, v)
      PROVE  PairingStep(a, q)
  <2>1. v \in Nat
    BY DapiStakingAssumption
  <2>2. UNCHANGED <<currentEra, receipts, registeredProviders>>
    BY <1>5 DEF Unstake, eraVars, rewardVars
  <2>3. PICK t : UpdateStakerInfo(s, p, t)
    BY <1>5 DEF Unstake
  <2>4. CASE a = s /\ q = p
    BY <1>1, <1>5, <2>1, <2>4, PairingUnstakes
  <2>5. CASE a # s \/ q # p
    BY <1>1, <2>2, <2>3, <2>5, OneHistory, QuietPairing, SameClosed, SameMine
  <2> QED
    BY <2>4, <2>5
<1>6. ASSUME NEW s \in Accounts, NEW p \in Providers, ClaimStaker(s, p)
      PROVE  PairingStep(a, q)
  <2>1. UNCHANGED <<currentEra, registeredProviders>>
    BY <1>6 DEF ClaimStaker, eraVars
  <2>2. PICK t, r : UpdateStakerInfo(s, p, t) /\ Pay(r) /\ r.who = s /\ r.provider = p
    BY <1>6 DEF ClaimStaker
  <2>3. CASE a = s /\ q = p
    BY <1>1, <1>6, <2>3, PairingClaims
  <2>4. CASE a # s \/ q # p
    <3>1. Mine(a, q)' = Mine(a, q)
      BY <2>2, <2>4 DEF Mine, Pay
    <3> QED
      BY <1>1, <2>1, <2>2, <2>4, <3>1, OneHistory, QuietPairing, SameClosed
  <2> QED
    BY <2>3, <2>4
<1>7. ASSUME NEW p \in Providers, NEW e, ClaimOperator(p, e)
      PROVE  PairingStep(a, q)
  <2>1. UNCHANGED <<currentEra, registeredProviders, stakerInfo>>
    BY <1>7 DEF ClaimOperator, eraVars
  <2>2. PICK r : Pay(r) /\ r.role = "operator"
    BY <1>7 DEF ClaimOperator
  <2>3. Mine(a, q)' = Mine(a, q)
    BY <2>2 DEF Mine, Pay
  <2> QED
    BY <2>1, <2>3, QuietPairing, SameClosed
<1>8. ASSUME NEW s \in Accounts, NEW p \in Providers, WithdrawFromUnregisteredStaker(s, p)
      PROVE  PairingStep(a, q)
  <2>1. UNCHANGED <<currentEra, receipts, registeredProviders>>
    BY <1>8 DEF WithdrawFromUnregisteredStaker, eraVars, rewardVars
  <2>2. UpdateStakerInfo(s, p, <<>>)
    BY <1>8 DEF WithdrawFromUnregisteredStaker
  <2>3. CASE a = s /\ q = p
    BY <1>1, <1>8, <2>3, PairingWithdraws
  <2>4. CASE a # s \/ q # p
    BY <1>1, <2>1, <2>2, <2>4, OneHistory, QuietPairing, SameClosed, SameMine
  <2> QED
    BY <2>3, <2>4
<1>9. ASSUME NEW p \in Providers, WithdrawFromUnregisteredOperator(p)
      PROVE  PairingStep(a, q)
  <2>1. UNCHANGED <<currentEra, stakerInfo, receipts>>
    BY <1>9 DEF WithdrawFromUnregisteredOperator, eraVars, rewardVars
  <2> QED
    BY <1>1, <1>9, <2>1, UnreservedPairings, QuietPairing, SameMine
<1>10. ASSUME NEW o \in Accounts, NEW p \in Providers, NEW v \in DepositAmounts,
              Register(o, p, v)
       PROVE  PairingStep(a, q)
  <2>1. PICK b, w : /\ b = Reserve(account[o], RegisterDeposit)
                    /\ w = SaturatingSub(v, RegisterDeposit)
    OBVIOUS
  <2>2. /\ RegisterChecks(o, p, v) /\ StakeChecks(o, p, b, w) /\ StakeWrites(o, p, b, w)
        /\ registeredProviders' = Insert(registeredProviders, p, NewProvider(o))
        /\ UNCHANGED <<currentEra, receipts>>
    BY <1>10, <2>1 DEF Register, eraVars, rewardVars
  <2>3. b.free \in Nat
    BY <1>1, <2>1, <2>2, ReserveHoldings DEF RegisterChecks, Account
  <2>4. w \in Nat
    BY <2>1, SaturatingSubType, DapiStakingAssumption
  <2>5. ClosedIn(p) = 0 /\ \A k \in Providers : ClosedIn(k)' = ClosedIn(k)
    BY <1>1, <2>2, RegisteringPairings DEF RegisterChecks
  <2>6. InBlock
    BY <2>2 DEF RegisterChecks
  <2> QED
    BY <1>1, <2>2, <2>3, <2>4, <2>5, <2>6, StakePairings
<1>11. ASSUME NEW o \in Accounts, NEW p \in Providers, NEW v,
              RegisterStakeFails(o, p, v)
       PROVE  PairingStep(a, q)
  <2>1. /\ ~IsRegistered(p)
        /\ registeredProviders' = Insert(registeredProviders, p, NewProvider(o))
        /\ UNCHANGED <<currentEra, stakerInfo, receipts>>
    BY <1>11 DEF RegisterStakeFails, RegisterChecks, eraVars, rewardVars
  <2> QED
    BY <1>1, <2>1, RegisteringPairings, QuietPairing, SameMine
<1>12. ASSUME NEW p \in Providers, Unregister(p)
       PROVE  PairingStep(a, q)
  BY <1>1, <1>12, PairingUnregistered
<1>13. ASSUME NEW s, NEW v, \/ WithdrawUnstaked(s) \/ SpendElsewhere(s, v) \/ Rewards(v)
                            \/ Income(v) \/ ForceNewEra \/ UNCHANGED vars
       PROVE  PairingStep(a, q)
  <2>1. UNCHANGED <<currentEra, stakerInfo, registeredProviders, receipts>>
    BY <1>13 DEF WithdrawUnstaked, SpendElsewhere, Rewards, Income, ForceNewEra, vars,
                 eraVars, rewardVars
  <2> QED
    BY <1>2, <2>1
<1> QED
  BY <1>3, <1>4, <1>5, <1>6, <1>7, <1>8, <1>9, <1>10, <1>11, <1>12, <1>13
     DEF ChainStep, Next, Calls, RegistryCalls

LEMMA PairingsInitInv ==
    ASSUME Init
    PROVE  PairingsInv /\ \A s \in Accounts, p \in Providers : Pairing(s, p)!Init
  BY PoolInit, InitSupply, PairingInit DEF PairingsInv

LEMMA PairingsChain ==
    ASSUME PairingsInv, ChainStep
    PROVE  /\ PairingsInv'
           /\ \A s \in Accounts, p \in Providers : PairingStep(s, p)
<1>1. MoneyInv /\ PoolInv /\ SupplyInv
  BY DEF PairingsInv, PoolInv
<1>2. MoneyInv' /\ MoneyHandled
  BY <1>1, ChainMoney
<1>3. PairingsInv'
  BY <1>1, <1>2, PoolStep, ChainSupply DEF PairingsInv
<1> QED
  BY <1>3, PairingsStep

(* Among all calls of all stakers on all providers, the vector of each     *)
(* pairing goes the way StakerHistory says.  Its theorems (an era is paid  *)
(* once and in order, the vector is a correct store for the table of       *)
(* unclaimed stakes) are thereby theorems about the pallet.                *)
THEOREM PairingsFollow == Spec => PairingsFollowHistory
<1>1. Init => PairingsInv /\ \A s \in Accounts, p \in Providers : Pairing(s, p)!Init
  BY PairingsInitInv
<1>2. PairingsInv /\ [Next]_vars
          => /\ PairingsInv'
             /\ \A s \in Accounts, p \in Providers :
                    [Pairing(s, p)!Next]_(Pairing(s, p)!vars)
  BY PairingsChain DEF ChainStep, PairingStep
<1> QED
  BY <1>1, <1>2, PTL DEF Spec, PairingsFollowHistory

(* So it is in the runtime, with pallet dapi and the issuance of blocks.   *)
THEOREM PairingsFollowInRuntime == RuntimeSpec => PairingsFollowHistory
<1>1. RuntimeInit => /\ RuntimeInv /\ PairingsInv
                     /\ \A s \in Accounts, p \in Providers : Pairing(s, p)!Init
  BY RuntimeInitInv, PairingsInitInv DEF RuntimeInit, DapiInit, BlocksInit
<1>2. RuntimeInv /\ PairingsInv /\ [RuntimeNext]_runtimeVars
          => /\ RuntimeInv' /\ PairingsInv'
             /\ \A s \in Accounts, p \in Providers :
                    [Pairing(s, p)!Next]_(Pairing(s, p)!vars)
  BY RuntimeStep, RuntimeChain, PairingsChain DEF RuntimeInv, RewardInv, PairingStep
<1> QED
  BY <1>1, <1>2, PTL DEF RuntimeSpec, PairingsFollowHistory
===============================================================================
