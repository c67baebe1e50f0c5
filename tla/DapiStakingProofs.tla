-------------------------- MODULE DapiStakingProofs ---------------------------
(***************************************************************************)
(* Proofs about DapiStaking, for any number of accounts and providers and  *)
(* any values of the runtime's constants: the types of the storage, that   *)
(* locked funds are there, and that the internal errors are unreachable.   *)
(***************************************************************************)
EXTENDS DapiStaking, StakingLemmas

(* The types of the storage, map by map.                                   *)
IsLedger(l) ==
    /\ DOMAIN l = {"locked", "unbonding"}
    /\ l.locked \in Nat
    /\ \A e \in DOMAIN l.unbonding : e \in Nat /\ l.unbonding[e] \in Nat

AccountsOK == account \in [Accounts -> Account]
LedgersOK == DOMAIN ledger = Accounts /\ \A s \in Accounts : IsLedger(ledger[s])
HistoriesOK == stakerInfo \in [Accounts -> [Providers -> Seq(EraStake)]]
ProvidersOK ==
    /\ DOMAIN registeredProviders \subseteq Providers
    /\ \A p \in DOMAIN registeredProviders : registeredProviders[p] \in ProviderInfo
EraStakesOK ==
    /\ DOMAIN providerEraStake = Providers
    /\ \A p \in Providers : \A e \in DOMAIN providerEraStake[p] :
           e \in Nat /\ providerEraStake[p][e] \in ProviderStakeInfo
EraInfosOK ==
    \A e \in DOMAIN generalEraInfo : e \in Nat /\ generalEraInfo[e] \in EraInfo
ErasOK ==
    /\ currentEra \in Nat
    /\ forceEra \in {"NotForcing", "ForceNew"}
    /\ now \in 0..(BlockPerEra - 1)
RewardsOK == pot \in Account /\ accumulator \in RewardInfo /\ receipts \subseteq Receipt

LEMMA TypeParts ==
    TypeOK <=> /\ AccountsOK /\ LedgersOK /\ HistoriesOK /\ ProvidersOK
               /\ EraStakesOK /\ EraInfosOK /\ ErasOK /\ RewardsOK
  BY DEF TypeOK, AccountsOK, LedgersOK, IsLedger, HistoriesOK, ProvidersOK,
         EraStakesOK, EraInfosOK, ErasOK, RewardsOK

(* Every history is sorted and not ahead of the era.                       *)
HistoriesInOrder ==
    \A s \in Accounts, p \in Providers :
        Sorted(stakerInfo[s][p]) /\ NotAhead(stakerInfo[s][p], currentEra)

(* Every ended era has its record.                                         *)
ErasRecorded == \A e \in Nat : e < currentEra => e \in DOMAIN generalEraInfo

(* The inductive invariant.                                                *)
IInv == TypeOK /\ LocksBacked /\ HistoriesInOrder /\ ErasRecorded
-------------------------------------------------------------------------------
(* Arithmetic *)

LEMMA SaturatingSubType ==
    ASSUME NEW a \in Nat, NEW b
    PROVE  SaturatingSub(a, b) \in Nat /\ SaturatingSub(a, b) <= a
  BY DEF SaturatingSub

LEMMA PartOfType ==
    ASSUME NEW parts \in Nat, NEW x \in Nat
    PROVE  PartOf(parts, x) \in Nat
<1> DEFINE product == parts * x
<1>1. product \in Nat
  OBVIOUS
<1> HIDE DEF product
<1>2. product \div Accuracy \in Nat
  BY <1>1, AccuracyAssumption
<1> QED
  BY <1>2 DEF PartOf, product

(* The factor brings q within Accuracy, and no further than it must.       *)
LEMMA FactorBounds ==
    ASSUME NEW q \in Nat, q > 0
    PROVE  /\ Factor(q) \in Nat /\ Factor(q) > 0 /\ Factor(q) <= q
           /\ q <= Factor(q) * Accuracy
           /\ (Factor(q) - 1) * Accuracy < q
<1>1. Accuracy \in Nat /\ Accuracy > 0
  BY AccuracyAssumption
<1> DEFINE n == q + Accuracy - 1
           f == n \div Accuracy
<1>2. n \in Nat /\ n >= Accuracy /\ n = q + Accuracy - 1
  BY <1>1
<1> HIDE DEF n
<1>3. f \in Nat /\ f * Accuracy <= n /\ n < f * Accuracy + Accuracy
  BY <1>1, <1>2
<1>4. Factor(q) = f
  BY DEF Factor, n
<1> HIDE DEF f
<1>5. (f - 1) * Accuracy = f * Accuracy - Accuracy /\ f * Accuracy \in Nat
  BY <1>1, <1>3
<1>6. f > 0
  BY <1>1, <1>2, <1>3
<1>7. q <= f * Accuracy /\ (f - 1) * Accuracy < q
  BY <1>1, <1>2, <1>3, <1>5
<1>8. f <= q
  <2>1. f - 1 \in Nat /\ f - 1 <= (f - 1) * Accuracy
    BY <1>1, <1>3, <1>6
  <2> QED
    BY <1>1, <1>3, <1>7, <2>1
<1> QED
  BY <1>3, <1>4, <1>6, <1>7, <1>8

(* What the factor leaves of a denominator is not zero.                    *)
LEMMA ReducedType ==
    ASSUME NEW q \in Nat, q > 0, NEW p \in Nat
    PROVE  /\ q \div Factor(q) \in Nat /\ q \div Factor(q) > 0
           /\ p \div Factor(q) \in Nat
<1> DEFINE f == Factor(q)
<1>1. f \in Nat /\ f > 0 /\ f <= q
  BY FactorBounds
<1> HIDE DEF f
<1>2. q \div f \in Nat /\ p \div f \in Nat
  BY <1>1
<1>3. q < (q \div f) * f + f
  BY <1>1
<1>4. q \div f > 0
  <2> SUFFICES ASSUME q \div f = 0 PROVE FALSE
    BY <1>2
  <2> QED
    BY <1>1, <1>3
<1> QED
  BY <1>2, <1>4 DEF f

LEMMA FromRationalType ==
    ASSUME NEW p \in Nat, NEW q \in Nat
    PROVE  FromRational(p, q) \in Nat
<1> DEFINE denominator == IF q = 0 THEN 1 ELSE q
           numerator == IF p > denominator THEN denominator ELSE p
           d == denominator \div Factor(denominator)
           n == (numerator \div Factor(denominator)) * Accuracy
<1>1. denominator \in Nat /\ denominator > 0 /\ numerator \in Nat
  OBVIOUS
<1>2. FromRational(p, q) = n \div d
  BY DEF FromRational
<1> HIDE DEF denominator, numerator
<1>3. d \in Nat /\ d > 0 /\ numerator \div Factor(denominator) \in Nat
  BY <1>1, ReducedType
<1>4. n \in Nat
  BY <1>3, AccuracyAssumption
<1> HIDE DEF n, d
<1> QED
  BY <1>2, <1>3, <1>4
-------------------------------------------------------------------------------
(* Accounts: what each operation of pallet_balances preserves.             *)
Backed(b) == b \in Account /\ b.lock <= b.free

LEMMA ReserveBacked ==
    ASSUME NEW b, Backed(b), NEW v \in Nat, Usable(b, v)
    PROVE  Backed(Reserve(b, v)) /\ Reserve(b, v).lock = b.lock
  BY DEF Backed, Account, Usable, Reserve

LEMMA UnreserveBacked ==
    ASSUME NEW b, Backed(b), NEW v \in Nat
    PROVE  Backed(Unreserve(b, v)) /\ Unreserve(b, v).lock = b.lock
<1> DEFINE actual == IF v <= b.reserved THEN v ELSE b.reserved
<1>1. b.reserved \in Nat
  BY DEF Backed, Account
<1>2. actual \in Nat /\ actual <= b.reserved
  BY <1>1
<1>3. Unreserve(b, v) = [free |-> b.free + actual,
                         reserved |-> b.reserved - actual, lock |-> b.lock]
  BY DEF Unreserve
<1> HIDE DEF actual
<1> QED
  BY <1>2, <1>3 DEF Backed, Account

LEMMA LockBacked ==
    ASSUME NEW b, Backed(b), NEW v \in Nat, v <= b.free
    PROVE  Backed(SetLock(b, v)) /\ v <= SetLock(b, v).lock
  BY DEF Backed, Account, SetLock

LEMMA RemoveLockBacked ==
    ASSUME NEW b, Backed(b)
    PROVE  Backed(RemoveLock(b)) /\ RemoveLock(b).lock = 0
  BY DEF Backed, Account, RemoveLock

LEMMA DepositBacked ==
    ASSUME NEW b, Backed(b), NEW v \in Nat
    PROVE  Backed(Deposit(b, v)) /\ Deposit(b, v).lock = b.lock
  BY DEF Backed, Account, Deposit

LEMMA SpendBacked ==
    ASSUME NEW b, Backed(b), NEW v \in Nat, CanSpend(b, v)
    PROVE  Backed(Spend(b, v)) /\ Spend(b, v).lock = b.lock
  BY DEF Backed, Account, CanSpend, Usable, Spend

LEMMA WithdrawType ==
    ASSUME NEW b \in Account, NEW v \in Nat, v <= b.free
    PROVE  Withdraw(b, v) \in Account
  BY DEF Account, Withdraw, Spend, NewAccount

LEMMA DepositType ==
    ASSUME NEW b \in Account, NEW v \in Nat
    PROVE  Deposit(b, v) \in Account
  BY DEF Account, Deposit
-------------------------------------------------------------------------------
(* Histories: what the calls make of a vector.                             *)
InOrder(t, e) == t \in Seq(EraStake) /\ Sorted(t) /\ NotAhead(t, e)

LEMMA LatestType ==
    ASSUME NEW t, NEW e \in Nat, InOrder(t, e)
    PROVE  LatestStakedValue(t) \in Nat
  BY LatestIsStakedAt DEF InOrder

LEMMA AddStakeInOrder ==
    ASSUME NEW t, NEW e \in Nat, InOrder(t, e), NEW v \in Nat
    PROVE  InOrder(AddStake(t, e, v), e)
<1> DEFINE n == LatestStakedValue(t) + v
<1>1. n \in Nat
  BY LatestType
<1> HIDE DEF n
<1>2. LatestWritten(t, e, n, SetLatest(t, e, n))
  BY <1>1, SetLatestProperties DEF InOrder
<1> QED
  BY <1>2 DEF AddStake, n, LatestWritten, InOrder

LEMMA DropInOrder ==
    ASSUME NEW t, NEW e \in Nat, InOrder(t, e)
    PROVE  InOrder(DropUnstakedHead(t), e)
<1> DEFINE u == DropUnstakedHead(t)
<1>1. t \in Seq(EraStake) /\ Sorted(t)
  BY DEF InOrder
<1>2. /\ u \in Seq(EraStake)
      /\ Sorted(u)
      /\ \A i \in DOMAIN u : \E j \in DOMAIN t : u[i] = t[j]
  BY <1>1, DropUnstakedHeadProperties
<1> HIDE DEF u
<1>3. NotAhead(u, e)
  BY <1>2 DEF NotAhead, InOrder
<1> QED
  BY <1>2, <1>3 DEF InOrder, u

LEMMA RemoveStakeInOrder ==
    ASSUME NEW t, NEW e \in Nat, InOrder(t, e), NEW v
    PROVE  InOrder(RemoveStake(t, e, v), e)
<1> DEFINE n == SaturatingSub(LatestStakedValue(t), v)
<1>1. n \in Nat
  BY LatestType, SaturatingSubType
<1> HIDE DEF n
<1>2. LatestWritten(t, e, n, SetLatest(t, e, n))
  BY <1>1, SetLatestProperties DEF InOrder
<1>3. InOrder(SetLatest(t, e, n), e)
  BY <1>2 DEF LatestWritten, InOrder
<1> QED
  BY <1>3, DropInOrder DEF RemoveStake, n

LEMMA AfterClaimInOrder ==
    ASSUME NEW t, NEW e \in Nat, InOrder(t, e), t # <<>>, t[1].era < e
    PROVE  InOrder(AfterClaim(t), e)
<1> DEFINE a == AdvanceHead(t)
           h == t[1].era
<1>0. t \in Seq(EraStake) /\ Sorted(t)
  BY DEF InOrder
<1>1. h \in Nat
  BY <1>0, VectorType
<1>2. /\ a \in Seq(EraStake)
      /\ Sorted(a)
      /\ \A i \in DOMAIN a :
             a[i].era = h + 1 \/ \E j \in DOMAIN t : a[i] = t[j]
  BY <1>0, AdvanceHeadProperties
<1>3. NotAhead(a, e)
  BY <1>1, <1>2 DEF NotAhead, InOrder
<1>4. InOrder(a, e)
  BY <1>2, <1>3 DEF InOrder
<1> QED
  BY <1>4, DropInOrder DEF AfterClaim

LEMMA LaterInOrder ==
    ASSUME NEW t, NEW e \in Nat, InOrder(t, e)
    PROVE  InOrder(t, e + 1)
<1>1. \A i \in DOMAIN t : t[i].era \in Nat /\ t[i].era <= e
  BY VectorType DEF InOrder, NotAhead
<1> QED
  BY <1>1 DEF InOrder, NotAhead

LEMMA HistoryInOrder ==
    ASSUME IInv, NEW s \in Accounts, NEW p \in Providers
    PROVE  InOrder(stakerInfo[s][p], currentEra)
<1>1. stakerInfo[s][p] \in Seq(EraStake)
  BY TypeParts DEF IInv, HistoriesOK
<1> QED
  BY <1>1 DEF IInv, HistoriesInOrder, InOrder
-------------------------------------------------------------------------------
(* The writes to the storage maps *)

LEMMA UpdateStakerInfoStep ==
    ASSUME IInv, NEW s \in Accounts, NEW p \in Providers,
           NEW t, InOrder(t, currentEra), UpdateStakerInfo(s, p, t),
           currentEra' = currentEra
    PROVE  HistoriesOK' /\ HistoriesInOrder'
<1>1. HistoriesOK
  BY TypeParts DEF IInv
<1>2. stakerInfo' = [stakerInfo EXCEPT ![s] = [stakerInfo[s] EXCEPT ![p] = t]]
  BY DEF UpdateStakerInfo
<1>3. t \in Seq(EraStake)
  BY DEF InOrder
<1>4. HistoriesOK'
  BY <1>1, <1>2, <1>3 DEF HistoriesOK
<1>5. ASSUME NEW a \in Accounts, NEW q \in Providers
      PROVE  Sorted(stakerInfo'[a][q]) /\ NotAhead(stakerInfo'[a][q], currentEra)
  <2>1. stakerInfo'[a][q] = IF a = s /\ q = p THEN t ELSE stakerInfo[a][q]
    BY <1>1, <1>2 DEF HistoriesOK
  <2> QED
    BY <2>1 DEF InOrder, IInv, HistoriesInOrder
<1> QED
  BY <1>4, <1>5 DEF HistoriesInOrder

(* update_ledger, when the funds to lock are there.                        *)
LEMMA UpdateLedgerStep ==
    ASSUME IInv, NEW s \in Accounts, NEW b, Backed(b),
           NEW l, IsLedger(l), l.locked <= b.free, UpdateLedger(s, b, l)
    PROVE  AccountsOK' /\ LedgersOK' /\ LocksBacked'
<1> DEFINE empty == l.locked = 0 /\ DOMAIN l.unbonding = {}
           newLedger == IF empty THEN EmptyLedger ELSE l
           newAccount == IF empty THEN RemoveLock(b) ELSE SetLock(b, l.locked)
<1>1. AccountsOK /\ LedgersOK /\ LocksBacked
  BY TypeParts DEF IInv
<1>2. /\ ledger' = [ledger EXCEPT ![s] = newLedger]
      /\ account' = [account EXCEPT ![s] = newAccount]
  BY DEF UpdateLedger
<1>3. IsLedger(EmptyLedger) /\ EmptyLedger.locked = 0
  BY DEF IsLedger, EmptyLedger, NoChunks
<1>4. l.locked \in Nat
  BY DEF IsLedger
<1>5. Backed(RemoveLock(b)) /\ RemoveLock(b).lock = 0
  BY RemoveLockBacked
<1>6. Backed(SetLock(b, l.locked)) /\ l.locked <= SetLock(b, l.locked).lock
  BY <1>4, LockBacked
<1>7. IsLedger(newLedger) /\ Backed(newAccount) /\ newLedger.locked <= newAccount.lock
  BY <1>3, <1>5, <1>6
<1> HIDE DEF newLedger, newAccount
<1>8. AccountsOK'
  BY <1>1, <1>2, <1>7 DEF AccountsOK, Backed
<1>9. LedgersOK'
  BY <1>1, <1>2, <1>7 DEF LedgersOK
<1>10. ASSUME NEW a \in Accounts
       PROVE  ledger'[a].locked <= account'[a].lock /\ account'[a].lock <= account'[a].free
  <2>1. ledger'[a] = IF a = s THEN newLedger ELSE ledger[a]
    BY <1>1, <1>2 DEF LedgersOK
  <2>2. account'[a] = IF a = s THEN newAccount ELSE account[a]
    BY <1>1, <1>2 DEF AccountsOK
  <2> QED
    BY <1>1, <1>7, <2>1, <2>2 DEF LocksBacked, Backed
<1> QED
  BY <1>8, <1>9, <1>10 DEF LocksBacked

(* A change of one account that leaves its lock alone.                     *)
LEMMA AccountStep ==
    ASSUME IInv, NEW s \in Accounts, NEW b, Backed(b), b.lock = account[s].lock,
           account' = [account EXCEPT ![s] = b], ledger' = ledger
    PROVE  AccountsOK' /\ LedgersOK' /\ LocksBacked'
<1>1. AccountsOK /\ LedgersOK /\ LocksBacked
  BY TypeParts DEF IInv
<1>2. AccountsOK' /\ LedgersOK'
  BY <1>1 DEF AccountsOK, LedgersOK, Backed
<1>3. \A a \in Accounts : account'[a] = IF a = s THEN b ELSE account[a]
  BY <1>1 DEF AccountsOK
<1> QED
  BY <1>1, <1>2, <1>3 DEF LocksBacked, Backed

LEMMA AccountBacked ==
    ASSUME IInv, NEW s \in Accounts
    PROVE  /\ Backed(account[s])
           /\ IsLedger(ledger[s])
           /\ ledger[s].locked \in Nat
           /\ ledger[s].locked <= account[s].lock
           /\ ledger[s].locked <= account[s].free
<1>1. Backed(account[s]) /\ IsLedger(ledger[s]) /\ ledger[s].locked <= account[s].lock
  BY TypeParts DEF IInv, AccountsOK, LedgersOK, LocksBacked, Backed
<1> QED
  BY <1>1 DEF Backed, Account, IsLedger

LEMMA UpdateEraInfoStep ==
    ASSUME IInv, NEW staked \in Nat, NEW locked \in Nat,
           UpdateEraInfo(staked, locked), currentEra' = currentEra
    PROVE  EraInfosOK' /\ ErasRecorded'
<1>1. EraInfosOK /\ ErasRecorded
  BY TypeParts DEF IInv
<1>2. CASE currentEra \in DOMAIN generalEraInfo
  <2> DEFINE x == [rewards |-> generalEraInfo[currentEra].rewards,
                   staked |-> staked, locked |-> locked]
  <2>1. generalEraInfo' = [generalEraInfo EXCEPT ![currentEra] = x]
    BY <1>2 DEF UpdateEraInfo
  <2>2. x \in EraInfo
    BY <1>1, <1>2 DEF EraInfosOK, EraInfo
  <2> HIDE DEF x
  <2> QED
    BY <1>1, <2>1, <2>2 DEF EraInfosOK, ErasRecorded
<1>3. CASE currentEra \notin DOMAIN generalEraInfo
  BY <1>1, <1>3 DEF UpdateEraInfo, EraInfosOK, ErasRecorded
<1> QED
  BY <1>2, <1>3

LEMMA InsertEraStakeStep ==
    ASSUME IInv, NEW p \in Providers, NEW e \in Nat, NEW x \in ProviderStakeInfo,
           providerEraStake' = [providerEraStake EXCEPT ![p] =
                                   Insert(providerEraStake[p], e, x)]
    PROVE  EraStakesOK'
<1>1. EraStakesOK
  BY TypeParts DEF IInv
<1> QED
  BY <1>1 DEF EraStakesOK, Insert

LEMMA StakeInfoType ==
    ASSUME IInv, NEW p \in Providers, NEW e
    PROVE  /\ ProviderStakeAt(p, e) \in ProviderStakeInfo
           /\ ProviderStakeAt(p, e).total \in Nat
           /\ ProviderStakeAt(p, e).number_of_stakers \in Nat
<1>1. EraStakesOK
  BY TypeParts DEF IInv
<1>2. NoStake \in ProviderStakeInfo
  BY DEF NoStake, ProviderStakeInfo
<1>3. ProviderStakeAt(p, e) \in ProviderStakeInfo
  BY <1>1, <1>2 DEF ProviderStakeAt, Get, EraStakesOK
<1> QED
  BY <1>3 DEF ProviderStakeInfo

LEMMA EraInfoType ==
    ASSUME IInv, NEW e
    PROVE  /\ EraInfoAt(e) \in EraInfo
           /\ EraInfoAt(e).staked \in Nat
           /\ EraInfoAt(e).locked \in Nat
           /\ EraInfoAt(e).rewards.operators \in Nat
           /\ EraInfoAt(e).rewards.stakers \in Nat
<1>1. EraInfosOK
  BY TypeParts DEF IInv
<1>2. [rewards |-> NoReward, staked |-> 0, locked |-> 0] \in EraInfo
  BY DEF NoReward, EraInfo, RewardInfo
<1>3. EraInfoAt(e) \in EraInfo
  BY <1>1, <1>2 DEF EraInfoAt, Get, EraInfosOK
<1> QED
  BY <1>3 DEF EraInfo, RewardInfo
-------------------------------------------------------------------------------
(* Steps *)

LEMMA TypePartsNext ==
    TypeOK' <=> /\ AccountsOK' /\ LedgersOK' /\ HistoriesOK' /\ ProvidersOK'
                /\ EraStakesOK' /\ EraInfosOK' /\ ErasOK' /\ RewardsOK'
  BY DEF TypeOK, AccountsOK, LedgersOK, IsLedger, HistoriesOK, ProvidersOK,
         EraStakesOK, EraInfosOK, ErasOK, RewardsOK

LEMMA LedgerRelocked ==
    ASSUME NEW l, IsLedger(l), NEW n \in Nat
    PROVE  IsLedger([l EXCEPT !.locked = n]) /\ [l EXCEPT !.locked = n].locked = n
  BY DEF IsLedger

(* A stake that passes the checks locks no more than the account has.      *)
LEMMA StakeWritesStep ==
    ASSUME IInv, NEW s \in Accounts, NEW p \in Providers, NEW b, Backed(b),
           NEW value \in Nat, StakeChecks(s, p, b, value),
           StakeWrites(s, p, b, value), currentEra' = currentEra
    PROVE  /\ AccountsOK' /\ LedgersOK' /\ LocksBacked'
           /\ HistoriesOK' /\ HistoriesInOrder'
           /\ EraInfosOK' /\ ErasRecorded'
           /\ EraStakesOK'
<1> DEFINE amount == StakeAmount(s, b, value)
           stakes == stakerInfo[s][p]
           info == ProviderStakeAt(p, currentEra)
           l == [ledger[s] EXCEPT !.locked = ledger[s].locked + amount]
<1>0. b.free \in Nat /\ MinimumRemainingAmount \in Nat /\ currentEra \in Nat
  BY DapiStakingAssumption, TypeParts DEF Backed, Account, IInv, ErasOK
<1>1. ledger[s].locked \in Nat /\ IsLedger(ledger[s])
  BY AccountBacked
<1>2. amount \in Nat /\ amount > 0 /\ ledger[s].locked + amount <= b.free
  <2>1. amount > 0
    BY DEF StakeChecks
  <2> QED
    BY <1>0, <1>1, <2>1
       DEF StakeAmount, Lesser, AvailableStakingBalance, SaturatingSub
<1>3. IsLedger(l) /\ l.locked <= b.free
  BY <1>1, <1>2, LedgerRelocked
<1>4. UpdateLedger(s, b, l)
  BY DEF StakeWrites
<1> HIDE DEF l
<1>5. AccountsOK' /\ LedgersOK' /\ LocksBacked'
  BY <1>3, <1>4, UpdateLedgerStep
<1> HIDE DEF amount
<1>6. EraInfosOK' /\ ErasRecorded'
  <2>1. UpdateEraInfo(EraInfoAt(currentEra).staked + amount,
                      EraInfoAt(currentEra).locked + amount)
    BY DEF StakeWrites, amount
  <2>2. /\ EraInfoAt(currentEra).staked + amount \in Nat
        /\ EraInfoAt(currentEra).locked + amount \in Nat
    BY <1>2, EraInfoType
  <2> QED
    BY <2>1, <2>2, UpdateEraInfoStep
<1>7. HistoriesOK' /\ HistoriesInOrder'
  <2>1. UpdateStakerInfo(s, p, AddStake(stakes, currentEra, amount))
    BY DEF StakeWrites, amount
  <2>2. InOrder(AddStake(stakes, currentEra, amount), currentEra)
    BY <1>0, <1>2, HistoryInOrder, AddStakeInOrder
  <2> QED
    BY <2>1, <2>2, UpdateStakerInfoStep
<1>8. EraStakesOK'
  <2> DEFINE arrives == IF LatestStakedValue(stakes) = 0 THEN 1 ELSE 0
             x == [info EXCEPT
                      !.total = info.total + amount,
                      !.number_of_stakers = info.number_of_stakers + arrives]
  <2>1. providerEraStake' = [providerEraStake EXCEPT ![p] =
            Insert(providerEraStake[p], currentEra, x)]
    BY DEF StakeWrites, amount
  <2>2. info \in ProviderStakeInfo /\ info.total \in Nat /\ info.number_of_stakers \in Nat
    BY StakeInfoType
  <2>3. info.total + amount \in Nat /\ info.number_of_stakers + arrives \in Nat
    BY <1>2, <2>2
  <2>4. x \in ProviderStakeInfo
    BY <2>2, <2>3 DEF ProviderStakeInfo
  <2> HIDE DEF x
  <2> QED
    BY <1>0, <2>1, <2>4, InsertEraStakeStep
<1> QED
  BY <1>5, <1>6, <1>7, <1>8

LEMMA StakeStep ==
    ASSUME IInv, NEW s \in Accounts, NEW p \in Providers, NEW v \in StakeAmounts,
           Stake(s, p, v)
    PROVE  IInv'
<1>1. /\ StakeChecks(s, p, account[s], v)
      /\ StakeWrites(s, p, account[s], v)
      /\ UNCHANGED <<currentEra, forceEra, now, pot, accumulator, receipts,
                     registeredProviders>>
  BY DEF Stake, eraVars, rewardVars
<1>2. v \in Nat /\ Backed(account[s])
  BY DapiStakingAssumption, AccountBacked
<1>3. /\ AccountsOK' /\ LedgersOK' /\ LocksBacked'
      /\ HistoriesOK' /\ HistoriesInOrder'
      /\ EraInfosOK' /\ ErasRecorded'
      /\ EraStakesOK'
  BY <1>1, <1>2, StakeWritesStep
<1>4. ProvidersOK' /\ ErasOK' /\ RewardsOK'
  BY <1>1, TypeParts DEF IInv, ProvidersOK, ErasOK, RewardsOK
<1> QED
  BY <1>3, <1>4, TypePartsNext DEF IInv

LEMMA UnstakeStep ==
    ASSUME IInv, NEW s \in Accounts, NEW p \in Providers, NEW v \in UnstakeAmounts,
           Unstake(s, p, v)
    PROVE  IInv'
<1> DEFINE amount == UnstakeAmount(s, p, v)
           stakes == stakerInfo[s][p]
           chunks == ChunksAfterUnstake(s, amount)
           info == ProviderStakeAt(p, currentEra)
           l == [ledger[s] EXCEPT !.unbonding = chunks]
           x == [info EXCEPT
                    !.total = SaturatingSub(info.total, amount),
                    !.number_of_stakers = StakersAfterUnstake(s, p, v)]
<1>1. /\ UpdateLedger(s, account[s], l)
      /\ UpdateEraInfo(SaturatingSub(EraInfoAt(currentEra).staked, amount),
                       EraInfoAt(currentEra).locked)
      /\ UpdateStakerInfo(s, p, RemoveStake(stakes, currentEra, amount))
      /\ providerEraStake' = [providerEraStake EXCEPT ![p] =
             Insert(providerEraStake[p], currentEra, x)]
      /\ UNCHANGED <<currentEra, forceEra, now, pot, accumulator, receipts,
                     registeredProviders>>
  BY DEF Unstake, eraVars, rewardVars
<1>2. /\ v \in Nat /\ currentEra \in Nat /\ UnbondingPeriod \in Nat
      /\ LatestStakedValue(stakes) \in Nat
  BY DapiStakingAssumption, TypeParts, HistoryInOrder, LatestType DEF IInv, ErasOK
<1>3. amount \in Nat
  BY <1>2 DEF UnstakeAmount
<1> HIDE DEF amount
<1>4. AccountsOK' /\ LedgersOK' /\ LocksBacked'
  <2>1. /\ Backed(account[s]) /\ IsLedger(ledger[s])
        /\ ledger[s].locked <= account[s].free
    BY AccountBacked
  <2>2. \A e \in DOMAIN chunks : e \in Nat /\ chunks[e] \in Nat
    BY <1>2, <1>3, <2>1 DEF ChunksAfterUnstake, Insert, Get, IsLedger
  <2> HIDE DEF chunks
  <2>3. IsLedger(l) /\ l.locked = ledger[s].locked
    BY <2>1, <2>2 DEF IsLedger
  <2> HIDE DEF l
  <2> QED
    BY <1>1, <2>1, <2>3, UpdateLedgerStep
<1>5. EraInfosOK' /\ ErasRecorded'
  <2>1. SaturatingSub(EraInfoAt(currentEra).staked, amount) \in Nat
    BY EraInfoType, SaturatingSubType
  <2>2. EraInfoAt(currentEra).locked \in Nat
    BY EraInfoType
  <2> QED
    BY <1>1, <2>1, <2>2, UpdateEraInfoStep
<1>6. HistoriesOK' /\ HistoriesInOrder'
  <2>1. InOrder(RemoveStake(stakes, currentEra, amount), currentEra)
    BY <1>2, HistoryInOrder, RemoveStakeInOrder
  <2> QED
    BY <1>1, <2>1, UpdateStakerInfoStep
<1>7. EraStakesOK'
  <2>1. info \in ProviderStakeInfo /\ info.total \in Nat /\ info.number_of_stakers \in Nat
    BY StakeInfoType
  <2>2. SaturatingSub(info.total, amount) \in Nat
    BY <2>1, SaturatingSubType
  <2>3. StakersAfterUnstake(s, p, v) \in Nat
    BY <2>1, SaturatingSubType DEF StakersAfterUnstake
  <2>4. x \in ProviderStakeInfo
    BY <2>1, <2>2, <2>3 DEF ProviderStakeInfo
  <2> HIDE DEF x
  <2> QED
    BY <1>1, <1>2, <2>4, InsertEraStakeStep
<1>8. ProvidersOK' /\ ErasOK' /\ RewardsOK'
  BY <1>1, TypeParts DEF IInv, ProvidersOK, ErasOK, RewardsOK
<1> QED
  BY <1>4, <1>5, <1>6, <1>7, <1>8, TypePartsNext DEF IInv

LEMMA WithdrawUnstakedStep ==
    ASSUME IInv, NEW s \in Accounts, WithdrawUnstaked(s)
    PROVE  IInv'
<1> DEFINE chunks == ledger[s].unbonding
           amount == ChunkSum(Restrict(chunks, Unlocked(s)))
           rest == SaturatingSub(ledger[s].locked, amount)
           future == Restrict(chunks, DOMAIN chunks \ Unlocked(s))
           l == [locked |-> rest, unbonding |-> future]
<1>1. /\ UpdateLedger(s, account[s], l)
      /\ UpdateEraInfo(EraInfoAt(currentEra).staked,
                       SaturatingSub(EraInfoAt(currentEra).locked, amount))
      /\ UNCHANGED <<currentEra, forceEra, now, pot, accumulator, receipts,
                     registeredProviders, providerEraStake, stakerInfo>>
  BY DEF WithdrawUnstaked, eraVars, rewardVars
<1> HIDE DEF amount
<1>2. AccountsOK' /\ LedgersOK' /\ LocksBacked'
  <2>1. /\ Backed(account[s]) /\ IsLedger(ledger[s])
        /\ ledger[s].locked \in Nat
        /\ ledger[s].locked <= account[s].free
        /\ account[s].free \in Nat
    BY AccountBacked DEF Backed, Account
  <2>2. rest \in Nat /\ rest <= account[s].free
    <3>1. rest \in Nat /\ rest <= ledger[s].locked
      BY <2>1, SaturatingSubType
    <3> QED
      BY <2>1, <3>1
  <2>3. \A e \in DOMAIN future : e \in Nat /\ future[e] \in Nat
    BY <2>1 DEF IsLedger, Restrict
  <2> HIDE DEF rest, future
  <2>4. IsLedger(l) /\ l.locked <= account[s].free
    BY <2>2, <2>3 DEF IsLedger
  <2> HIDE DEF l
  <2> QED
    BY <1>1, <2>1, <2>4, UpdateLedgerStep
<1>3. EraInfosOK' /\ ErasRecorded'
  <2>1. /\ SaturatingSub(EraInfoAt(currentEra).locked, amount) \in Nat
        /\ EraInfoAt(currentEra).staked \in Nat
    BY EraInfoType, SaturatingSubType
  <2> QED
    BY <1>1, <2>1, UpdateEraInfoStep
<1>4. /\ HistoriesOK' /\ HistoriesInOrder'
      /\ EraStakesOK' /\ ProvidersOK' /\ ErasOK' /\ RewardsOK'
  BY <1>1, TypeParts DEF IInv, HistoriesOK, HistoriesInOrder, EraStakesOK,
                         ProvidersOK, ErasOK, RewardsOK
<1> QED
  BY <1>2, <1>3, <1>4, TypePartsNext DEF IInv

LEMMA WithdrawFromUnregisteredStakerStep ==
    ASSUME IInv, NEW s \in Accounts, NEW p \in Providers,
           WithdrawFromUnregisteredStaker(s, p)
    PROVE  IInv'
<1> DEFINE staked == LatestStakedValue(stakerInfo[s][p])
           rest == SaturatingSub(ledger[s].locked, staked)
           l == [ledger[s] EXCEPT !.locked = rest]
<1>1. /\ UpdateLedger(s, account[s], l)
      /\ UpdateStakerInfo(s, p, <<>>)
      /\ UpdateEraInfo(StakedAfterWithdraw(staked),
                       SaturatingSub(EraInfoAt(currentEra).locked, staked))
      /\ UNCHANGED <<currentEra, forceEra, now, pot, accumulator, receipts,
                     registeredProviders, providerEraStake>>
  BY DEF WithdrawFromUnregisteredStaker, eraVars, rewardVars
<1> HIDE DEF staked
<1>2. AccountsOK' /\ LedgersOK' /\ LocksBacked'
  <2>1. /\ Backed(account[s]) /\ IsLedger(ledger[s])
        /\ ledger[s].locked \in Nat
        /\ ledger[s].locked <= account[s].free
        /\ account[s].free \in Nat
    BY AccountBacked DEF Backed, Account
  <2>2. rest \in Nat /\ rest <= account[s].free
    <3>1. rest \in Nat /\ rest <= ledger[s].locked
      BY <2>1, SaturatingSubType
    <3> QED
      BY <2>1, <3>1
  <2> HIDE DEF rest
  <2>3. IsLedger(l) /\ l.locked <= account[s].free
    BY <2>1, <2>2, LedgerRelocked
  <2> HIDE DEF l
  <2> QED
    BY <1>1, <2>1, <2>3, UpdateLedgerStep
<1>3. EraInfosOK' /\ ErasRecorded'
  <2>1. /\ SaturatingSub(EraInfoAt(currentEra).locked, staked) \in Nat
        /\ StakedAfterWithdraw(staked) \in Nat
    BY EraInfoType, SaturatingSubType DEF StakedAfterWithdraw
  <2> QED
    BY <1>1, <2>1, UpdateEraInfoStep
<1>4. HistoriesOK' /\ HistoriesInOrder'
  <2>1. InOrder(<<>>, currentEra)
    BY EmptySeq DEF InOrder, Sorted, NotAhead
  <2> QED
    BY <1>1, <2>1, UpdateStakerInfoStep
<1>5. EraStakesOK' /\ ProvidersOK' /\ ErasOK' /\ RewardsOK'
  BY <1>1, TypeParts DEF IInv, EraStakesOK, ProvidersOK, ErasOK, RewardsOK
<1> QED
  BY <1>2, <1>3, <1>4, <1>5, TypePartsNext DEF IInv

(* A payment of a reward, whatever its size.                               *)
LEMMA PayStep ==
    ASSUME IInv, NEW r \in Receipt, Pay(r), UNCHANGED <<ledger, accumulator>>
    PROVE  AccountsOK' /\ LedgersOK' /\ LocksBacked' /\ RewardsOK'
<1> DEFINE b == Deposit(account[r.who], r.amount)
<1>0. AccountsOK /\ LedgersOK /\ LocksBacked /\ RewardsOK
  BY TypeParts DEF IInv
<1>1. r.who \in Accounts /\ r.amount \in Nat
  BY DEF Receipt
<1>2. r.amount <= pot.free /\ receipts' = receipts \cup {r}
  BY DEF Pay
<1>3. CASE r.amount = 0
  <2>1. UNCHANGED <<pot, account>>
    BY <1>3 DEF Pay
  <2> QED
    BY <1>0, <1>2, <2>1 DEF AccountsOK, LedgersOK, LocksBacked, RewardsOK
<1>4. CASE r.amount # 0
  <2>1. /\ pot' = Withdraw(pot, r.amount)
        /\ account' = [account EXCEPT ![r.who] = b]
    BY <1>4 DEF Pay
  <2>2. Backed(b) /\ b.lock = account[r.who].lock
    BY <1>1, AccountBacked, DepositBacked
  <2>3. Withdraw(pot, r.amount) \in Account
    BY <1>0, <1>1, <1>2, WithdrawType DEF RewardsOK
  <2> HIDE DEF b
  <2>4. AccountsOK' /\ LedgersOK' /\ LocksBacked'
    BY <1>1, <2>1, <2>2, AccountStep
  <2>5. RewardsOK'
    BY <1>0, <1>2, <2>1, <2>3 DEF RewardsOK
  <2> QED
    BY <2>4, <2>5
<1> QED
  BY <1>3, <1>4

LEMMA ShareTypes ==
    ASSUME IInv, NEW p \in Providers, NEW e, NEW staked \in Nat
    PROVE  StakerReward(p, e, staked) \in Nat /\ OperatorsPart(p, e) \in Nat
<1>1. /\ EraInfoAt(e).staked \in Nat
      /\ EraInfoAt(e).rewards.operators \in Nat
      /\ EraInfoAt(e).rewards.stakers \in Nat
      /\ ProviderStakeAt(p, e).total \in Nat
  BY EraInfoType, StakeInfoType
<1>2. FromRational(ProviderStakeAt(p, e).total, EraInfoAt(e).staked) \in Nat
  BY <1>1, FromRationalType
<1>3. StakersPart(p, e) \in Nat /\ OperatorsPart(p, e) \in Nat
  BY <1>1, <1>2, PartOfType DEF StakersPart, OperatorsPart
<1>4. FromRational(staked, ProviderStakeAt(p, e).total) \in Nat
  BY <1>1, FromRationalType
<1> QED
  BY <1>3, <1>4, PartOfType DEF StakerReward

LEMMA ClaimStakerStep ==
    ASSUME IInv, NEW s \in Accounts, NEW p \in Providers, ClaimStaker(s, p)
    PROVE  IInv'
<1> DEFINE t == stakerInfo[s][p]
           head == Claimable(t)
           r == [role |-> "staker", who |-> s, provider |-> p,
                 era |-> head.era, staked |-> head.staked,
                 amount |-> StakerReward(p, head.era, head.staked)]
<1>0. InOrder(t, currentEra) /\ currentEra \in Nat
  BY HistoryInOrder, TypeParts DEF IInv, ErasOK
<1>1. /\ head.staked > 0
      /\ ClaimableEra(p, head.era)
      /\ Pay(r)
      /\ UpdateStakerInfo(s, p, AfterClaim(t))
      /\ UNCHANGED <<currentEra, forceEra, now, accumulator, ledger,
                     registeredProviders, providerEraStake, generalEraInfo>>
  BY DEF ClaimStaker, eraVars
<1>2. /\ t # <<>> /\ t \in Seq(EraStake)
      /\ head = t[1]
      /\ t[1].era < currentEra
  BY <1>0, <1>1 DEF Claimable, ClaimableEra, InOrder
<1>3. head.era \in Nat /\ head.staked \in Nat
  BY <1>2, VectorType
<1>4. HistoriesOK' /\ HistoriesInOrder'
  <2>1. InOrder(AfterClaim(t), currentEra)
    BY <1>0, <1>2, AfterClaimInOrder
  <2> QED
    BY <1>1, <2>1, UpdateStakerInfoStep
<1> HIDE DEF head, t
<1>5. AccountsOK' /\ LedgersOK' /\ LocksBacked' /\ RewardsOK'
  <2>1. StakerReward(p, head.era, head.staked) \in Nat
    BY <1>3, ShareTypes
  <2>2. r \in Receipt
    BY <1>3, <2>1 DEF Receipt
  <2> HIDE DEF r
  <2> QED
    BY <1>1, <2>2, PayStep
<1>6. EraInfosOK' /\ ErasRecorded' /\ EraStakesOK' /\ ProvidersOK' /\ ErasOK'
  BY <1>1, TypeParts DEF IInv, EraInfosOK, ErasRecorded, EraStakesOK,
                         ProvidersOK, ErasOK
<1> QED
  BY <1>4, <1>5, <1>6, TypePartsNext DEF IInv

LEMMA ClaimOperatorStep ==
    ASSUME IInv, NEW p \in Providers, NEW e \in 0..MaxEra, ClaimOperator(p, e)
    PROVE  IInv'
<1> DEFINE o == registeredProviders[p].operator
           r == [role |-> "operator", who |-> o, provider |-> p, era |-> e,
                 staked |-> ProviderStakeAt(p, e).total,
                 amount |-> OperatorsPart(p, e)]
<1>0. e \in Nat
  BY DapiStakingAssumption
<1>1. /\ IsRegistered(p)
      /\ Pay(r)
      /\ providerEraStake' = [providerEraStake EXCEPT ![p] =
             Insert(providerEraStake[p], e, MarkClaimed(p, e))]
      /\ UNCHANGED <<currentEra, forceEra, now, accumulator, ledger,
                     registeredProviders, stakerInfo, generalEraInfo>>
  BY DEF ClaimOperator, ClaimableEra, eraVars
<1>2. o \in Accounts
  BY <1>1, TypeParts DEF IInv, ProvidersOK, ProviderInfo, IsRegistered
<1>3. AccountsOK' /\ LedgersOK' /\ LocksBacked' /\ RewardsOK'
  <2>1. OperatorsPart(p, e) \in Nat /\ ProviderStakeAt(p, e).total \in Nat
    BY ShareTypes, StakeInfoType
  <2> HIDE DEF o
  <2>2. r \in Receipt
    BY <1>0, <1>2, <2>1 DEF Receipt
  <2> HIDE DEF r
  <2> QED
    BY <1>1, <2>2, PayStep
<1>4. EraStakesOK'
  <2>1. MarkClaimed(p, e) \in ProviderStakeInfo
    BY StakeInfoType DEF MarkClaimed, ProviderStakeInfo
  <2> QED
    BY <1>0, <1>1, <2>1, InsertEraStakeStep
<1>5. /\ HistoriesOK' /\ HistoriesInOrder' /\ EraInfosOK' /\ ErasRecorded'
      /\ ProvidersOK' /\ ErasOK'
  BY <1>1, TypeParts DEF IInv, HistoriesOK, HistoriesInOrder, EraInfosOK,
                         ErasRecorded, ProvidersOK, ErasOK
<1> QED
  BY <1>3, <1>4, <1>5, TypePartsNext DEF IInv

LEMMA OnInitializeStep ==
    ASSUME IInv, OnInitialize
    PROVE  IInv'
<1> DEFINE block == (now + 1) % BlockPerEra
<1>0. /\ AccountsOK /\ LedgersOK /\ HistoriesOK /\ ProvidersOK /\ EraStakesOK
      /\ EraInfosOK /\ ErasOK /\ RewardsOK
      /\ LocksBacked /\ HistoriesInOrder /\ ErasRecorded
  BY TypeParts DEF IInv
<1>1. /\ now' = block
      /\ UNCHANGED <<account, pot, ledger, stakerInfo, registeredProviders, receipts>>
  BY DEF OnInitialize
<1>2. block \in 0..(BlockPerEra - 1)
  BY <1>0, DapiStakingAssumption DEF ErasOK
<1>3. AccountsOK' /\ LedgersOK' /\ LocksBacked' /\ HistoriesOK' /\ ProvidersOK'
  BY <1>0, <1>1 DEF AccountsOK, LedgersOK, LocksBacked, HistoriesOK, ProvidersOK
<1>4. CASE EraEnds(block) /\ currentEra < MaxEra
  <2>1. /\ currentEra' = currentEra + 1
        /\ accumulator' = AccumulatorAfterSnapshot
        /\ RewardBalanceSnapshot(currentEra)
        /\ RotateStakingInfo(currentEra)
        /\ forceEra' = "NotForcing"
    BY <1>4 DEF OnInitialize
  <2>2. ErasOK' /\ RewardsOK'
    BY <1>0, <1>1, <1>2, <2>1
       DEF ErasOK, RewardsOK, AccumulatorAfterSnapshot, NoReward, RewardInfo
  <2>3. HistoriesInOrder'
    <3> SUFFICES ASSUME NEW s \in Accounts, NEW p \in Providers
                 PROVE  /\ Sorted(stakerInfo'[s][p])
                        /\ NotAhead(stakerInfo'[s][p], currentEra')
      BY DEF HistoriesInOrder
    <3>1. InOrder(stakerInfo[s][p], currentEra) /\ currentEra \in Nat
      BY <1>0, HistoryInOrder DEF ErasOK
    <3>2. InOrder(stakerInfo[s][p], currentEra + 1)
      BY <3>1, LaterInOrder
    <3> QED
      BY <1>1, <2>1, <3>2 DEF InOrder
  <2>4. EraInfosOK' /\ ErasRecorded'
    <3> DEFINE info == EraInfoAt(currentEra)
               x == [info EXCEPT !.rewards = NoReward]
               y == [info EXCEPT !.rewards = accumulator]
               grown == Insert(generalEraInfo, currentEra + 1, x)
    <3>1. generalEraInfo' = Insert(grown, currentEra, y)
      BY <2>1 DEF RewardBalanceSnapshot
    <3>2. info \in EraInfo /\ NoReward \in RewardInfo /\ accumulator \in RewardInfo
      BY <1>0, EraInfoType DEF NoReward, RewardInfo, RewardsOK
    <3>3. x \in EraInfo /\ y \in EraInfo
      BY <3>2 DEF EraInfo
    <3> HIDE DEF x, y, info
    <3>4. currentEra \in Nat
      BY <1>0 DEF ErasOK
    <3>5. /\ DOMAIN grown = DOMAIN generalEraInfo \cup {currentEra + 1}
          /\ \A e \in DOMAIN grown : e \in Nat /\ grown[e] \in EraInfo
      BY <1>0, <3>3, <3>4 DEF Insert, EraInfosOK
    <3> HIDE DEF grown
    <3>6. /\ DOMAIN generalEraInfo' = DOMAIN grown \cup {currentEra}
          /\ EraInfosOK'
      BY <3>1, <3>3, <3>4, <3>5 DEF Insert, EraInfosOK
    <3>7. ErasRecorded'
      BY <1>0, <2>1, <3>4, <3>5, <3>6 DEF ErasRecorded
    <3> QED
      BY <3>6, <3>7
  <2>5. EraStakesOK'
    <3> DEFINE x(p) == [providerEraStake[p][currentEra]
                            EXCEPT !.provider_reward_claimed = FALSE]
    <3>1. providerEraStake' = [p \in Providers |->
              IF IsActiveProvider(p) /\ currentEra \in DOMAIN providerEraStake[p]
              THEN Insert(providerEraStake[p], currentEra + 1, x(p))
              ELSE providerEraStake[p]]
      BY <2>1 DEF RotateStakingInfo
    <3>2. \A p \in Providers :
              currentEra \in DOMAIN providerEraStake[p] => x(p) \in ProviderStakeInfo
      BY <1>0 DEF EraStakesOK, ProviderStakeInfo
    <3> HIDE DEF x
    <3>3. currentEra + 1 \in Nat
      BY <1>0 DEF ErasOK
    <3> SUFFICES ASSUME NEW p \in Providers, NEW e \in DOMAIN providerEraStake'[p]
                 PROVE  e \in Nat /\ providerEraStake'[p][e] \in ProviderStakeInfo
      BY <3>1 DEF EraStakesOK
    <3>4. CASE IsActiveProvider(p) /\ currentEra \in DOMAIN providerEraStake[p]
      <4>1. providerEraStake'[p] = Insert(providerEraStake[p], currentEra + 1, x(p))
        BY <3>1, <3>4
      <4> QED
        BY <1>0, <3>2, <3>3, <3>4, <4>1 DEF Insert, EraStakesOK
    <3>5. CASE ~(IsActiveProvider(p) /\ currentEra \in DOMAIN providerEraStake[p])
      <4>1. providerEraStake'[p] = providerEraStake[p]
        BY <3>1, <3>5
      <4> QED
        BY <1>0, <4>1 DEF EraStakesOK
    <3> QED
      BY <3>4, <3>5
  <2> QED
    BY <1>3, <2>2, <2>3, <2>4, <2>5, TypePartsNext DEF IInv
<1>5. CASE UNCHANGED <<currentEra, accumulator, generalEraInfo,
                       providerEraStake, forceEra>>
  <2>1. /\ HistoriesInOrder' /\ ErasRecorded' /\ EraInfosOK' /\ EraStakesOK'
        /\ RewardsOK'
    BY <1>0, <1>1, <1>5 DEF HistoriesInOrder, ErasRecorded, EraInfosOK,
                            EraStakesOK, RewardsOK
  <2>2. ErasOK'
    BY <1>0, <1>1, <1>2, <1>5 DEF ErasOK
  <2> QED
    BY <1>3, <2>1, <2>2, TypePartsNext DEF IInv
<1> QED
  BY <1>4, <1>5 DEF OnInitialize

LEMMA ForceNewEraStep ==
    ASSUME IInv, ForceNewEra
    PROVE  IInv'
<1>1. /\ forceEra' = "ForceNew"
      /\ UNCHANGED <<account, pot, ledger, stakerInfo, registeredProviders,
                     providerEraStake, generalEraInfo, currentEra, accumulator,
                     now, receipts>>
  BY DEF ForceNewEra
<1>2. /\ AccountsOK' /\ LedgersOK' /\ HistoriesOK' /\ ProvidersOK' /\ EraStakesOK'
      /\ EraInfosOK' /\ RewardsOK'
      /\ LocksBacked' /\ HistoriesInOrder' /\ ErasRecorded'
  BY <1>1, TypeParts
     DEF IInv, AccountsOK, LedgersOK, HistoriesOK, ProvidersOK, EraStakesOK,
         EraInfosOK, RewardsOK, LocksBacked, HistoriesInOrder, ErasRecorded
<1>3. ErasOK'
  BY <1>1, TypeParts DEF IInv, ErasOK
<1> QED
  BY <1>2, <1>3, TypePartsNext DEF IInv

LEMMA RewardsStep ==
    ASSUME IInv, NEW v \in RewardAmounts, Rewards(v)
    PROVE  IInv'
<1> DEFINE operators == PartOf(OperatorRewardPercentage, v)
           stakers == SaturatingSub(v, operators)
<1>1. /\ accumulator' = [operators |-> accumulator.operators + operators,
                         stakers |-> accumulator.stakers + stakers]
      /\ pot' = Deposit(pot, v)
      /\ UNCHANGED <<account, ledger, stakerInfo, registeredProviders,
                     providerEraStake, generalEraInfo, currentEra, forceEra,
                     now, receipts>>
  BY DEF Rewards, AddRewards, eraVars
<1>2. v \in Nat /\ OperatorRewardPercentage \in Nat
  BY DapiStakingAssumption
<1>3. operators \in Nat /\ stakers \in Nat
  BY <1>2, PartOfType, SaturatingSubType
<1> HIDE DEF operators, stakers
<1>4. RewardsOK'
  <2>1. RewardsOK
    BY TypeParts DEF IInv
  <2>2. accumulator' \in RewardInfo
    BY <1>1, <1>3, <2>1 DEF RewardsOK, RewardInfo
  <2>3. pot' \in Account
    BY <1>1, <1>2, <2>1, DepositType DEF RewardsOK
  <2> QED
    BY <1>1, <2>1, <2>2, <2>3 DEF RewardsOK
<1>5. /\ AccountsOK' /\ LedgersOK' /\ HistoriesOK' /\ ProvidersOK' /\ EraStakesOK'
      /\ EraInfosOK' /\ ErasOK'
      /\ LocksBacked' /\ HistoriesInOrder' /\ ErasRecorded'
  BY <1>1, TypeParts
     DEF IInv, AccountsOK, LedgersOK, HistoriesOK, ProvidersOK, EraStakesOK,
         EraInfosOK, ErasOK, LocksBacked, HistoriesInOrder, ErasRecorded
<1> QED
  BY <1>4, <1>5, TypePartsNext DEF IInv

(* What a new provider and its deposit leave behind, with or without the   *)
(* stake at the end of register.                                           *)
LEMMA RegisterWrites ==
    ASSUME IInv, NEW o \in Accounts, NEW p \in Providers, NEW deposit \in Nat,
           RegisterChecks(o, p, deposit)
    PROVE  /\ Backed(Reserve(account[o], RegisterDeposit))
           /\ Reserve(account[o], RegisterDeposit).lock = account[o].lock
           /\ registeredProviders' =
                  Insert(registeredProviders, p, NewProvider(o)) => ProvidersOK'
<1>1. RegisterDeposit \in Nat /\ Usable(account[o], RegisterDeposit)
  BY DapiStakingAssumption DEF RegisterChecks
<1>2. Backed(account[o])
  BY AccountBacked
<1>3. NewProvider(o) \in ProviderInfo
  BY DEF NewProvider, ProviderInfo
<1>4. ProvidersOK
  BY TypeParts DEF IInv
<1>5. ASSUME registeredProviders' = Insert(registeredProviders, p, NewProvider(o))
      PROVE  ProvidersOK'
  BY <1>3, <1>4, <1>5 DEF ProvidersOK, Insert
<1> QED
  BY <1>1, <1>2, <1>5, ReserveBacked

LEMMA RegisterStep ==
    ASSUME IInv, NEW o \in Accounts, NEW p \in Providers, NEW d \in DepositAmounts,
           Register(o, p, d)
    PROVE  IInv'
<1> DEFINE b == Reserve(account[o], RegisterDeposit)
           value == SaturatingSub(d, RegisterDeposit)
<1>1. /\ RegisterChecks(o, p, d)
      /\ StakeChecks(o, p, b, value)
      /\ registeredProviders' = Insert(registeredProviders, p, NewProvider(o))
      /\ StakeWrites(o, p, b, value)
      /\ UNCHANGED <<currentEra, forceEra, now, pot, accumulator, receipts>>
  BY DEF Register, eraVars, rewardVars
<1>2. d \in Nat /\ value \in Nat
  BY DapiStakingAssumption, SaturatingSubType
<1>3. Backed(b) /\ ProvidersOK'
  BY <1>1, <1>2, RegisterWrites
<1> HIDE DEF b, value
<1>4. /\ AccountsOK' /\ LedgersOK' /\ LocksBacked'
      /\ HistoriesOK' /\ HistoriesInOrder'
      /\ EraInfosOK' /\ ErasRecorded'
      /\ EraStakesOK'
  BY <1>1, <1>2, <1>3, StakeWritesStep
<1>5. ErasOK' /\ RewardsOK'
  BY <1>1, TypeParts DEF IInv, ErasOK, RewardsOK
<1> QED
  BY <1>3, <1>4, <1>5, TypePartsNext DEF IInv

LEMMA RegisterStakeFailsStep ==
    ASSUME IInv, NEW o \in Accounts, NEW p \in Providers, NEW d \in DepositAmounts,
           RegisterStakeFails(o, p, d)
    PROVE  IInv'
<1> DEFINE b == Reserve(account[o], RegisterDeposit)
<1>1. /\ RegisterChecks(o, p, d)
      /\ registeredProviders' = Insert(registeredProviders, p, NewProvider(o))
      /\ account' = [account EXCEPT ![o] = b]
      /\ UNCHANGED <<currentEra, forceEra, now, pot, accumulator, receipts,
                     ledger, stakerInfo, providerEraStake, generalEraInfo>>
  BY DEF RegisterStakeFails, eraVars, rewardVars
<1>2. d \in Nat
  BY DapiStakingAssumption
<1>3. Backed(b) /\ b.lock = account[o].lock /\ ProvidersOK'
  BY <1>1, <1>2, RegisterWrites
<1> HIDE DEF b
<1>4. AccountsOK' /\ LedgersOK' /\ LocksBacked'
  BY <1>1, <1>3, AccountStep
<1>5. /\ HistoriesOK' /\ HistoriesInOrder' /\ EraInfosOK' /\ ErasRecorded'
      /\ EraStakesOK' /\ ErasOK' /\ RewardsOK'
  BY <1>1, TypeParts DEF IInv, HistoriesOK, HistoriesInOrder, EraInfosOK,
                         ErasRecorded, EraStakesOK, ErasOK, RewardsOK
<1> QED
  BY <1>3, <1>4, <1>5, TypePartsNext DEF IInv

LEMMA UnregisterStep ==
    ASSUME IInv, NEW p \in Providers, Unregister(p)
    PROVE  IInv'
<1> DEFINE x == [registeredProviders[p] EXCEPT
                    !.state = "Unregistered", !.since = currentEra]
<1>1. /\ IsRegistered(p)
      /\ registeredProviders' = [registeredProviders EXCEPT ![p] = x]
      /\ UNCHANGED <<currentEra, forceEra, now, pot, accumulator, receipts,
                     account, ledger, stakerInfo, providerEraStake, generalEraInfo>>
  BY DEF Unregister, IsActiveProvider, eraVars, rewardVars
<1>2. ProvidersOK'
  <2>1. ProvidersOK /\ currentEra \in Nat
    BY TypeParts DEF IInv, ErasOK
  <2>2. registeredProviders[p] \in ProviderInfo
    BY <1>1, <2>1 DEF ProvidersOK, IsRegistered
  <2>3. x \in ProviderInfo
    BY <2>1, <2>2 DEF ProviderInfo
  <2> HIDE DEF x
  <2> QED
    BY <1>1, <2>1, <2>3 DEF ProvidersOK
<1>3. /\ AccountsOK' /\ LedgersOK' /\ HistoriesOK' /\ EraStakesOK'
      /\ EraInfosOK' /\ ErasOK' /\ RewardsOK'
      /\ LocksBacked' /\ HistoriesInOrder' /\ ErasRecorded'
  BY <1>1, TypeParts
     DEF IInv, AccountsOK, LedgersOK, HistoriesOK, EraStakesOK, EraInfosOK,
         ErasOK, RewardsOK, LocksBacked, HistoriesInOrder, ErasRecorded
<1> QED
  BY <1>2, <1>3, TypePartsNext DEF IInv

LEMMA WithdrawFromUnregisteredOperatorStep ==
    ASSUME IInv, NEW p \in Providers, WithdrawFromUnregisteredOperator(p)
    PROVE  IInv'
<1> DEFINE o == registeredProviders[p].operator
           b == Unreserve(account[o], RegisterDeposit)
<1>1. /\ IsRegistered(p)
      /\ registeredProviders' = [registeredProviders EXCEPT ![p] = MarkUnreserved(p)]
      /\ account' = [account EXCEPT ![o] = b]
      /\ UNCHANGED <<currentEra, forceEra, now, pot, accumulator, receipts,
                     ledger, stakerInfo, providerEraStake, generalEraInfo>>
  BY DEF WithdrawFromUnregisteredOperator, UnbondedSinceUnregistered,
         IsUnregistered, eraVars, rewardVars
<1>2. ProvidersOK /\ registeredProviders[p] \in ProviderInfo
  BY <1>1, TypeParts DEF IInv, ProvidersOK, IsRegistered
<1>3. o \in Accounts /\ MarkUnreserved(p) \in ProviderInfo
  BY <1>2 DEF ProviderInfo, MarkUnreserved
<1>4. ProvidersOK'
  BY <1>1, <1>2, <1>3 DEF ProvidersOK
<1> HIDE DEF o
<1>5. Backed(b) /\ b.lock = account[o].lock
  BY <1>3, DapiStakingAssumption, AccountBacked, UnreserveBacked
<1> HIDE DEF b
<1>6. AccountsOK' /\ LedgersOK' /\ LocksBacked'
  BY <1>1, <1>3, <1>5, AccountStep
<1>7. /\ HistoriesOK' /\ HistoriesInOrder' /\ EraInfosOK' /\ ErasRecorded'
      /\ EraStakesOK' /\ ErasOK' /\ RewardsOK'
  BY <1>1, TypeParts DEF IInv, HistoriesOK, HistoriesInOrder, EraInfosOK,
                         ErasRecorded, EraStakesOK, ErasOK, RewardsOK
<1> QED
  BY <1>4, <1>6, <1>7, TypePartsNext DEF IInv

LEMMA SpendElsewhereStep ==
    ASSUME IInv, NEW s \in Accounts, NEW v \in SpendAmounts, SpendElsewhere(s, v)
    PROVE  IInv'
<1> DEFINE b == Spend(account[s], v)
<1>1. /\ CanSpend(account[s], v)
      /\ account' = [account EXCEPT ![s] = b]
      /\ UNCHANGED <<currentEra, forceEra, now, pot, accumulator, receipts, ledger,
                     stakerInfo, registeredProviders, providerEraStake,
                     generalEraInfo>>
  BY DEF SpendElsewhere, eraVars, rewardVars
<1>2. v \in Nat
  BY DapiStakingAssumption
<1>3. Backed(b) /\ b.lock = account[s].lock
  BY <1>1, <1>2, AccountBacked, SpendBacked
<1> HIDE DEF b
<1>4. AccountsOK' /\ LedgersOK' /\ LocksBacked'
  BY <1>1, <1>3, AccountStep
<1>5. /\ HistoriesOK' /\ HistoriesInOrder' /\ EraInfosOK' /\ ErasRecorded'
      /\ ProvidersOK' /\ EraStakesOK' /\ ErasOK' /\ RewardsOK'
  BY <1>1, TypeParts
     DEF IInv, HistoriesOK, HistoriesInOrder, EraInfosOK, ErasRecorded,
         ProvidersOK, EraStakesOK, ErasOK, RewardsOK
<1> QED
  BY <1>4, <1>5, TypePartsNext DEF IInv
-------------------------------------------------------------------------------
(* The invariant holds at the start and after every step.                  *)
LEMMA InitIInv == Init => IInv
<1> SUFFICES ASSUME Init PROVE IInv
  OBVIOUS
<1>1. AccountsOK /\ LedgersOK /\ LocksBacked
  <2>1. IsLedger(EmptyLedger) /\ EmptyLedger.locked = 0
    BY DEF IsLedger, EmptyLedger, NoChunks
  <2>2. Backed(NewAccount(InitialBalance)) /\ NewAccount(InitialBalance).lock = 0
    BY DapiStakingAssumption DEF Backed, NewAccount, Account
  <2> QED
    BY <2>1, <2>2 DEF Init, AccountsOK, LedgersOK, LocksBacked, Backed
<1>2. HistoriesOK /\ HistoriesInOrder
  BY EmptySeq DEF Init, HistoriesOK, HistoriesInOrder, Sorted, NotAhead
<1>3. ProvidersOK /\ EraStakesOK /\ EraInfosOK
  BY DEF Init, ProvidersOK, EraStakesOK, EraInfosOK
<1>4. ErasOK /\ RewardsOK /\ ErasRecorded
  BY DapiStakingAssumption DEF Init, ErasOK, RewardsOK, ErasRecorded, NoReward,
                               RewardInfo, NewAccount, Account
<1> QED
  BY <1>1, <1>2, <1>3, <1>4, TypeParts DEF IInv

LEMMA NextIInv == IInv /\ [Next]_vars => IInv'
<1> SUFFICES ASSUME IInv, [Next]_vars PROVE IInv'
  OBVIOUS
<1>1. CASE OnInitialize
  BY <1>1, OnInitializeStep
<1>2. CASE ForceNewEra
  BY <1>2, ForceNewEraStep
<1>3. ASSUME NEW s \in Accounts, NEW p \in Providers, NEW v,
             \/ v \in StakeAmounts /\ Stake(s, p, v)
             \/ v \in UnstakeAmounts /\ Unstake(s, p, v)
      PROVE  IInv'
  BY <1>3, StakeStep, UnstakeStep
<1>4. ASSUME NEW s \in Accounts, NEW p \in Providers, NEW v \in DepositAmounts,
             Register(s, p, v) \/ RegisterStakeFails(s, p, v)
      PROVE  IInv'
  BY <1>4, RegisterStep, RegisterStakeFailsStep
<1>5. ASSUME NEW s \in Accounts, NEW p \in Providers,
             ClaimStaker(s, p) \/ WithdrawFromUnregisteredStaker(s, p)
      PROVE  IInv'
  BY <1>5, ClaimStakerStep, WithdrawFromUnregisteredStakerStep
<1>6. ASSUME NEW s \in Accounts, WithdrawUnstaked(s)
      PROVE  IInv'
  BY <1>6, WithdrawUnstakedStep
<1>7. ASSUME NEW s \in Accounts, NEW v \in SpendAmounts, SpendElsewhere(s, v)
      PROVE  IInv'
  BY <1>7, SpendElsewhereStep
<1>8. ASSUME NEW p \in Providers,
             Unregister(p) \/ WithdrawFromUnregisteredOperator(p)
      PROVE  IInv'
  BY <1>8, UnregisterStep, WithdrawFromUnregisteredOperatorStep
<1>9. ASSUME NEW p \in Providers, NEW e \in 0..MaxEra, ClaimOperator(p, e)
      PROVE  IInv'
  BY <1>9, ClaimOperatorStep
<1>10. ASSUME NEW v \in RewardAmounts, Rewards(v)
       PROVE  IInv'
  BY <1>10, RewardsStep
<1>11. CASE UNCHANGED vars
  <2>1. /\ AccountsOK' /\ LedgersOK' /\ HistoriesOK' /\ ProvidersOK' /\ EraStakesOK'
        /\ EraInfosOK' /\ ErasOK' /\ RewardsOK'
        /\ LocksBacked' /\ HistoriesInOrder' /\ ErasRecorded'
    BY <1>11, TypeParts
       DEF vars, IInv, AccountsOK, LedgersOK, HistoriesOK, ProvidersOK,
           EraStakesOK, EraInfosOK, ErasOK, RewardsOK, LocksBacked,
           HistoriesInOrder, ErasRecorded
  <2> QED
    BY <2>1, TypePartsNext DEF IInv
<1> QED
  BY <1>1, <1>2, <1>3, <1>4, <1>5, <1>6, <1>7, <1>8, <1>9, <1>10, <1>11
     DEF Next, Calls, RegistryCalls

(* Every storage map of the pallet keeps its type, for any numbers of      *)
(* accounts and providers.                                                 *)
THEOREM TypeCorrect == Spec => []TypeOK
<1>1. IInv => TypeOK
  BY DEF IInv
<1> QED
  BY InitIInv, NextIInv, <1>1, PTL DEF Spec

(* What the ledgers lock is always there, whatever an account stakes,      *)
(* reserves, pays elsewhere or earns: stake never locks more than is free. *)
THEOREM LocksAreBacked == Spec => []LocksBacked
<1>1. IInv => LocksBacked
  BY DEF IInv
<1> QED
  BY InitIInv, NextIInv, <1>1, PTL DEF Spec

LEMMA NoInternalErrorNow == IInv => NoInternalError
<1> SUFFICES ASSUME IInv PROVE NoInternalError
  OBVIOUS
<1>1. currentEra \in Nat
  BY TypeParts DEF IInv, ErasOK
<1>2. \A e \in 0..(currentEra - 1) : e \in DOMAIN generalEraInfo
  BY <1>1 DEF IInv, ErasRecorded
<1>3. ASSUME NEW s \in Accounts, NEW p \in Providers
      PROVE  ~UnexpectedEra(stakerInfo[s][p], currentEra)
  <2>1. InOrder(stakerInfo[s][p], currentEra)
    BY HistoryInOrder
  <2> HIDE DEF IInv
  <2> SUFFICES ASSUME stakerInfo[s][p] # <<>>
               PROVE  ~(stakerInfo[s][p][Len(stakerInfo[s][p])].era > currentEra)
    BY DEF UnexpectedEra
  <2>2. Len(stakerInfo[s][p]) \in DOMAIN stakerInfo[s][p]
    BY <2>1 DEF InOrder
  <2> QED
    BY <1>1, <2>1, <2>2, VectorType DEF InOrder, NotAhead
<1> QED
  BY <1>2, <1>3 DEF NoInternalError

(* The errors to "report on github if ever emitted" are never emitted.     *)
THEOREM InternalErrorsUnreachable == Spec => []NoInternalError
  BY InitIInv, NextIInv, NoInternalErrorNow, PTL DEF Spec
===============================================================================
