-------------------------- MODULE StakingBooksProofs --------------------------
(***************************************************************************)
(* Proofs about the books of DapiStaking, for any number of accounts and   *)
(* providers: what the ledgers lock, the totals of eras and providers and  *)
(* the reserved deposits agree with the stakers' own records after any     *)
(* sequence of calls.                                                      *)
(***************************************************************************)
EXTENDS DapiStakingProofs

(* The current stake of s on p, and the stakers of p.                      *)
StakeNow(s, p) == LatestStakedValue(stakerInfo[s][p])
StakersOn(p) == {s \in Accounts : StakeNow(s, p) > 0}

StakesTotal == Sum([s \in Accounts |-> StakeOf(s)])
LockedTotal == Sum([s \in Accounts |-> ledger[s].locked])

(* Chunks are a finite map.                                                *)
IsChunks(c) == IsFiniteSet(DOMAIN c) /\ c \in [DOMAIN c -> Nat]
ChunksOK == \A s \in Accounts : IsChunks(ledger[s].unbonding)

(* The eras with a record are those up to the current one.                 *)
ErasKnown ==
    DOMAIN generalEraInfo = IF currentEra = 0 THEN {} ELSE 0..currentEra

(* Providers have records from their registration to their unregistration, *)
(* and stakes only from their registration on.                             *)
RecordsInRange ==
    \A p \in Providers :
        /\ \A e \in DOMAIN providerEraStake[p] : e \in 1..currentEra
        /\ ~IsRegistered(p) =>
               /\ DOMAIN providerEraStake[p] = {}
               /\ \A s \in Accounts : stakerInfo[s][p] = <<>>
        /\ IsUnregistered(p) =>
               /\ registeredProviders[p].since \in 1..currentEra
               /\ \A e \in DOMAIN providerEraStake[p] :
                      e <= registeredProviders[p].since

(* The record of the current era, of an unregistered provider too.         *)
RecordMatches(p) ==
    /\ ProviderStakeAt(p, currentEra).total = StakeOn(p)
    /\ ProviderStakeAt(p, currentEra).number_of_stakers = Cardinality(StakersOn(p))

RecordsMatch ==
    \A p \in Providers :
        IsActiveProvider(p) \/ currentEra \in DOMAIN providerEraStake[p]
            => RecordMatches(p)

(* The totals of the current era; before the first block they are zero.    *)
TotalsMatch ==
    /\ EraInfoAt(currentEra).staked = StakesTotal
    /\ EraInfoAt(currentEra).locked = LockedTotal

(* The inductive invariant: the books, and the deposits.                   *)
Books ==
    /\ ChunksOK
    /\ ErasKnown
    /\ RecordsInRange
    /\ LedgerMatchesStakes
    /\ TotalsMatch
    /\ RecordsMatch

BooksInv == IInv /\ Books /\ DepositsReserved
-------------------------------------------------------------------------------
(* Stakes and their sums *)

LEMMA FiniteDomains ==
    IsFiniteSet(Accounts) /\ IsFiniteSet(Providers)
  BY DapiStakingAssumption

LEMMA StakeNowType ==
    ASSUME IInv, NEW s \in Accounts, NEW p \in Providers
    PROVE  StakeNow(s, p) \in Nat
  BY HistoryInOrder, LatestType, TypeParts DEF IInv, ErasOK, StakeNow

LEMMA StakeOfType ==
    ASSUME IInv
    PROVE  /\ \A s \in Accounts : StakeOf(s) \in Nat
           /\ \A p \in Providers : StakeOn(p) \in Nat
           /\ StakesTotal \in Nat
<1>1. ASSUME NEW s \in Accounts PROVE StakeOf(s) \in Nat
  <2> DEFINE f == [p \in Providers |-> StakeNow(s, p)]
  <2>1. f \in [Providers -> Nat]
    BY StakeNowType
  <2>2. StakeOf(s) = Sum(f)
    BY DEF StakeOf, StakeNow
  <2> HIDE DEF f
  <2> QED
    BY <2>1, <2>2, FiniteDomains, SumType
<1>2. ASSUME NEW p \in Providers PROVE StakeOn(p) \in Nat
  <2> DEFINE f == [s \in Accounts |-> StakeNow(s, p)]
  <2>1. f \in [Accounts -> Nat]
    BY StakeNowType
  <2>2. StakeOn(p) = Sum(f)
    BY DEF StakeOn, StakeNow
  <2> HIDE DEF f
  <2> QED
    BY <2>1, <2>2, FiniteDomains, SumType
<1>3. StakesTotal \in Nat
  <2> DEFINE f == [s \in Accounts |-> StakeOf(s)]
  <2>1. f \in [Accounts -> Nat]
    BY <1>1
  <2>2. StakesTotal = Sum(f)
    BY DEF StakesTotal
  <2> HIDE DEF f
  <2> QED
    BY <2>1, <2>2, FiniteDomains, SumType
<1> QED
  BY <1>1, <1>2, <1>3

(* All stakes summed by staker and by provider.                            *)
LEMMA StakesTotalByProvider ==
    ASSUME IInv
    PROVE  StakesTotal = Sum([p \in Providers |-> StakeOn(p)])
<1> DEFINE m == [s \in Accounts |-> [p \in Providers |-> StakeNow(s, p)]]
           rows == [s \in Accounts |-> StakeOf(s)]
           cols == [p \in Providers |-> StakeOn(p)]
<1>1. m \in [Accounts -> [Providers -> Nat]]
  BY StakeNowType
<1>2. rows \in [Accounts -> Nat]
  BY StakeOfType
<1>3. ASSUME NEW s \in Accounts PROVE rows[s] = Sum(m[s])
  <2>1. m[s] = [p \in Providers |-> LatestStakedValue(stakerInfo[s][p])]
    BY DEF StakeNow
  <2> QED
    BY <2>1 DEF StakeOf
<1>4. cols = Columns(m, Accounts, Providers)
  <2>1. ASSUME NEW p \in Providers
        PROVE  StakeOn(p) = Sum(Column(m, Accounts, p))
    <3>1. Column(m, Accounts, p)
              = [s \in Accounts |-> LatestStakedValue(stakerInfo[s][p])]
      BY DEF Column, StakeNow
    <3> QED
      BY <3>1 DEF StakeOn
  <2> HIDE DEF m
  <2> QED
    BY <2>1 DEF Columns
<1> HIDE DEF m, rows, cols
<1>5. Sum(rows) = Sum(Columns(m, Accounts, Providers))
  BY <1>1, <1>2, <1>3, FiniteDomains, SumSwap
<1> QED
  BY <1>4, <1>5 DEF StakesTotal, rows, cols

(* One pairing's stake changes to w.                                       *)
StakeChanges(s, p, w) ==
    /\ w \in Nat
    /\ \A a \in Accounts, q \in Providers :
           StakeNow(a, q)' = IF a = s /\ q = p THEN w ELSE StakeNow(a, q)

LEMMA StakeOfChange ==
    ASSUME IInv, IInv', NEW s \in Accounts, NEW p \in Providers, NEW w,
           StakeChanges(s, p, w)
    PROVE  /\ StakeOf(s)' + StakeNow(s, p) = StakeOf(s) + w
           /\ StakeNow(s, p) <= StakeOf(s)
           /\ \A a \in Accounts \ {s} : StakeOf(a)' = StakeOf(a)
<1> DEFINE F(a) == [q \in Providers |-> StakeNow(a, q)]
           H(a) == [q \in Providers |-> StakeNow(a, q)']
<1>1. \A a \in Accounts : F(a) \in [Providers -> Nat] /\ H(a) \in [Providers -> Nat]
  BY StakeNowType DEF StakeChanges
<1>2. \A a \in Accounts : StakeOf(a) = Sum(F(a)) /\ StakeOf(a)' = Sum(H(a))
  BY DEF StakeOf, StakeNow
<1>3. \A a \in Accounts \ {s} : H(a) = F(a)
  BY DEF StakeChanges
<1>4. F(s)[p] = StakeNow(s, p) /\ H(s)[p] = w
  BY DEF StakeChanges
<1>5. \A q \in Providers \ {p} : H(s)[q] = F(s)[q]
  BY DEF StakeChanges
<1> DEFINE f == F(s)
           h == H(s)
<1>6. f \in [Providers -> Nat] /\ h \in [Providers -> Nat]
  BY <1>1
<1>7. f[p] = StakeNow(s, p) /\ h[p] = w /\ \A q \in Providers \ {p} : h[q] = f[q]
  BY <1>4, <1>5
<1>8. StakeOf(s) = Sum(f) /\ StakeOf(s)' = Sum(h)
  BY <1>2
<1>9. \A a \in Accounts \ {s} : StakeOf(a)' = StakeOf(a)
  BY <1>2, <1>3
<1> HIDE DEF f, h
<1>10. Sum(h) + f[p] = Sum(f) + h[p] /\ f[p] <= Sum(f)
  BY <1>6, <1>7, FiniteDomains, SumUpdate
<1> QED
  BY <1>7, <1>8, <1>9, <1>10

LEMMA StakeOnChange ==
    ASSUME IInv, IInv', NEW s \in Accounts, NEW p \in Providers, NEW w,
           StakeChanges(s, p, w)
    PROVE  /\ StakeOn(p)' + StakeNow(s, p) = StakeOn(p) + w
           /\ StakeNow(s, p) <= StakeOn(p)
           /\ \A q \in Providers \ {p} : StakeOn(q)' = StakeOn(q)
<1> DEFINE F(q) == [a \in Accounts |-> StakeNow(a, q)]
           H(q) == [a \in Accounts |-> StakeNow(a, q)']
<1>1. \A q \in Providers : F(q) \in [Accounts -> Nat] /\ H(q) \in [Accounts -> Nat]
  BY StakeNowType DEF StakeChanges
<1>2. \A q \in Providers : StakeOn(q) = Sum(F(q)) /\ StakeOn(q)' = Sum(H(q))
  BY DEF StakeOn, StakeNow
<1>3. \A q \in Providers \ {p} : H(q) = F(q)
  BY DEF StakeChanges
<1>4. F(p)[s] = StakeNow(s, p) /\ H(p)[s] = w
  BY DEF StakeChanges
<1>5. \A a \in Accounts \ {s} : H(p)[a] = F(p)[a]
  BY DEF StakeChanges
<1> DEFINE f == F(p)
           h == H(p)
<1>6. f \in [Accounts -> Nat] /\ h \in [Accounts -> Nat]
  BY <1>1
<1>7. f[s] = StakeNow(s, p) /\ h[s] = w /\ \A a \in Accounts \ {s} : h[a] = f[a]
  BY <1>4, <1>5
<1>8. StakeOn(p) = Sum(f) /\ StakeOn(p)' = Sum(h)
  BY <1>2
<1>9. \A q \in Providers \ {p} : StakeOn(q)' = StakeOn(q)
  BY <1>2, <1>3
<1> HIDE DEF f, h
<1>10. Sum(h) + f[s] = Sum(f) + h[s] /\ f[s] <= Sum(f)
  BY <1>6, <1>7, FiniteDomains, SumUpdate
<1> QED
  BY <1>7, <1>8, <1>9, <1>10

LEMMA StakesTotalChange ==
    ASSUME IInv, IInv', NEW s \in Accounts, NEW p \in Providers, NEW w,
           StakeChanges(s, p, w)
    PROVE  /\ StakesTotal' + StakeNow(s, p) = StakesTotal + w
           /\ StakeNow(s, p) <= StakesTotal
<1> DEFINE f == [a \in Accounts |-> StakeOf(a)]
           h == [a \in Accounts |-> StakeOf(a)']
<1>1. /\ StakeOf(s)' + StakeNow(s, p) = StakeOf(s) + w
      /\ StakeNow(s, p) <= StakeOf(s)
      /\ \A a \in Accounts \ {s} : StakeOf(a)' = StakeOf(a)
  BY StakeOfChange
<1>2. \A a \in Accounts : StakeOf(a) \in Nat /\ StakeOf(a)' \in Nat
  <2>1. \A a \in Accounts : StakeOf(a) \in Nat
    BY StakeOfType
  <2>2. StakeNow(s, p) \in Nat /\ w \in Nat
    BY StakeNowType DEF StakeChanges
  <2>3. StakeOf(s)' \in Nat
    <3>1. [q \in Providers |-> StakeNow(s, q)'] \in [Providers -> Nat]
      BY StakeNowType DEF StakeChanges
    <3>2. StakeOf(s)' = Sum([q \in Providers |-> StakeNow(s, q)'])
      BY DEF StakeOf, StakeNow
    <3> QED
      BY <3>1, <3>2, FiniteDomains, SumType
  <2> QED
    BY <1>1, <2>1, <2>3
<1>3. f \in [Accounts -> Nat] /\ h \in [Accounts -> Nat]
  BY <1>2
<1>4. f[s] = StakeOf(s) /\ h[s] = StakeOf(s)'
      /\ \A a \in Accounts \ {s} : h[a] = f[a]
  BY <1>1
<1>5. StakesTotal = Sum(f) /\ StakesTotal' = Sum(h)
  BY DEF StakesTotal
<1> HIDE DEF f, h
<1>6. /\ Sum(h) + f[s] = Sum(f) + h[s] /\ f[s] <= Sum(f)
      /\ {Sum(f), Sum(h)} \subseteq Nat
  BY <1>3, <1>4, FiniteDomains, SumUpdate
<1>7. StakeNow(s, p) \in Nat /\ w \in Nat
  BY StakeNowType DEF StakeChanges
<1> QED
  BY <1>1, <1>2, <1>4, <1>5, <1>6, <1>7

LEMMA StakersOnChange ==
    ASSUME IInv, NEW s \in Accounts, NEW p \in Providers, NEW w,
           StakeChanges(s, p, w)
    PROVE  /\ StakersOn(p)' = IF w > 0 THEN StakersOn(p) \cup {s}
                                       ELSE StakersOn(p) \ {s}
           /\ \A q \in Providers \ {p} : StakersOn(q)' = StakersOn(q)
  BY DEF StakersOn, StakeChanges

LEMMA StakersOnFinite ==
    ASSUME NEW p
    PROVE  IsFiniteSet(StakersOn(p)) /\ Cardinality(StakersOn(p)) \in Nat
<1>1. StakersOn(p) \in SUBSET Accounts
  BY DEF StakersOn
<1> QED
  BY <1>1, FiniteDomains, FS_Subset, FS_CardinalityType

(* A write to the history of one pairing.                                  *)
LEMMA HistoryWrite ==
    ASSUME IInv, NEW s \in Accounts, NEW p \in Providers,
           NEW t, InOrder(t, currentEra), UpdateStakerInfo(s, p, t)
    PROVE  /\ StakeChanges(s, p, LatestStakedValue(t))
           /\ \A a \in Accounts, q \in Providers :
                  stakerInfo'[a][q] = IF a = s /\ q = p THEN t ELSE stakerInfo[a][q]
<1>1. HistoriesOK /\ currentEra \in Nat
  BY TypeParts DEF IInv, ErasOK
<1>2. stakerInfo' = [stakerInfo EXCEPT ![s] = [stakerInfo[s] EXCEPT ![p] = t]]
  BY DEF UpdateStakerInfo
<1>3. \A a \in Accounts, q \in Providers :
          stakerInfo'[a][q] = IF a = s /\ q = p THEN t ELSE stakerInfo[a][q]
  BY <1>1, <1>2 DEF HistoriesOK
<1>4. LatestStakedValue(t) \in Nat
  BY <1>1, LatestType
<1> QED
  BY <1>3, <1>4 DEF StakeChanges, StakeNow

LEMMA SameStakes ==
    ASSUME stakerInfo' = stakerInfo
    PROVE  /\ \A s \in Accounts : StakeOf(s)' = StakeOf(s)
           /\ \A p \in Providers : StakeOn(p)' = StakeOn(p)
           /\ \A p \in Providers : StakersOn(p)' = StakersOn(p)
           /\ StakesTotal' = StakesTotal
<1>1. \A s \in Accounts : StakeOf(s)' = StakeOf(s)
  BY DEF StakeOf
<1>2. \A p \in Providers : StakeOn(p)' = StakeOn(p)
  BY DEF StakeOn
<1>3. \A p \in Providers : StakersOn(p)' = StakersOn(p)
  BY DEF StakersOn, StakeNow
<1>4. [s \in Accounts |-> StakeOf(s)'] = [s \in Accounts |-> StakeOf(s)]
  BY <1>1
<1> QED
  BY <1>1, <1>2, <1>3, <1>4 DEF StakesTotal
-------------------------------------------------------------------------------
(* The writes to the books *)

LEMMA LedgerWrite ==
    ASSUME IInv, NEW s \in Accounts, NEW b \in Account, NEW l, IsLedger(l),
           IsChunks(l.unbonding), UpdateLedger(s, b, l)
    PROVE  /\ ledger'[s].locked = l.locked
           /\ ledger'[s].unbonding = l.unbonding
           /\ \A a \in Accounts \ {s} : ledger'[a] = ledger[a]
           /\ account'[s].reserved = b.reserved
           /\ account'[s].free = b.free
           /\ \A a \in Accounts \ {s} : account'[a] = account[a]
<1> DEFINE empty == l.locked = 0 /\ DOMAIN l.unbonding = {}
           newLedger == IF empty THEN EmptyLedger ELSE l
           newAccount == IF empty THEN RemoveLock(b) ELSE SetLock(b, l.locked)
<1>1. AccountsOK /\ LedgersOK
  BY TypeParts DEF IInv
<1>2. /\ ledger' = [ledger EXCEPT ![s] = newLedger]
      /\ account' = [account EXCEPT ![s] = newAccount]
  BY DEF UpdateLedger
<1>3. newLedger.locked = l.locked /\ newLedger.unbonding = l.unbonding
  BY DEF EmptyLedger, NoChunks, IsChunks
<1>4. newAccount.reserved = b.reserved /\ newAccount.free = b.free
  BY DEF RemoveLock, SetLock, Account
<1> HIDE DEF newLedger, newAccount
<1>5. ledger'[s] = newLedger /\ \A a \in Accounts \ {s} : ledger'[a] = ledger[a]
  BY <1>1, <1>2 DEF LedgersOK
<1>6. account'[s] = newAccount /\ \A a \in Accounts \ {s} : account'[a] = account[a]
  BY <1>1, <1>2 DEF AccountsOK
<1> QED
  BY <1>3, <1>4, <1>5, <1>6

LEMMA LockedTotalType ==
    ASSUME IInv
    PROVE  LockedTotal \in Nat
<1> DEFINE f == [a \in Accounts |-> ledger[a].locked]
<1>1. f \in [Accounts -> Nat]
  BY AccountBacked
<1>2. LockedTotal = Sum(f)
  BY DEF LockedTotal
<1> HIDE DEF f
<1> QED
  BY <1>1, <1>2, FiniteDomains, SumType

LEMMA LockedTotalChange ==
    ASSUME IInv, NEW s \in Accounts, NEW n \in Nat,
           ledger'[s].locked = n, \A a \in Accounts \ {s} : ledger'[a] = ledger[a]
    PROVE  /\ LockedTotal' + ledger[s].locked = LockedTotal + n
           /\ ledger[s].locked <= LockedTotal
<1> DEFINE f == [a \in Accounts |-> ledger[a].locked]
           h == [a \in Accounts |-> ledger'[a].locked]
<1>1. \A a \in Accounts : ledger[a].locked \in Nat
  BY AccountBacked
<1>2. f \in [Accounts -> Nat] /\ h \in [Accounts -> Nat]
  BY <1>1
<1>3. f[s] = ledger[s].locked /\ h[s] = n /\ \A a \in Accounts \ {s} : h[a] = f[a]
  OBVIOUS
<1>4. LockedTotal = Sum(f) /\ LockedTotal' = Sum(h)
  BY DEF LockedTotal
<1> HIDE DEF f, h
<1> QED
  BY <1>2, <1>3, <1>4, FiniteDomains, SumUpdate

LEMMA SameLedgers ==
    ASSUME ledger' = ledger
    PROVE  LockedTotal' = LockedTotal
  BY DEF LockedTotal

(* The update of the current era's record.                                 *)
LEMMA EraInfoWrite ==
    ASSUME IInv, ErasKnown, InBlock, NEW x \in Nat, NEW y \in Nat,
           UpdateEraInfo(x, y), currentEra' = currentEra
    PROVE  /\ ErasKnown'
           /\ EraInfoAt(currentEra)'.staked = x
           /\ EraInfoAt(currentEra)'.locked = y
           /\ \A e \in DOMAIN generalEraInfo :
                  /\ generalEraInfo'[e].rewards = generalEraInfo[e].rewards
                  /\ e # currentEra => generalEraInfo'[e] = generalEraInfo[e]
<1>1. currentEra \in Nat /\ currentEra > 0
  BY TypeParts DEF IInv, ErasOK, InBlock
<1>2. currentEra \in DOMAIN generalEraInfo
  BY <1>1 DEF ErasKnown
<1> DEFINE new == [rewards |-> generalEraInfo[currentEra].rewards,
                   staked |-> x, locked |-> y]
<1>3. generalEraInfo' = [generalEraInfo EXCEPT ![currentEra] = new]
  BY <1>2 DEF UpdateEraInfo
<1>4. /\ DOMAIN generalEraInfo' = DOMAIN generalEraInfo
      /\ generalEraInfo'[currentEra] = new
      /\ \A e \in DOMAIN generalEraInfo :
             e # currentEra => generalEraInfo'[e] = generalEraInfo[e]
  BY <1>2, <1>3
<1>5. EraInfoAt(currentEra)' = new
  BY <1>2, <1>4 DEF EraInfoAt, Get
<1>6. ErasKnown'
  BY <1>4 DEF ErasKnown
<1> QED
  BY <1>4, <1>5, <1>6

(* The record of p for era e becomes x, all others stay.                   *)
RecordWritten(p, e, x) ==
    providerEraStake' = [providerEraStake EXCEPT ![p] =
                            Insert(providerEraStake[p], e, x)]

RecordBecomes(p, e, x) ==
    /\ DOMAIN providerEraStake'[p] = DOMAIN providerEraStake[p] \cup {e}
    /\ \A q \in Providers \ {p} : providerEraStake'[q] = providerEraStake[q]
    /\ \A q \in Providers : \A k :
           ProviderStakeAt(q, k)' = IF q = p /\ k = e THEN x
                                    ELSE ProviderStakeAt(q, k)

LEMMA RecordWrite ==
    ASSUME IInv, NEW p \in Providers, NEW e, NEW x, RecordWritten(p, e, x)
    PROVE  RecordBecomes(p, e, x)
<1>1. DOMAIN providerEraStake = Providers
  BY TypeParts DEF IInv, EraStakesOK
<1>2. /\ providerEraStake'[p] = Insert(providerEraStake[p], e, x)
      /\ \A q \in Providers \ {p} : providerEraStake'[q] = providerEraStake[q]
  BY <1>1 DEF RecordWritten
<1>3. DOMAIN providerEraStake'[p] = DOMAIN providerEraStake[p] \cup {e}
  BY <1>2 DEF Insert
<1>4. ASSUME NEW k
      PROVE  ProviderStakeAt(p, k)' = IF k = e THEN x ELSE ProviderStakeAt(p, k)
  BY <1>2 DEF ProviderStakeAt, Get, Insert
<1>5. ASSUME NEW k, NEW q \in Providers \ {p}
      PROVE  ProviderStakeAt(q, k)' = ProviderStakeAt(q, k)
  BY <1>2 DEF ProviderStakeAt, Get
<1> QED
  BY <1>2, <1>3, <1>4, <1>5 DEF RecordBecomes
-------------------------------------------------------------------------------
(* Deposits *)

DepositsOf(a) ==
    {p \in DOMAIN registeredProviders :
        /\ registeredProviders[p].operator = a
        /\ ~registeredProviders[p].unreserved}

LEMMA DepositsReservedDef ==
    DepositsReserved <=>
        \A a \in Accounts :
            account[a].reserved = RegisterDeposit * Cardinality(DepositsOf(a))
  BY DEF DepositsReserved, DepositsOf

LEMMA DepositsReservedNextDef ==
    DepositsReserved' <=>
        \A a \in Accounts :
            account'[a].reserved = RegisterDeposit * Cardinality(DepositsOf(a)')
  BY DEF DepositsReserved, DepositsOf

LEMMA DepositsFinite ==
    ASSUME IInv, NEW a
    PROVE  IsFiniteSet(DepositsOf(a)) /\ Cardinality(DepositsOf(a)) \in Nat
<1>1. DepositsOf(a) \in SUBSET Providers
  BY TypeParts DEF IInv, ProvidersOK, DepositsOf
<1> QED
  BY <1>1, FiniteDomains, FS_Subset, FS_CardinalityType

LEMMA SameDeposits ==
    ASSUME DepositsReserved,
           \A a \in Accounts : DepositsOf(a)' = DepositsOf(a),
           \A a \in Accounts : account'[a].reserved = account[a].reserved
    PROVE  DepositsReserved'
  BY DepositsReservedDef, DepositsReservedNextDef
-------------------------------------------------------------------------------
(* The latest stake after each method of StakerInfo *)

LEMMA LatestAfterAdd ==
    ASSUME NEW t, NEW e \in Nat, InOrder(t, e), NEW v \in Nat
    PROVE  LatestStakedValue(AddStake(t, e, v)) = LatestStakedValue(t) + v
<1> DEFINE n == LatestStakedValue(t) + v
<1>1. n \in Nat
  BY LatestType
<1> HIDE DEF n
<1>2. LatestWritten(t, e, n, SetLatest(t, e, n))
  BY <1>1, SetLatestProperties DEF InOrder
<1>3. LatestStakedValue(SetLatest(t, e, n)) = n
  BY <1>2, LatestIsStakedAt DEF LatestWritten
<1> QED
  BY <1>3 DEF AddStake, n

LEMMA LatestAfterRemove ==
    ASSUME NEW t, NEW e \in Nat, InOrder(t, e), NEW v \in Nat
    PROVE  LatestStakedValue(RemoveStake(t, e, v)) = SaturatingSub(LatestStakedValue(t), v)
<1> DEFINE n == SaturatingSub(LatestStakedValue(t), v)
           u == SetLatest(t, e, n)
<1>1. n \in Nat
  BY LatestType, SaturatingSubType
<1>2. CASE t = <<>>
  BY <1>2 DEF RemoveStake, LatestStakedValue, SaturatingSub
<1>3. CASE t # <<>>
  <2> HIDE DEF n
  <2>1. LatestWritten(t, e, n, u)
    BY <1>1, SetLatestProperties DEF InOrder
  <2>2. u \in Seq(EraStake) /\ Sorted(u) /\ NotAhead(u, e) /\ StakedAt(u, e) = n
    BY <2>1 DEF LatestWritten
  <2> HIDE DEF u
  <2>3. StakedAt(DropUnstakedHead(u), e) = StakedAt(u, e)
    BY <2>2, DropUnstakedHeadProperties
  <2>4. InOrder(DropUnstakedHead(u), e)
    BY <2>2, DropInOrder DEF InOrder
  <2>5. LatestStakedValue(DropUnstakedHead(u)) = n
    BY <2>2, <2>3, <2>4, LatestIsStakedAt DEF InOrder
  <2> QED
    BY <1>3, <2>5 DEF RemoveStake, n, u
<1> QED
  BY <1>2, <1>3

LEMMA LatestAfterClaim ==
    ASSUME NEW t, NEW e \in Nat, InOrder(t, e), t # <<>>, t[1].era < e
    PROVE  LatestStakedValue(AfterClaim(t)) = LatestStakedValue(t)
<1> DEFINE a == AdvanceHead(t)
           h == t[1].era
<1>0. t \in Seq(EraStake) /\ Sorted(t) /\ NotAhead(t, e) /\ e # h
  BY VectorType DEF InOrder
<1>1. /\ a \in Seq(EraStake)
      /\ Sorted(a)
      /\ StakedAt(a, e) = StakedAt(t, e)
  BY <1>0, AdvanceHeadProperties
<1> HIDE DEF a
<1>2. StakedAt(DropUnstakedHead(a), e) = StakedAt(t, e)
  BY <1>1, DropUnstakedHeadProperties
<1>3. AfterClaim(t) = DropUnstakedHead(a)
  BY DEF AfterClaim, a
<1>4. InOrder(AfterClaim(t), e)
  BY AfterClaimInOrder
<1> QED
  BY <1>0, <1>2, <1>3, <1>4, LatestIsStakedAt DEF InOrder
-------------------------------------------------------------------------------
(* What the four calls that move stakes and locks do to the books *)

OtherLedgersKept(s) == \A a \in Accounts \ {s} : ledger'[a] = ledger[a]
OtherAccountsKept(s) == \A a \in Accounts \ {s} : account'[a] = account[a]
OtherHistoriesKept(s, p) ==
    \A a \in Accounts, q \in Providers :
        ~(a = s /\ q = p) => stakerInfo'[a][q] = stakerInfo[a][q]
RewardsAndPastKept ==
    \A e \in DOMAIN generalEraInfo :
        /\ generalEraInfo'[e].rewards = generalEraInfo[e].rewards
        /\ e # currentEra => generalEraInfo'[e] = generalEraInfo[e]

StakeMoved(s, p, b, n) ==
    /\ n \in Nat /\ n > 0
    /\ ledger'[s].locked = ledger[s].locked + n
    /\ ledger'[s].unbonding = ledger[s].unbonding
    /\ OtherLedgersKept(s)
    /\ account'[s].reserved = b.reserved
    /\ OtherAccountsKept(s)
    /\ stakerInfo'[s][p] = AddStake(stakerInfo[s][p], currentEra, n)
    /\ OtherHistoriesKept(s, p)
    /\ StakeChanges(s, p, StakeNow(s, p) + n)
    /\ ErasKnown'
    /\ EraInfoAt(currentEra)'.staked = EraInfoAt(currentEra).staked + n
    /\ EraInfoAt(currentEra)'.locked = EraInfoAt(currentEra).locked + n
    /\ RewardsAndPastKept
    /\ \E x \in ProviderStakeInfo :
           /\ RecordBecomes(p, currentEra, x)
           /\ x.total = ProviderStakeAt(p, currentEra).total + n
           /\ x.number_of_stakers = ProviderStakeAt(p, currentEra).number_of_stakers
                                       + (IF StakeNow(s, p) = 0 THEN 1 ELSE 0)
           /\ x.provider_reward_claimed =
                  ProviderStakeAt(p, currentEra).provider_reward_claimed

LEMMA StakeEffects ==
    ASSUME IInv, ChunksOK, ErasKnown, InBlock,
           NEW s \in Accounts, NEW p \in Providers, NEW b, Backed(b),
           NEW value \in Nat, StakeChecks(s, p, b, value),
           StakeWrites(s, p, b, value), currentEra' = currentEra
    PROVE  StakeMoved(s, p, b, StakeAmount(s, b, value))
<1> DEFINE n == StakeAmount(s, b, value)
           t == stakerInfo[s][p]
           info == ProviderStakeAt(p, currentEra)
           l == [ledger[s] EXCEPT !.locked = ledger[s].locked + n]
           arrives == IF LatestStakedValue(t) = 0 THEN 1 ELSE 0
           x == [info EXCEPT
                    !.total = info.total + n,
                    !.number_of_stakers = info.number_of_stakers + arrives]
<1>0. b.free \in Nat /\ MinimumRemainingAmount \in Nat /\ currentEra \in Nat
  BY DapiStakingAssumption, TypeParts DEF Backed, Account, IInv, ErasOK
<1>1. ledger[s].locked \in Nat /\ IsLedger(ledger[s]) /\ IsChunks(ledger[s].unbonding)
  BY AccountBacked DEF ChunksOK
<1>2. n \in Nat /\ n > 0
  <2>1. n > 0
    BY DEF StakeChecks
  <2> QED
    BY <1>0, <1>1, <2>1
       DEF StakeAmount, Lesser, AvailableStakingBalance, SaturatingSub
<1>3. /\ UpdateLedger(s, b, l)
      /\ UpdateEraInfo(EraInfoAt(currentEra).staked + n,
                       EraInfoAt(currentEra).locked + n)
      /\ UpdateStakerInfo(s, p, AddStake(t, currentEra, n))
      /\ providerEraStake' = [providerEraStake EXCEPT ![p] =
             Insert(providerEraStake[p], currentEra, x)]
  BY DEF StakeWrites
<1> HIDE DEF n
<1>4. /\ ledger'[s].locked = ledger[s].locked + n
      /\ ledger'[s].unbonding = ledger[s].unbonding
      /\ OtherLedgersKept(s)
      /\ account'[s].reserved = b.reserved
      /\ OtherAccountsKept(s)
  <2>1. /\ IsLedger(l) /\ l.locked = ledger[s].locked + n
        /\ l.unbonding = ledger[s].unbonding /\ IsChunks(l.unbonding)
    BY <1>1, <1>2, LedgerRelocked DEF IsLedger
  <2> HIDE DEF l
  <2> QED
    BY <1>3, <2>1, LedgerWrite DEF Backed, OtherLedgersKept, OtherAccountsKept
<1>5. /\ stakerInfo'[s][p] = AddStake(t, currentEra, n)
      /\ OtherHistoriesKept(s, p)
      /\ StakeChanges(s, p, StakeNow(s, p) + n)
  <2>1. InOrder(t, currentEra)
    BY HistoryInOrder
  <2>2. InOrder(AddStake(t, currentEra, n), currentEra)
    BY <1>0, <1>2, <2>1, AddStakeInOrder
  <2>3. LatestStakedValue(AddStake(t, currentEra, n)) = StakeNow(s, p) + n
    BY <1>0, <1>2, <2>1, LatestAfterAdd DEF StakeNow
  <2> QED
    BY <1>3, <2>2, <2>3, HistoryWrite DEF OtherHistoriesKept
<1>6. /\ ErasKnown'
      /\ EraInfoAt(currentEra)'.staked = EraInfoAt(currentEra).staked + n
      /\ EraInfoAt(currentEra)'.locked = EraInfoAt(currentEra).locked + n
      /\ RewardsAndPastKept
  <2>1. /\ EraInfoAt(currentEra).staked + n \in Nat
        /\ EraInfoAt(currentEra).locked + n \in Nat
    BY <1>2, EraInfoType
  <2> QED
    BY <1>3, <2>1, EraInfoWrite DEF RewardsAndPastKept
<1>7. \E y \in ProviderStakeInfo :
           /\ RecordBecomes(p, currentEra, y)
           /\ y.total = info.total + n
           /\ y.number_of_stakers = info.number_of_stakers
                                       + (IF StakeNow(s, p) = 0 THEN 1 ELSE 0)
           /\ y.provider_reward_claimed = info.provider_reward_claimed
  <2>1. info \in ProviderStakeInfo /\ info.total \in Nat /\ info.number_of_stakers \in Nat
    BY StakeInfoType
  <2>2. info.total + n \in Nat /\ info.number_of_stakers + arrives \in Nat
    BY <1>2, <2>1
  <2>3. /\ x \in ProviderStakeInfo
        /\ x.total = info.total + n
        /\ x.number_of_stakers = info.number_of_stakers + arrives
        /\ x.provider_reward_claimed = info.provider_reward_claimed
    BY <2>1, <2>2 DEF ProviderStakeInfo
  <2> HIDE DEF x
  <2>4. RecordBecomes(p, currentEra, x)
    <3>1. RecordWritten(p, currentEra, x)
      BY <1>3 DEF RecordWritten
    <3> QED
      BY <3>1, RecordWrite
  <2> QED
    BY <2>3, <2>4 DEF StakeNow
<1> QED
  BY <1>2, <1>4, <1>5, <1>6, <1>7 DEF StakeMoved, n

StakeRemoved(s, p, v, n) ==
    /\ n \in Nat /\ n > 0 /\ n <= StakeNow(s, p)
    /\ ledger'[s].locked = ledger[s].locked
    /\ ledger'[s].unbonding = ChunksAfterUnstake(s, n)
    /\ OtherLedgersKept(s)
    /\ account'[s].reserved = account[s].reserved
    /\ OtherAccountsKept(s)
    /\ stakerInfo'[s][p] = RemoveStake(stakerInfo[s][p], currentEra, n)
    /\ OtherHistoriesKept(s, p)
    /\ StakeChanges(s, p, StakeNow(s, p) - n)
    /\ StakeNow(s, p) - n = 0 \/ StakeNow(s, p) - n >= MinimumStakingAmount
    /\ ErasKnown'
    /\ EraInfoAt(currentEra)'.staked = SaturatingSub(EraInfoAt(currentEra).staked, n)
    /\ EraInfoAt(currentEra)'.locked = EraInfoAt(currentEra).locked
    /\ RewardsAndPastKept
    /\ \E x \in ProviderStakeInfo :
           /\ RecordBecomes(p, currentEra, x)
           /\ x.total = SaturatingSub(ProviderStakeAt(p, currentEra).total, n)
           /\ x.number_of_stakers =
                  IF StakeNow(s, p) = n
                  THEN SaturatingSub(ProviderStakeAt(p, currentEra).number_of_stakers, 1)
                  ELSE ProviderStakeAt(p, currentEra).number_of_stakers
           /\ x.provider_reward_claimed =
                  ProviderStakeAt(p, currentEra).provider_reward_claimed

LEMMA ChunksAfterUnstakeSum ==
    ASSUME IInv, ChunksOK, NEW s \in Accounts, NEW n \in Nat
    PROVE  /\ IsChunks(ChunksAfterUnstake(s, n))
           /\ Sum(ChunksAfterUnstake(s, n)) = Sum(ledger[s].unbonding) + n
           /\ Sum(ledger[s].unbonding) \in Nat
           /\ \A e \in DOMAIN ChunksAfterUnstake(s, n) : e \in Nat
<1> DEFINE c == ledger[s].unbonding
           u == currentEra + UnbondingPeriod
           d == ChunksAfterUnstake(s, n)
           S == DOMAIN c
<1>1. IsFiniteSet(S) /\ c \in [S -> Nat] /\ IsLedger(ledger[s])
  BY AccountBacked DEF ChunksOK, IsChunks
<1>2. u \in Nat
  BY DapiStakingAssumption, TypeParts DEF IInv, ErasOK
<1>3. \A e \in S : e \in Nat
  BY <1>1 DEF IsLedger
<1>4. /\ d \in [S \cup {u} -> Nat]
      /\ d[u] = (IF u \in S THEN c[u] ELSE 0) + n
      /\ \A e \in S \ {u} : d[e] = c[e]
  BY <1>1 DEF ChunksAfterUnstake, Insert, Get
<1>5. IsFiniteSet(S \cup {u})
  BY <1>1, FS_AddElement
<1> HIDE DEF c, d, u, S
<1>6. Sum(c) \in Nat
  BY <1>1, SumType
<1>7. IsChunks(d)
  BY <1>4, <1>5 DEF IsChunks, S
<1>8. Sum(d) = Sum(c) + n
  <2>1. CASE u \in S
    <3>1. d \in [S -> Nat] /\ d[u] = c[u] + n /\ \A e \in S \ {u} : d[e] = c[e]
      <4>1. S \cup {u} = S
        BY <2>1
      <4> QED
        BY <1>4, <2>1, <4>1
    <3>2. /\ Sum(d) + c[u] = Sum(c) + d[u]
          /\ {Sum(c), Sum(d), c[u], d[u]} \subseteq Nat
      BY <1>1, <2>1, <3>1, SumUpdate
    <3> QED
      BY <3>1, <3>2
  <2>2. CASE u \notin S
    <3>1. \A e \in S : d[e] = c[e]
      BY <1>4, <2>2
    <3>2. Sum(d) = Sum(c) + d[u]
      BY <1>1, <1>4, <2>2, <3>1, SumInsert
    <3>3. d[u] = n
      BY <1>4, <2>2
    <3> QED
      BY <3>2, <3>3
  <2> QED
    BY <2>1, <2>2
<1> QED
  BY <1>2, <1>3, <1>4, <1>6, <1>7, <1>8 DEF c, d, S

LEMMA UnstakeEffects ==
    ASSUME IInv, ChunksOK, ErasKnown, NEW s \in Accounts, NEW p \in Providers,
           NEW v \in UnstakeAmounts, Unstake(s, p, v)
    PROVE  /\ StakeRemoved(s, p, v, UnstakeAmount(s, p, v))
           /\ InBlock /\ IsActiveProvider(p)
           /\ UNCHANGED <<currentEra, pot, accumulator, receipts, registeredProviders>>
<1> DEFINE n == UnstakeAmount(s, p, v)
           t == stakerInfo[s][p]
           chunks == ChunksAfterUnstake(s, n)
           info == ProviderStakeAt(p, currentEra)
           l == [ledger[s] EXCEPT !.unbonding = chunks]
           x == [info EXCEPT
                    !.total = SaturatingSub(info.total, n),
                    !.number_of_stakers = StakersAfterUnstake(s, p, v)]
<1>1. /\ InBlock /\ IsActiveProvider(p) /\ LatestStakedValue(t) > 0 /\ n > 0
      /\ UpdateLedger(s, account[s], l)
      /\ UpdateEraInfo(SaturatingSub(EraInfoAt(currentEra).staked, n),
                       EraInfoAt(currentEra).locked)
      /\ UpdateStakerInfo(s, p, RemoveStake(t, currentEra, n))
      /\ RecordWritten(p, currentEra, x)
      /\ UNCHANGED <<currentEra, pot, accumulator, receipts, registeredProviders>>
  BY DEF Unstake, eraVars, rewardVars, RecordWritten
<1>2. /\ v \in Nat /\ currentEra \in Nat /\ MinimumStakingAmount \in Nat \ {0}
      /\ StakeNow(s, p) \in Nat /\ LatestStakedValue(t) = StakeNow(s, p)
  BY DapiStakingAssumption, TypeParts, StakeNowType DEF IInv, ErasOK, StakeNow
<1>3. /\ n \in Nat /\ n <= StakeNow(s, p)
      /\ StakeNow(s, p) - n = 0 \/ StakeNow(s, p) - n >= MinimumStakingAmount
      /\ StakersAfterUnstake(s, p, v) =
             IF StakeNow(s, p) = n THEN SaturatingSub(info.number_of_stakers, 1)
                                   ELSE info.number_of_stakers
  BY <1>2 DEF UnstakeAmount, SaturatingSub, StakersAfterUnstake
<1> HIDE DEF n
<1>4. /\ ledger'[s].locked = ledger[s].locked
      /\ ledger'[s].unbonding = chunks
      /\ OtherLedgersKept(s)
      /\ account'[s].reserved = account[s].reserved
      /\ OtherAccountsKept(s)
  <2>1. Backed(account[s]) /\ IsLedger(ledger[s])
    BY AccountBacked
  <2>2. IsChunks(chunks) /\ \A e \in DOMAIN chunks : e \in Nat
    BY <1>3, ChunksAfterUnstakeSum
  <2> HIDE DEF chunks
  <2>3. /\ IsLedger(l) /\ l.locked = ledger[s].locked
        /\ l.unbonding = chunks /\ IsChunks(l.unbonding)
    BY <2>1, <2>2 DEF IsLedger, IsChunks
  <2> HIDE DEF l
  <2> QED
    BY <1>1, <2>1, <2>3, LedgerWrite DEF Backed, OtherLedgersKept, OtherAccountsKept
<1>5. /\ stakerInfo'[s][p] = RemoveStake(t, currentEra, n)
      /\ OtherHistoriesKept(s, p)
      /\ StakeChanges(s, p, StakeNow(s, p) - n)
  <2>1. InOrder(t, currentEra)
    BY HistoryInOrder
  <2>2. InOrder(RemoveStake(t, currentEra, n), currentEra)
    BY <1>2, <2>1, RemoveStakeInOrder
  <2>3. LatestStakedValue(RemoveStake(t, currentEra, n)) = SaturatingSub(StakeNow(s, p), n)
    BY <1>2, <1>3, <2>1, LatestAfterRemove
  <2>4. SaturatingSub(StakeNow(s, p), n) = StakeNow(s, p) - n
    BY <1>2, <1>3 DEF SaturatingSub
  <2> QED
    BY <1>1, <2>2, <2>3, <2>4, HistoryWrite DEF OtherHistoriesKept
<1>6. /\ ErasKnown'
      /\ EraInfoAt(currentEra)'.staked = SaturatingSub(EraInfoAt(currentEra).staked, n)
      /\ EraInfoAt(currentEra)'.locked = EraInfoAt(currentEra).locked
      /\ RewardsAndPastKept
  <2>1. /\ SaturatingSub(EraInfoAt(currentEra).staked, n) \in Nat
        /\ EraInfoAt(currentEra).locked \in Nat
    BY EraInfoType, SaturatingSubType
  <2> QED
    BY <1>1, <2>1, EraInfoWrite DEF RewardsAndPastKept
<1>7. \E y \in ProviderStakeInfo :
           /\ RecordBecomes(p, currentEra, y)
           /\ y.total = SaturatingSub(info.total, n)
           /\ y.number_of_stakers =
                  IF StakeNow(s, p) = n THEN SaturatingSub(info.number_of_stakers, 1)
                                        ELSE info.number_of_stakers
           /\ y.provider_reward_claimed = info.provider_reward_claimed
  <2>1. info \in ProviderStakeInfo /\ info.total \in Nat /\ info.number_of_stakers \in Nat
    BY StakeInfoType
  <2>2. SaturatingSub(info.total, n) \in Nat /\ StakersAfterUnstake(s, p, v) \in Nat
    BY <1>3, <2>1, SaturatingSubType
  <2>3. /\ x \in ProviderStakeInfo
        /\ x.total = SaturatingSub(info.total, n)
        /\ x.number_of_stakers = StakersAfterUnstake(s, p, v)
        /\ x.provider_reward_claimed = info.provider_reward_claimed
    BY <2>1, <2>2 DEF ProviderStakeInfo
  <2> HIDE DEF x
  <2>4. RecordBecomes(p, currentEra, x)
    BY <1>1, RecordWrite
  <2> QED
    BY <1>3, <2>3, <2>4
<1> QED
  BY <1>1, <1>3, <1>4, <1>5, <1>6, <1>7 DEF StakeRemoved, n

ChunksWithdrawn(s, n) ==
    /\ n \in Nat
    /\ n = Sum(Restrict(ledger[s].unbonding, Unlocked(s)))
    /\ ledger'[s].locked = SaturatingSub(ledger[s].locked, n)
    /\ ledger'[s].unbonding =
           Restrict(ledger[s].unbonding, DOMAIN ledger[s].unbonding \ Unlocked(s))
    /\ IsChunks(ledger'[s].unbonding)
    /\ n + Sum(ledger'[s].unbonding) = Sum(ledger[s].unbonding)
    /\ Sum(ledger'[s].unbonding) \in Nat
    /\ OtherLedgersKept(s)
    /\ account'[s].reserved = account[s].reserved
    /\ OtherAccountsKept(s)
    /\ ErasKnown'
    /\ EraInfoAt(currentEra)'.staked = EraInfoAt(currentEra).staked
    /\ EraInfoAt(currentEra)'.locked = SaturatingSub(EraInfoAt(currentEra).locked, n)
    /\ RewardsAndPastKept

LEMMA WithdrawUnstakedEffects ==
    ASSUME IInv, ChunksOK, ErasKnown, NEW s \in Accounts, WithdrawUnstaked(s)
    PROVE  /\ \E n \in Nat : ChunksWithdrawn(s, n)
           /\ InBlock
           /\ UNCHANGED <<currentEra, pot, accumulator, receipts,
                          registeredProviders, providerEraStake, stakerInfo>>
<1> DEFINE chunks == ledger[s].unbonding
           n == Sum(Restrict(chunks, Unlocked(s)))
           rest == SaturatingSub(ledger[s].locked, n)
           future == Restrict(chunks, DOMAIN chunks \ Unlocked(s))
           l == [locked |-> rest, unbonding |-> future]
<1>1. /\ InBlock
      /\ UpdateLedger(s, account[s], l)
      /\ UpdateEraInfo(EraInfoAt(currentEra).staked,
                       SaturatingSub(EraInfoAt(currentEra).locked, n))
      /\ UNCHANGED <<currentEra, pot, accumulator, receipts,
                     registeredProviders, providerEraStake, stakerInfo>>
  BY DEF WithdrawUnstaked, eraVars, rewardVars, ChunkSum
<1>2. /\ Backed(account[s]) /\ IsLedger(ledger[s]) /\ IsChunks(chunks)
      /\ ledger[s].locked \in Nat
  BY AccountBacked DEF ChunksOK
<1>3. /\ n \in Nat /\ Sum(future) \in Nat /\ n + Sum(future) = Sum(chunks)
  <2>1. Unlocked(s) \in SUBSET DOMAIN chunks
    BY DEF Unlocked
  <2> DEFINE S == DOMAIN chunks
  <2>2. IsFiniteSet(S) /\ chunks \in [S -> Nat] /\ Unlocked(s) \in SUBSET S
    BY <1>2, <2>1 DEF IsChunks
  <2> HIDE DEF S, chunks
  <2>3. /\ Sum(Restrict(chunks, Unlocked(s))) \in Nat
        /\ Sum(Restrict(chunks, S \ Unlocked(s))) \in Nat
        /\ Sum(chunks) = Sum(Restrict(chunks, Unlocked(s)))
                            + Sum(Restrict(chunks, S \ Unlocked(s)))
    BY <2>2, SumSplit
  <2> QED
    BY <2>3 DEF S
<1>4. IsChunks(future) /\ \A e \in DOMAIN future : e \in Nat
  <2>1. /\ DOMAIN future \in SUBSET DOMAIN chunks
        /\ \A e \in DOMAIN future : future[e] = chunks[e]
        /\ future \in [DOMAIN future -> Nat]
    BY <1>2 DEF Restrict, IsChunks
  <2>2. IsFiniteSet(DOMAIN future)
    BY <1>2, <2>1, FS_Subset DEF IsChunks
  <2>3. \A e \in DOMAIN future : e \in Nat
    BY <1>2, <2>1 DEF IsLedger
  <2> QED
    BY <2>1, <2>2, <2>3 DEF IsChunks
<1>5. rest \in Nat
  BY <1>2, SaturatingSubType
<1> HIDE DEF n
<1>6. /\ ledger'[s].locked = rest
      /\ ledger'[s].unbonding = future
      /\ OtherLedgersKept(s)
      /\ account'[s].reserved = account[s].reserved
      /\ OtherAccountsKept(s)
  <2> HIDE DEF future, rest
  <2>1. /\ IsLedger(l) /\ l.locked = rest
        /\ l.unbonding = future /\ IsChunks(l.unbonding)
    BY <1>4, <1>5 DEF IsLedger, IsChunks
  <2> HIDE DEF l
  <2> QED
    BY <1>1, <1>2, <2>1, LedgerWrite DEF Backed, OtherLedgersKept, OtherAccountsKept
<1>7. /\ ErasKnown'
      /\ EraInfoAt(currentEra)'.staked = EraInfoAt(currentEra).staked
      /\ EraInfoAt(currentEra)'.locked = SaturatingSub(EraInfoAt(currentEra).locked, n)
      /\ RewardsAndPastKept
  <2>1. /\ SaturatingSub(EraInfoAt(currentEra).locked, n) \in Nat
        /\ EraInfoAt(currentEra).staked \in Nat
    BY EraInfoType, SaturatingSubType
  <2> QED
    BY <1>1, <2>1, EraInfoWrite DEF RewardsAndPastKept
<1>8. ChunksWithdrawn(s, n)
  <2>1. n = Sum(Restrict(chunks, Unlocked(s)))
    BY DEF n
  <2> HIDE DEF future
  <2>2. /\ ledger'[s].unbonding = future
        /\ IsChunks(ledger'[s].unbonding)
        /\ n + Sum(ledger'[s].unbonding) = Sum(chunks)
        /\ Sum(ledger'[s].unbonding) \in Nat
    BY <1>3, <1>4, <1>6
  <2> QED
    BY <1>3, <1>6, <1>7, <2>1, <2>2 DEF ChunksWithdrawn, future
<1> QED
  BY <1>1, <1>3, <1>8

StakeWithdrawn(s, p, n) ==
    /\ n \in Nat /\ n > 0 /\ n = StakeNow(s, p)
    /\ ledger'[s].locked = SaturatingSub(ledger[s].locked, n)
    /\ ledger'[s].unbonding = ledger[s].unbonding
    /\ OtherLedgersKept(s)
    /\ account'[s].reserved = account[s].reserved
    /\ OtherAccountsKept(s)
    /\ stakerInfo'[s][p] = <<>>
    /\ OtherHistoriesKept(s, p)
    /\ StakeChanges(s, p, 0)
    /\ ErasKnown'
    /\ EraInfoAt(currentEra)'.staked = SaturatingSub(EraInfoAt(currentEra).staked, n)
    /\ EraInfoAt(currentEra)'.locked = SaturatingSub(EraInfoAt(currentEra).locked, n)
    /\ RewardsAndPastKept

LEMMA WithdrawStakerEffects ==
    ASSUME IInv, ChunksOK, ErasKnown, NEW s \in Accounts, NEW p \in Providers,
           WithdrawFromUnregisteredStaker(s, p)
    PROVE  /\ StakeWithdrawn(s, p, StakeNow(s, p))
           /\ InBlock /\ UnbondedSinceUnregistered(p)
           /\ UNCHANGED <<currentEra, pot, accumulator, receipts,
                          registeredProviders, providerEraStake>>
<1> DEFINE n == LatestStakedValue(stakerInfo[s][p])
           rest == SaturatingSub(ledger[s].locked, n)
           l == [ledger[s] EXCEPT !.locked = rest]
<1>1. /\ InBlock /\ UnbondedSinceUnregistered(p) /\ n > 0
      /\ UpdateLedger(s, account[s], l)
      /\ UpdateStakerInfo(s, p, <<>>)
      /\ UpdateEraInfo(SaturatingSub(EraInfoAt(currentEra).staked, n),
                       SaturatingSub(EraInfoAt(currentEra).locked, n))
      /\ UNCHANGED <<currentEra, pot, accumulator, receipts,
                     registeredProviders, providerEraStake>>
  BY DEF WithdrawFromUnregisteredStaker, eraVars, rewardVars, StakedAfterWithdraw
<1>2. n \in Nat /\ n = StakeNow(s, p)
  BY StakeNowType DEF StakeNow
<1> HIDE DEF n
<1>3. /\ ledger'[s].locked = rest
      /\ ledger'[s].unbonding = ledger[s].unbonding
      /\ OtherLedgersKept(s)
      /\ account'[s].reserved = account[s].reserved
      /\ OtherAccountsKept(s)
  <2>1. /\ Backed(account[s]) /\ IsLedger(ledger[s]) /\ ledger[s].locked \in Nat
        /\ IsChunks(ledger[s].unbonding)
    BY AccountBacked DEF ChunksOK
  <2>2. rest \in Nat
    BY <2>1, SaturatingSubType
  <2>3. /\ IsLedger(l) /\ l.locked = rest
        /\ l.unbonding = ledger[s].unbonding /\ IsChunks(l.unbonding)
    BY <2>1, <2>2, LedgerRelocked DEF IsLedger
  <2> HIDE DEF l
  <2> QED
    BY <1>1, <2>1, <2>3, LedgerWrite DEF Backed, OtherLedgersKept, OtherAccountsKept
<1>4. /\ stakerInfo'[s][p] = <<>>
      /\ OtherHistoriesKept(s, p)
      /\ StakeChanges(s, p, 0)
  <2>1. InOrder(<<>>, currentEra)
    BY EmptySeq DEF InOrder, Sorted, NotAhead
  <2>2. LatestStakedValue(<<>>) = 0
    BY DEF LatestStakedValue
  <2> QED
    BY <1>1, <2>1, <2>2, HistoryWrite DEF OtherHistoriesKept
<1>5. /\ ErasKnown'
      /\ EraInfoAt(currentEra)'.staked = SaturatingSub(EraInfoAt(currentEra).staked, n)
      /\ EraInfoAt(currentEra)'.locked = SaturatingSub(EraInfoAt(currentEra).locked, n)
      /\ RewardsAndPastKept
  <2>1. /\ SaturatingSub(EraInfoAt(currentEra).locked, n) \in Nat
        /\ SaturatingSub(EraInfoAt(currentEra).staked, n) \in Nat
    BY EraInfoType, SaturatingSubType
  <2> QED
    BY <1>1, <2>1, EraInfoWrite DEF RewardsAndPastKept
<1> QED
  BY <1>1, <1>2, <1>3, <1>4, <1>5 DEF StakeWithdrawn
-------------------------------------------------------------------------------
(* Each book after a step that moves the stake of one pairing *)

LEMMA ChunkSumType ==
    ASSUME ChunksOK, NEW s \in Accounts
    PROVE  Sum(ledger[s].unbonding) \in Nat
<1> DEFINE c == ledger[s].unbonding
           S == DOMAIN c
<1>1. IsFiniteSet(S) /\ c \in [S -> Nat]
  BY DEF ChunksOK, IsChunks
<1> HIDE DEF c, S
<1>2. Sum(c) \in Nat
  BY <1>1, SumType
<1> QED
  BY <1>2 DEF c

LEMMA LedgerKept ==
    ASSUME IInv, IInv', ChunksOK, LedgerMatchesStakes,
           NEW s \in Accounts, NEW p \in Providers, NEW w, StakeChanges(s, p, w),
           IsChunks(ledger'[s].unbonding), OtherLedgersKept(s),
           ledger'[s].locked + StakeNow(s, p) + Sum(ledger[s].unbonding)
               = ledger[s].locked + w + Sum(ledger'[s].unbonding)
    PROVE  ChunksOK' /\ LedgerMatchesStakes'
<1>1. ChunksOK'
  BY DEF ChunksOK, OtherLedgersKept
<1>2. /\ StakeOf(s)' + StakeNow(s, p) = StakeOf(s) + w
      /\ \A a \in Accounts \ {s} : StakeOf(a)' = StakeOf(a)
  BY StakeOfChange
<1>3. \A a \in Accounts : ledger[a].locked = StakeOf(a) + Sum(ledger[a].unbonding)
  BY DEF LedgerMatchesStakes, ChunkSum
<1>4. \A a \in Accounts \ {s} :
          ledger'[a].locked = StakeOf(a)' + Sum(ledger'[a].unbonding)
  BY <1>2, <1>3 DEF OtherLedgersKept
<1>5. ledger'[s].locked = StakeOf(s)' + Sum(ledger'[s].unbonding)
  <2>1. ledger[s].locked \in Nat /\ Sum(ledger[s].unbonding) \in Nat
    BY AccountBacked, ChunkSumType
  <2>2. ledger'[s].locked \in Nat /\ StakeOf(s)' \in Nat /\ Sum(ledger'[s].unbonding) \in Nat
    <3>1. ledger'[s].locked \in Nat
      BY TypePartsNext DEF IInv, LedgersOK, IsLedger
    <3>2. StakeOf(s)' \in Nat
      <4> DEFINE f == [q \in Providers |-> StakeNow(s, q)']
      <4>1. f \in [Providers -> Nat]
        BY StakeNowType DEF StakeChanges
      <4>2. StakeOf(s)' = Sum(f)
        BY DEF StakeOf, StakeNow
      <4> HIDE DEF f
      <4> QED
        BY <4>1, <4>2, FiniteDomains, SumType
    <3>3. Sum(ledger'[s].unbonding) \in Nat
      <4> DEFINE c == ledger'[s].unbonding
                 S == DOMAIN c
      <4>1. IsFiniteSet(S) /\ c \in [S -> Nat]
        BY DEF IsChunks
      <4> HIDE DEF c, S
      <4>2. Sum(c) \in Nat
        BY <4>1, SumType
      <4> QED
        BY <4>2 DEF c
    <3> QED
      BY <3>1, <3>2, <3>3
  <2>3. StakeOf(s) \in Nat /\ StakeNow(s, p) \in Nat /\ w \in Nat
    BY StakeOfType, StakeNowType DEF StakeChanges
  <2>4. ledger[s].locked = StakeOf(s) + Sum(ledger[s].unbonding)
    BY <1>3
  <2>5. PICK x \in Nat, y \in Nat, c \in Nat, d \in Nat, t \in Nat, u \in Nat, v \in Nat,
             k \in Nat :
            /\ k = w /\ x = ledger[s].locked /\ y = ledger'[s].locked
            /\ c = Sum(ledger[s].unbonding) /\ d = Sum(ledger'[s].unbonding)
            /\ t = StakeOf(s) /\ u = StakeOf(s)' /\ v = StakeNow(s, p)
    BY <2>1, <2>2, <2>3
  <2>6. u + v = t + k /\ x = t + c /\ y + v + c = x + k + d
    BY <1>2, <2>4, <2>5
  <2>7. y = u + d
    BY <2>6
  <2> QED
    BY <2>5, <2>7
<1>6. LedgerMatchesStakes'
  <2>1. \A a \in Accounts : ledger'[a].locked = StakeOf(a)' + Sum(ledger'[a].unbonding)
    BY <1>4, <1>5
  <2> QED
    BY <2>1 DEF LedgerMatchesStakes, ChunkSum
<1> QED
  BY <1>1, <1>6

LEMMA SumsNow ==
    IInv => /\ StakesTotal \in Nat
            /\ LockedTotal \in Nat
            /\ \A s \in Accounts : StakeOf(s) \in Nat
            /\ \A p \in Providers : StakeOn(p) \in Nat
  BY StakeOfType, LockedTotalType

LEMMA SumsNext ==
    IInv' => /\ StakesTotal' \in Nat
             /\ LockedTotal' \in Nat
             /\ \A s \in Accounts : StakeOf(s)' \in Nat
             /\ \A p \in Providers : StakeOn(p)' \in Nat
<1> DEFINE Sums == /\ StakesTotal \in Nat
                   /\ LockedTotal \in Nat
                   /\ \A s \in Accounts : StakeOf(s) \in Nat
                   /\ \A p \in Providers : StakeOn(p) \in Nat
<1>1. IInv => Sums
  BY SumsNow
<1> HIDE DEF Sums
<1>2. IInv' => Sums'
  BY <1>1, PTL
<1> QED
  BY <1>2 DEF Sums

LEMMA EraTotalsDef ==
    /\ TotalsMatch <=> /\ EraInfoAt(currentEra).staked = StakesTotal
                       /\ EraInfoAt(currentEra).locked = LockedTotal
    /\ TotalsMatch' <=> /\ EraInfoAt(currentEra)'.staked = StakesTotal'
                        /\ EraInfoAt(currentEra)'.locked = LockedTotal'
  BY DEF TotalsMatch

LEMMA EraTotalsKept ==
    ASSUME IInv, IInv', TotalsMatch, InBlock, currentEra' = currentEra,
           NEW s \in Accounts, NEW p \in Providers, NEW w, StakeChanges(s, p, w),
           OtherLedgersKept(s),
           EraInfoAt(currentEra)'.staked + StakeNow(s, p)
               = EraInfoAt(currentEra).staked + w,
           EraInfoAt(currentEra)'.locked + ledger[s].locked
               = EraInfoAt(currentEra).locked + ledger'[s].locked,
           EraInfoAt(currentEra)'.staked \in Nat, EraInfoAt(currentEra)'.locked \in Nat
    PROVE  TotalsMatch'
<1>1. ledger'[s].locked \in Nat /\ ledger[s].locked \in Nat
  BY AccountBacked, TypePartsNext DEF IInv, LedgersOK, IsLedger
<1>2. LockedTotal' + ledger[s].locked = LockedTotal + ledger'[s].locked
  <2> DEFINE n == ledger'[s].locked
  <2>1. n \in Nat /\ ledger'[s].locked = n
    BY <1>1
  <2> HIDE DEF n
  <2> QED
    BY <2>1, LockedTotalChange DEF OtherLedgersKept
<1>3. StakesTotal' + StakeNow(s, p) = StakesTotal + w
  BY StakesTotalChange
<1>4. /\ StakesTotal \in Nat /\ LockedTotal \in Nat
      /\ StakeNow(s, p) \in Nat /\ w \in Nat
  BY StakeOfType, LockedTotalType, StakeNowType DEF StakeChanges
<1>5. StakesTotal' \in Nat /\ LockedTotal' \in Nat
  BY SumsNext
<1>6. EraInfoAt(currentEra).staked = StakesTotal /\ EraInfoAt(currentEra).locked = LockedTotal
  BY EraTotalsDef DEF InBlock
<1> QED
  BY <1>1, <1>2, <1>3, <1>4, <1>5, <1>6, EraTotalsDef

OtherProvidersKept(p) ==
    \A q \in Providers \ {p} :
        /\ q \in DOMAIN registeredProviders' <=> q \in DOMAIN registeredProviders
        /\ q \in DOMAIN registeredProviders =>
               registeredProviders'[q] = registeredProviders[q]

(* The records after a write to the record of an active provider.          *)
LEMMA RecordsKept ==
    ASSUME IInv, IInv', RecordsInRange, RecordsMatch, InBlock,
           currentEra' = currentEra,
           NEW s \in Accounts, NEW p \in Providers, NEW w, StakeChanges(s, p, w),
           OtherHistoriesKept(s, p), OtherProvidersKept(p), IsActiveProvider(p)',
           NEW x \in ProviderStakeInfo, RecordBecomes(p, currentEra, x),
           x.total = StakeOn(p)', x.number_of_stakers = Cardinality(StakersOn(p)')
    PROVE  RecordsInRange' /\ RecordsMatch'
<1>0. currentEra \in Nat /\ currentEra > 0
  BY TypeParts DEF IInv, ErasOK, InBlock
<1>1. /\ DOMAIN providerEraStake'[p] = DOMAIN providerEraStake[p] \cup {currentEra}
      /\ \A q \in Providers \ {p} : providerEraStake'[q] = providerEraStake[q]
      /\ \A q \in Providers \ {p} :
             ProviderStakeAt(q, currentEra)' = ProviderStakeAt(q, currentEra)
      /\ ProviderStakeAt(p, currentEra)' = x
  <2>1. /\ DOMAIN providerEraStake'[p] = DOMAIN providerEraStake[p] \cup {currentEra}
        /\ \A q \in Providers \ {p} : providerEraStake'[q] = providerEraStake[q]
    BY DEF RecordBecomes
  <2>2. \A q \in Providers \ {p} :
            ProviderStakeAt(q, currentEra)' = ProviderStakeAt(q, currentEra)
    BY <2>1 DEF ProviderStakeAt, Get
  <2>3. ProviderStakeAt(p, currentEra)' = x
    <3>1. \A k : ProviderStakeAt(p, k)' = IF k = currentEra THEN x
                                          ELSE ProviderStakeAt(p, k)
      BY DEF RecordBecomes
    <3> QED
      BY <2>1, <3>1 DEF ProviderStakeAt, Get
  <2> QED
    BY <2>1, <2>2, <2>3
<1>2. RecordsInRange'
  <2>1. ASSUME NEW q \in Providers \ {p}
        PROVE  /\ \A e \in DOMAIN providerEraStake'[q] : e \in 1..currentEra
               /\ ~IsRegistered(q)' =>
                      /\ DOMAIN providerEraStake'[q] = {}
                      /\ \A a \in Accounts : stakerInfo'[a][q] = <<>>
               /\ IsUnregistered(q)' =>
                      /\ registeredProviders'[q].since \in 1..currentEra
                      /\ \A e \in DOMAIN providerEraStake'[q] :
                             e <= registeredProviders'[q].since
    <3>1. /\ \A e \in DOMAIN providerEraStake[q] : e \in 1..currentEra
          /\ ~IsRegistered(q) =>
                 /\ DOMAIN providerEraStake[q] = {}
                 /\ \A a \in Accounts : stakerInfo[a][q] = <<>>
          /\ IsUnregistered(q) =>
                 /\ registeredProviders[q].since \in 1..currentEra
                 /\ \A e \in DOMAIN providerEraStake[q] :
                        e <= registeredProviders[q].since
      BY DEF RecordsInRange
    <3>2. /\ IsRegistered(q)' <=> IsRegistered(q)
          /\ IsUnregistered(q)' <=> IsUnregistered(q)
          /\ IsUnregistered(q) => registeredProviders'[q] = registeredProviders[q]
      BY DEF OtherProvidersKept, IsRegistered, IsUnregistered
    <3>3. \A a \in Accounts : stakerInfo'[a][q] = stakerInfo[a][q]
      BY DEF OtherHistoriesKept
    <3> QED
      BY <1>1, <3>1, <3>2, <3>3
  <2>2. \A e \in DOMAIN providerEraStake'[p] : e \in 1..currentEra
    BY <1>0, <1>1 DEF RecordsInRange
  <2>3. IsRegistered(p)' /\ ~IsUnregistered(p)'
    BY DEF IsActiveProvider, IsUnregistered
  <2> QED
    BY <2>1, <2>2, <2>3 DEF RecordsInRange
<1>3. RecordsMatch'
  <2>1. RecordMatches(p)'
    BY <1>1 DEF RecordMatches
  <2>2. ASSUME NEW q \in Providers \ {p},
               IsActiveProvider(q)' \/ currentEra' \in DOMAIN providerEraStake'[q]
        PROVE  RecordMatches(q)'
    <3>1. IsActiveProvider(q) \/ currentEra \in DOMAIN providerEraStake[q]
      BY <1>1, <2>2 DEF OtherProvidersKept, IsActiveProvider, IsRegistered
    <3>2. RecordMatches(q)
      BY <3>1 DEF RecordsMatch
    <3>3. StakeOn(q)' = StakeOn(q) /\ StakersOn(q)' = StakersOn(q)
      BY StakeOnChange, StakersOnChange
    <3> QED
      BY <1>1, <3>2, <3>3 DEF RecordMatches
  <2> QED
    BY <2>1, <2>2 DEF RecordsMatch
<1> QED
  BY <1>2, <1>3

LEMMA StakeBooks ==
    ASSUME IInv, IInv', Books, InBlock, currentEra' = currentEra,
           NEW s \in Accounts, NEW p \in Providers, NEW b, NEW n,
           StakeMoved(s, p, b, n), RecordMatches(p),
           OtherProvidersKept(p), IsActiveProvider(p)'
    PROVE  Books'
<1>1. /\ n \in Nat /\ n > 0
      /\ StakeNow(s, p) \in Nat
      /\ StakeChanges(s, p, StakeNow(s, p) + n)
      /\ ErasKnown'
  BY StakeNowType DEF StakeMoved
<1>2. ChunksOK' /\ LedgerMatchesStakes'
  <2>1. /\ IsChunks(ledger'[s].unbonding) /\ OtherLedgersKept(s)
        /\ ledger'[s].locked = ledger[s].locked + n
        /\ ledger'[s].unbonding = ledger[s].unbonding
    BY DEF StakeMoved, Books, ChunksOK
  <2>2. ledger[s].locked \in Nat /\ Sum(ledger[s].unbonding) \in Nat
    BY AccountBacked, ChunkSumType DEF Books
  <2>3. ledger'[s].locked + StakeNow(s, p) + Sum(ledger[s].unbonding)
            = ledger[s].locked + (StakeNow(s, p) + n) + Sum(ledger'[s].unbonding)
    BY <1>1, <2>1, <2>2
  <2> QED
    BY <1>1, <2>1, <2>3, LedgerKept DEF Books
<1>3. TotalsMatch'
  <2>1. /\ EraInfoAt(currentEra)'.staked = EraInfoAt(currentEra).staked + n
        /\ EraInfoAt(currentEra)'.locked = EraInfoAt(currentEra).locked + n
        /\ ledger'[s].locked = ledger[s].locked + n
        /\ OtherLedgersKept(s)
    BY DEF StakeMoved
  <2>2. /\ EraInfoAt(currentEra).staked \in Nat
        /\ EraInfoAt(currentEra).locked \in Nat
        /\ ledger[s].locked \in Nat
    BY EraInfoType, AccountBacked
  <2>3. /\ EraInfoAt(currentEra)'.staked + StakeNow(s, p)
               = EraInfoAt(currentEra).staked + (StakeNow(s, p) + n)
        /\ EraInfoAt(currentEra)'.locked + ledger[s].locked
               = EraInfoAt(currentEra).locked + ledger'[s].locked
        /\ EraInfoAt(currentEra)'.staked \in Nat /\ EraInfoAt(currentEra)'.locked \in Nat
    BY <1>1, <2>1, <2>2
  <2> QED
    BY <1>1, <2>1, <2>3, EraTotalsKept DEF Books
<1>4. RecordsInRange' /\ RecordsMatch'
  <2> DEFINE info == ProviderStakeAt(p, currentEra)
             arrives == IF StakeNow(s, p) = 0 THEN 1 ELSE 0
  <2>1. PICK x \in ProviderStakeInfo :
            /\ RecordBecomes(p, currentEra, x)
            /\ x.total = info.total + n
            /\ x.number_of_stakers = info.number_of_stakers + arrives
    BY DEF StakeMoved
  <2>2. info.total = StakeOn(p) /\ info.number_of_stakers = Cardinality(StakersOn(p))
    BY DEF RecordMatches
  <2>3. x.total = StakeOn(p)'
    <3>1. StakeOn(p)' + StakeNow(s, p) = StakeOn(p) + (StakeNow(s, p) + n)
      BY <1>1, StakeOnChange
    <3>2. StakeOn(p)' \in Nat /\ StakeOn(p) \in Nat
      BY SumsNow, SumsNext
    <3> QED
      BY <1>1, <2>1, <2>2, <3>1, <3>2
  <2>4. x.number_of_stakers = Cardinality(StakersOn(p)')
    <3>1. StakersOn(p)' = StakersOn(p) \cup {s}
      BY <1>1, StakersOnChange
    <3>2. IsFiniteSet(StakersOn(p)) /\ Cardinality(StakersOn(p)) \in Nat
      BY StakersOnFinite
    <3>3. s \in StakersOn(p) <=> StakeNow(s, p) # 0
      BY <1>1 DEF StakersOn
    <3>4. Cardinality(StakersOn(p) \cup {s}) = Cardinality(StakersOn(p)) + arrives
      <4>1. CASE s \in StakersOn(p)
        <5>1. StakersOn(p) \cup {s} = StakersOn(p)
          BY <4>1
        <5> QED
          BY <3>2, <3>3, <4>1, <5>1
      <4>2. CASE s \notin StakersOn(p)
        <5>1. Cardinality(StakersOn(p) \cup {s}) = Cardinality(StakersOn(p)) + 1
          BY <3>2, <4>2, FS_AddElement
        <5> QED
          BY <3>3, <4>2, <5>1
      <4> QED
        BY <4>1, <4>2
    <3> QED
      BY <2>1, <2>2, <3>1, <3>4
  <2>5. OtherHistoriesKept(s, p)
    BY DEF StakeMoved
  <2> QED
    BY <1>1, <2>1, <2>3, <2>4, <2>5, RecordsKept DEF Books
<1> QED
  BY <1>1, <1>2, <1>3, <1>4 DEF Books

LEMMA UnstakeBooks ==
    ASSUME IInv, IInv', Books, InBlock, currentEra' = currentEra,
           NEW s \in Accounts, NEW p \in Providers, NEW v, NEW n,
           StakeRemoved(s, p, v, n), RecordMatches(p),
           OtherProvidersKept(p), IsActiveProvider(p)'
    PROVE  Books'
<1>1. /\ n \in Nat /\ n > 0 /\ n <= StakeNow(s, p)
      /\ StakeNow(s, p) \in Nat
      /\ StakeChanges(s, p, StakeNow(s, p) - n)
      /\ ErasKnown'
  BY StakeNowType DEF StakeRemoved
<1>2. ChunksOK' /\ LedgerMatchesStakes'
  <2>1. /\ OtherLedgersKept(s)
        /\ ledger'[s].locked = ledger[s].locked
        /\ ledger'[s].unbonding = ChunksAfterUnstake(s, n)
    BY DEF StakeRemoved
  <2>2. /\ IsChunks(ledger'[s].unbonding)
        /\ Sum(ledger'[s].unbonding) = Sum(ledger[s].unbonding) + n
        /\ Sum(ledger[s].unbonding) \in Nat
    BY <1>1, <2>1, ChunksAfterUnstakeSum DEF Books
  <2>3. ledger[s].locked \in Nat
    BY AccountBacked
  <2>4. ledger'[s].locked + StakeNow(s, p) + Sum(ledger[s].unbonding)
            = ledger[s].locked + (StakeNow(s, p) - n) + Sum(ledger'[s].unbonding)
    BY <1>1, <2>1, <2>2, <2>3
  <2> QED
    BY <1>1, <2>1, <2>2, <2>4, LedgerKept DEF Books
<1>3. TotalsMatch'
  <2>1. /\ EraInfoAt(currentEra)'.staked = SaturatingSub(EraInfoAt(currentEra).staked, n)
        /\ EraInfoAt(currentEra)'.locked = EraInfoAt(currentEra).locked
        /\ ledger'[s].locked = ledger[s].locked
        /\ OtherLedgersKept(s)
    BY DEF StakeRemoved
  <2>2. /\ EraInfoAt(currentEra).staked \in Nat
        /\ EraInfoAt(currentEra).locked \in Nat
        /\ ledger[s].locked \in Nat
    BY EraInfoType, AccountBacked
  <2>3. StakeNow(s, p) <= EraInfoAt(currentEra).staked
    BY <1>1, StakesTotalChange, EraTotalsDef DEF Books, InBlock
  <2>4. EraInfoAt(currentEra)'.staked = EraInfoAt(currentEra).staked - n
    BY <1>1, <2>1, <2>2, <2>3 DEF SaturatingSub
  <2>5. /\ EraInfoAt(currentEra)'.staked + StakeNow(s, p)
               = EraInfoAt(currentEra).staked + (StakeNow(s, p) - n)
        /\ EraInfoAt(currentEra)'.locked + ledger[s].locked
               = EraInfoAt(currentEra).locked + ledger'[s].locked
        /\ EraInfoAt(currentEra)'.staked \in Nat /\ EraInfoAt(currentEra)'.locked \in Nat
    BY <1>1, <2>1, <2>2, <2>3, <2>4
  <2> QED
    BY <1>1, <2>1, <2>5, EraTotalsKept DEF Books
<1>4. RecordsInRange' /\ RecordsMatch'
  <2> DEFINE info == ProviderStakeAt(p, currentEra)
  <2>1. PICK x \in ProviderStakeInfo :
            /\ RecordBecomes(p, currentEra, x)
            /\ x.total = SaturatingSub(info.total, n)
            /\ x.number_of_stakers =
                   IF StakeNow(s, p) = n THEN SaturatingSub(info.number_of_stakers, 1)
                                         ELSE info.number_of_stakers
    BY DEF StakeRemoved
  <2>2. info.total = StakeOn(p) /\ info.number_of_stakers = Cardinality(StakersOn(p))
    BY DEF RecordMatches
  <2>3. x.total = StakeOn(p)'
    <3>1. /\ StakeOn(p)' + StakeNow(s, p) = StakeOn(p) + (StakeNow(s, p) - n)
          /\ StakeNow(s, p) <= StakeOn(p)
      BY <1>1, StakeOnChange
    <3>2. StakeOn(p)' \in Nat /\ StakeOn(p) \in Nat
      BY SumsNow, SumsNext
    <3>3. SaturatingSub(StakeOn(p), n) = StakeOn(p) - n
      BY <1>1, <3>1, <3>2 DEF SaturatingSub
    <3> QED
      BY <1>1, <2>1, <2>2, <3>1, <3>2, <3>3
  <2>4. x.number_of_stakers = Cardinality(StakersOn(p)')
    <3>1. IsFiniteSet(StakersOn(p)) /\ Cardinality(StakersOn(p)) \in Nat
      BY StakersOnFinite
    <3>2. s \in StakersOn(p)
      BY <1>1 DEF StakersOn
    <3>3. CASE StakeNow(s, p) = n
      <4>1. StakersOn(p)' = StakersOn(p) \ {s}
        BY <1>1, <3>3, StakersOnChange
      <4>2. Cardinality(StakersOn(p) \ {s}) = Cardinality(StakersOn(p)) - 1
        BY <3>1, <3>2, FS_RemoveElement
      <4>3. Cardinality(StakersOn(p)) > 0
        BY <3>1, <3>2, FS_EmptySet
      <4>4. SaturatingSub(Cardinality(StakersOn(p)), 1) = Cardinality(StakersOn(p)) - 1
        BY <3>1, <4>3 DEF SaturatingSub
      <4> QED
        BY <2>1, <2>2, <3>3, <4>1, <4>2, <4>4
    <3>4. CASE StakeNow(s, p) # n
      <4>1. StakersOn(p)' = StakersOn(p) \cup {s}
        BY <1>1, <3>4, StakersOnChange
      <4>2. StakersOn(p)' = StakersOn(p)
        BY <3>2, <4>1
      <4> QED
        BY <2>1, <2>2, <3>4, <4>2
    <3> QED
      BY <3>3, <3>4
  <2>5. OtherHistoriesKept(s, p)
    BY DEF StakeRemoved
  <2> QED
    BY <1>1, <2>1, <2>3, <2>4, <2>5, RecordsKept DEF Books
<1> QED
  BY <1>1, <1>2, <1>3, <1>4 DEF Books

(* Steps that leave the records and the registry alone.                    *)
LEMMA SameRecords ==
    ASSUME Books, UNCHANGED <<currentEra, registeredProviders, providerEraStake>>,
           \A a \in Accounts, q \in Providers :
               stakerInfo[a][q] = <<>> => stakerInfo'[a][q] = <<>>,
           \A q \in Providers :
               IsActiveProvider(q) \/ currentEra \in DOMAIN providerEraStake[q] =>
                   StakeOn(q)' = StakeOn(q) /\ StakersOn(q)' = StakersOn(q)
    PROVE  RecordsInRange' /\ RecordsMatch'
<1>1. /\ \A q \in Providers : IsRegistered(q)' <=> IsRegistered(q)
      /\ \A q \in Providers : IsUnregistered(q)' <=> IsUnregistered(q)
      /\ \A q \in Providers : IsActiveProvider(q)' <=> IsActiveProvider(q)
      /\ \A q \in Providers :
             ProviderStakeAt(q, currentEra)' = ProviderStakeAt(q, currentEra)
  BY DEF IsRegistered, IsUnregistered, IsActiveProvider, ProviderStakeAt, Get
<1>2. RecordsInRange'
  BY <1>1 DEF RecordsInRange, Books
<1>3. RecordsMatch'
  BY <1>1 DEF RecordsMatch, RecordMatches, Books
<1> QED
  BY <1>2, <1>3

LEMMA WithdrawUnstakedBooks ==
    ASSUME IInv, IInv', Books, InBlock,
           NEW s \in Accounts, NEW n, ChunksWithdrawn(s, n),
           UNCHANGED <<currentEra, registeredProviders, providerEraStake, stakerInfo>>
    PROVE  Books'
<1>1. /\ n \in Nat
      /\ ledger'[s].locked = SaturatingSub(ledger[s].locked, n)
      /\ IsChunks(ledger'[s].unbonding)
      /\ n + Sum(ledger'[s].unbonding) = Sum(ledger[s].unbonding)
      /\ Sum(ledger'[s].unbonding) \in Nat
      /\ OtherLedgersKept(s)
      /\ ErasKnown'
      /\ EraInfoAt(currentEra)'.staked = EraInfoAt(currentEra).staked
      /\ EraInfoAt(currentEra)'.locked = SaturatingSub(EraInfoAt(currentEra).locked, n)
  BY DEF ChunksWithdrawn
<1>2. /\ ledger[s].locked = StakeOf(s) + Sum(ledger[s].unbonding)
      /\ StakeOf(s) \in Nat /\ ledger[s].locked \in Nat
  BY SumsNow, AccountBacked DEF Books, LedgerMatchesStakes, ChunkSum
<1>3. ledger'[s].locked = ledger[s].locked - n /\ n <= ledger[s].locked
  <2>1. n <= ledger[s].locked
    BY <1>1, <1>2
  <2> QED
    BY <1>1, <1>2, <2>1 DEF SaturatingSub
<1>4. ledger'[s].locked = StakeOf(s) + Sum(ledger'[s].unbonding)
  BY <1>1, <1>2, <1>3
<1>5. /\ \A a \in Accounts : StakeOf(a)' = StakeOf(a)
      /\ \A q \in Providers : StakeOn(q)' = StakeOn(q)
      /\ \A q \in Providers : StakersOn(q)' = StakersOn(q)
      /\ StakesTotal' = StakesTotal
  BY SameStakes
<1>6. ChunksOK'
  BY <1>1 DEF ChunksOK, OtherLedgersKept, Books
<1>7. LedgerMatchesStakes'
  <2>1. \A a \in Accounts \ {s} :
            ledger'[a].locked = StakeOf(a)' + Sum(ledger'[a].unbonding)
    BY <1>1, <1>5 DEF Books, LedgerMatchesStakes, ChunkSum, OtherLedgersKept
  <2>2. \A a \in Accounts : ledger'[a].locked = StakeOf(a)' + Sum(ledger'[a].unbonding)
    BY <1>4, <1>5, <2>1
  <2> QED
    BY <2>2 DEF LedgerMatchesStakes, ChunkSum
<1>8. TotalsMatch'
  <2>1. /\ EraInfoAt(currentEra).staked = StakesTotal
        /\ EraInfoAt(currentEra).locked = LockedTotal
    BY EraTotalsDef DEF Books, InBlock
  <2>2. /\ LockedTotal' + ledger[s].locked = LockedTotal + (ledger[s].locked - n)
        /\ ledger[s].locked <= LockedTotal
    <3> DEFINE m == ledger[s].locked - n
    <3>1. m \in Nat /\ ledger'[s].locked = m
      BY <1>1, <1>2, <1>3
    <3> HIDE DEF m
    <3>2. /\ LockedTotal' + ledger[s].locked = LockedTotal + m
          /\ ledger[s].locked <= LockedTotal
      BY <1>1, <3>1, LockedTotalChange DEF OtherLedgersKept
    <3> QED
      BY <3>2 DEF m
  <2>3. LockedTotal \in Nat /\ LockedTotal' \in Nat
    BY SumsNow, SumsNext
  <2>4. LockedTotal' = LockedTotal - n /\ n <= LockedTotal
    BY <1>1, <1>2, <1>3, <2>2, <2>3
  <2>5. SaturatingSub(LockedTotal, n) = LockedTotal - n
    BY <1>1, <2>3, <2>4 DEF SaturatingSub
  <2> QED
    BY <1>1, <1>5, <2>1, <2>4, <2>5, EraTotalsDef
<1>9. RecordsInRange' /\ RecordsMatch'
  BY <1>5, SameRecords
<1> QED
  BY <1>1, <1>6, <1>7, <1>8, <1>9 DEF Books

LEMMA WithdrawStakerBooks ==
    ASSUME IInv, IInv', Books, InBlock,
           NEW s \in Accounts, NEW p \in Providers, NEW n, StakeWithdrawn(s, p, n),
           UnbondedSinceUnregistered(p),
           UNCHANGED <<currentEra, registeredProviders, providerEraStake>>
    PROVE  Books'
<1>1. /\ n \in Nat /\ n > 0 /\ n = StakeNow(s, p)
      /\ ledger'[s].locked = SaturatingSub(ledger[s].locked, n)
      /\ ledger'[s].unbonding = ledger[s].unbonding
      /\ OtherLedgersKept(s)
      /\ stakerInfo'[s][p] = <<>>
      /\ OtherHistoriesKept(s, p)
      /\ StakeChanges(s, p, 0)
      /\ ErasKnown'
      /\ EraInfoAt(currentEra)'.staked = SaturatingSub(EraInfoAt(currentEra).staked, n)
      /\ EraInfoAt(currentEra)'.locked = SaturatingSub(EraInfoAt(currentEra).locked, n)
  BY DEF StakeWithdrawn
<1>2. /\ ledger[s].locked = StakeOf(s) + Sum(ledger[s].unbonding)
      /\ StakeOf(s) \in Nat /\ ledger[s].locked \in Nat /\ Sum(ledger[s].unbonding) \in Nat
      /\ IsChunks(ledger[s].unbonding)
  BY SumsNow, AccountBacked, ChunkSumType DEF Books, LedgerMatchesStakes, ChunkSum, ChunksOK
<1>3. n <= StakeOf(s)
  BY <1>1, StakeOfChange
<1>4. ledger'[s].locked = ledger[s].locked - n /\ n <= ledger[s].locked
  <2>1. n <= ledger[s].locked
    BY <1>1, <1>2, <1>3
  <2> QED
    BY <1>1, <1>2, <2>1 DEF SaturatingSub
<1>5. ChunksOK' /\ LedgerMatchesStakes'
  <2>1. ledger'[s].locked + StakeNow(s, p) + Sum(ledger[s].unbonding)
            = ledger[s].locked + 0 + Sum(ledger'[s].unbonding)
    BY <1>1, <1>2, <1>4
  <2>2. IsChunks(ledger'[s].unbonding)
    BY <1>1, <1>2
  <2> QED
    BY <1>1, <2>1, <2>2, LedgerKept DEF Books
<1>6. TotalsMatch'
  <2>1. /\ EraInfoAt(currentEra).staked = StakesTotal
        /\ EraInfoAt(currentEra).locked = LockedTotal
        /\ StakesTotal \in Nat /\ LockedTotal \in Nat
    BY EraTotalsDef, SumsNow DEF Books, InBlock
  <2>2. n <= StakesTotal
    BY <1>1, StakesTotalChange
  <2>3. n <= LockedTotal
    <3> DEFINE m == ledger[s].locked - n
    <3>1. m \in Nat /\ ledger'[s].locked = m
      BY <1>1, <1>2, <1>4
    <3> HIDE DEF m
    <3>2. ledger[s].locked <= LockedTotal
      BY <1>1, <3>1, LockedTotalChange DEF OtherLedgersKept
    <3> QED
      BY <1>1, <1>2, <1>4, <2>1, <3>2
  <2>4. /\ EraInfoAt(currentEra)'.staked = EraInfoAt(currentEra).staked - n
        /\ EraInfoAt(currentEra)'.locked = EraInfoAt(currentEra).locked - n
    BY <1>1, <2>1, <2>2, <2>3 DEF SaturatingSub
  <2>5. /\ EraInfoAt(currentEra)'.staked + StakeNow(s, p)
               = EraInfoAt(currentEra).staked + 0
        /\ EraInfoAt(currentEra)'.locked + ledger[s].locked
               = EraInfoAt(currentEra).locked + ledger'[s].locked
        /\ EraInfoAt(currentEra)'.staked \in Nat /\ EraInfoAt(currentEra)'.locked \in Nat
    <3> DEFINE st == EraInfoAt(currentEra).staked
               lk == EraInfoAt(currentEra).locked
               lg == ledger[s].locked
    <3>1. /\ st \in Nat /\ lk \in Nat /\ lg \in Nat /\ n \in Nat
          /\ n <= st /\ n <= lk /\ n <= lg
      BY <1>1, <1>2, <1>4, <2>1, <2>2, <2>3
    <3> HIDE DEF st, lk, lg
    <3>2. /\ (st - n) + n = st + 0 /\ (lk - n) + lg = lk + (lg - n)
          /\ st - n \in Nat /\ lk - n \in Nat
      BY <3>1
    <3> QED
      BY <1>1, <1>4, <2>4, <3>2 DEF st, lk, lg
  <2> QED
    BY <1>1, <2>5, EraTotalsKept DEF Books
<1>7. RecordsInRange' /\ RecordsMatch'
  <2>1. ~IsActiveProvider(p) /\ currentEra \notin DOMAIN providerEraStake[p]
    <3>1. IsUnregistered(p) /\ currentEra > registeredProviders[p].since + UnbondingPeriod
      BY DEF UnbondedSinceUnregistered
    <3>2. /\ registeredProviders[p].since \in 1..currentEra
          /\ \A e \in DOMAIN providerEraStake[p] :
                 e \in 1..currentEra /\ e <= registeredProviders[p].since
      BY <3>1 DEF Books, RecordsInRange
    <3>3. currentEra \in Nat /\ UnbondingPeriod \in Nat
      BY TypeParts, DapiStakingAssumption DEF IInv, ErasOK
    <3>4. ~(currentEra <= registeredProviders[p].since)
      BY <3>1, <3>2, <3>3
    <3> QED
      BY <3>1, <3>2, <3>4 DEF IsUnregistered, IsActiveProvider
  <2>2. \A q \in Providers \ {p} : StakeOn(q)' = StakeOn(q) /\ StakersOn(q)' = StakersOn(q)
    BY <1>1, StakeOnChange, StakersOnChange
  <2>3. \A a \in Accounts, q \in Providers :
            stakerInfo[a][q] = <<>> => stakerInfo'[a][q] = <<>>
    BY <1>1 DEF OtherHistoriesKept
  <2> QED
    BY <2>1, <2>2, <2>3, SameRecords
<1> QED
  BY <1>1, <1>5, <1>6, <1>7 DEF Books
-------------------------------------------------------------------------------
(* Steps that move no stake *)

LEMMA StakesSame ==
    ASSUME \A a \in Accounts, q \in Providers : StakeNow(a, q)' = StakeNow(a, q)
    PROVE  /\ \A s \in Accounts : StakeOf(s)' = StakeOf(s)
           /\ \A p \in Providers : StakeOn(p)' = StakeOn(p)
           /\ \A p \in Providers : StakersOn(p)' = StakersOn(p)
           /\ StakesTotal' = StakesTotal
<1>1. ASSUME NEW s \in Accounts PROVE StakeOf(s)' = StakeOf(s)
  <2>1. [p \in Providers |-> StakeNow(s, p)'] = [p \in Providers |-> StakeNow(s, p)]
    OBVIOUS
  <2> QED
    BY <2>1 DEF StakeOf, StakeNow
<1>2. ASSUME NEW p \in Providers PROVE StakeOn(p)' = StakeOn(p)
  <2>1. [s \in Accounts |-> StakeNow(s, p)'] = [s \in Accounts |-> StakeNow(s, p)]
    OBVIOUS
  <2> QED
    BY <2>1 DEF StakeOn, StakeNow
<1>3. \A p \in Providers : StakersOn(p)' = StakersOn(p)
  BY DEF StakersOn
<1>4. [s \in Accounts |-> StakeOf(s)'] = [s \in Accounts |-> StakeOf(s)]
  BY <1>1
<1> QED
  BY <1>1, <1>2, <1>3, <1>4 DEF StakesTotal

LEMMA BooksFrame ==
    ASSUME Books, UNCHANGED <<currentEra, ledger, generalEraInfo>>,
           \A a \in Accounts, q \in Providers : StakeNow(a, q)' = StakeNow(a, q),
           RecordsInRange',
           \A q \in Providers :
               /\ DOMAIN providerEraStake'[q] = DOMAIN providerEraStake[q]
               /\ ProviderStakeAt(q, currentEra)'.total
                      = ProviderStakeAt(q, currentEra).total
               /\ ProviderStakeAt(q, currentEra)'.number_of_stakers
                      = ProviderStakeAt(q, currentEra).number_of_stakers
               /\ IsActiveProvider(q)' => IsActiveProvider(q) \/ RecordMatches(q)
    PROVE  Books'
<1>1. /\ \A s \in Accounts : StakeOf(s)' = StakeOf(s)
      /\ \A p \in Providers : StakeOn(p)' = StakeOn(p)
      /\ \A p \in Providers : StakersOn(p)' = StakersOn(p)
      /\ StakesTotal' = StakesTotal
  BY StakesSame
<1>2. ChunksOK' /\ ErasKnown'
  BY DEF Books, ChunksOK, ErasKnown
<1>3. LedgerMatchesStakes'
  <2>1. \A a \in Accounts : ledger'[a].locked = StakeOf(a)' + Sum(ledger'[a].unbonding)
    BY <1>1 DEF Books, LedgerMatchesStakes, ChunkSum
  <2> QED
    BY <2>1 DEF LedgerMatchesStakes, ChunkSum
<1>4. TotalsMatch'
  <2>1. LockedTotal' = LockedTotal
    BY SameLedgers
  <2>2. EraInfoAt(currentEra)' = EraInfoAt(currentEra)
    BY DEF EraInfoAt, Get
  <2> QED
    BY <1>1, <2>1, <2>2, EraTotalsDef DEF Books
<1>5. RecordsMatch'
  <2>1. ASSUME NEW q \in Providers,
               IsActiveProvider(q)' \/ currentEra' \in DOMAIN providerEraStake'[q]
        PROVE  RecordMatches(q)'
    <3>1. RecordMatches(q)
      BY <2>1 DEF RecordsMatch, Books
    <3> QED
      BY <1>1, <3>1 DEF RecordMatches
  <2> QED
    BY <2>1 DEF RecordsMatch
<1> QED
  BY <1>2, <1>3, <1>4, <1>5 DEF Books

(* A provider that is not registered has no stake and no stakers.          *)
LEMMA UnknownProvider ==
    ASSUME RecordsInRange, NEW p \in Providers, ~IsRegistered(p)
    PROVE  RecordMatches(p)
<1>1. DOMAIN providerEraStake[p] = {} /\ \A s \in Accounts : StakeNow(s, p) = 0
  BY DEF RecordsInRange, StakeNow, LatestStakedValue
<1>2. ProviderStakeAt(p, currentEra) = NoStake
  BY <1>1 DEF ProviderStakeAt, Get
<1>3. StakeOn(p) = 0
  <2> DEFINE f == [s \in Accounts |-> StakeNow(s, p)]
  <2>1. f \in [Accounts -> Nat] /\ \A s \in Accounts : f[s] = 0
    BY <1>1
  <2>2. StakeOn(p) = Sum(f)
    BY DEF StakeOn, StakeNow
  <2> HIDE DEF f
  <2> QED
    BY <2>1, <2>2, FiniteDomains, SumZero
<1>4. StakersOn(p) = {}
  BY <1>1 DEF StakersOn
<1> QED
  BY <1>2, <1>3, <1>4, FS_EmptySet DEF RecordMatches, NoStake

(* A provider comes to the registry.                                       *)
LEMMA NewProviderKnown ==
    ASSUME IInv, NEW o \in Accounts, NEW p \in Providers, ~IsRegistered(p),
           registeredProviders' = Insert(registeredProviders, p, NewProvider(o))
    PROVE  /\ OtherProvidersKept(p)
           /\ IsActiveProvider(p)'
           /\ registeredProviders'[p] = NewProvider(o)
           /\ DOMAIN registeredProviders' = DOMAIN registeredProviders \cup {p}
           /\ \A q \in DOMAIN registeredProviders :
                  q # p /\ registeredProviders'[q] = registeredProviders[q]
<1>1. /\ DOMAIN registeredProviders' = DOMAIN registeredProviders \cup {p}
      /\ registeredProviders'[p] = NewProvider(o)
      /\ \A q \in DOMAIN registeredProviders :
             q # p /\ registeredProviders'[q] = registeredProviders[q]
  BY DEF Insert, IsRegistered
<1>2. IsActiveProvider(p)'
  BY <1>1 DEF IsActiveProvider, IsRegistered, NewProvider
<1>3. OtherProvidersKept(p)
  <2>1. \A q \in Providers \ {p} :
            q \in DOMAIN registeredProviders' <=> q \in DOMAIN registeredProviders
    BY <1>1
  <2> QED
    BY <1>1, <2>1 DEF OtherProvidersKept
<1> QED
  BY <1>1, <1>2, <1>3

LEMMA DepositTaken ==
    ASSUME IInv, DepositsReserved, NEW o \in Accounts, NEW p \in Providers,
           ~IsRegistered(p),
           registeredProviders' = Insert(registeredProviders, p, NewProvider(o)),
           account'[o].reserved = account[o].reserved + RegisterDeposit,
           OtherAccountsKept(o)
    PROVE  DepositsReserved'
<1>1. /\ registeredProviders'[p] = NewProvider(o)
      /\ DOMAIN registeredProviders' = DOMAIN registeredProviders \cup {p}
      /\ \A q \in DOMAIN registeredProviders :
             q # p /\ registeredProviders'[q] = registeredProviders[q]
  BY NewProviderKnown
<1>0. registeredProviders'[p].operator = o /\ ~registeredProviders'[p].unreserved
  BY <1>1 DEF NewProvider
<1>2. DepositsOf(o)' = DepositsOf(o) \cup {p} /\ p \notin DepositsOf(o)
  BY <1>0, <1>1, Zenon DEF DepositsOf
<1>3. ASSUME NEW a \in Accounts \ {o} PROVE DepositsOf(a)' = DepositsOf(a)
  <2>1. a # o
    OBVIOUS
  <2> QED
    BY <1>0, <1>1, <2>1, Zenon DEF DepositsOf
<1>4. /\ account[o].reserved = RegisterDeposit * Cardinality(DepositsOf(o))
      /\ \A a \in Accounts \ {o} :
             account'[a].reserved = RegisterDeposit * Cardinality(DepositsOf(a)')
  BY <1>3, DepositsReservedDef DEF OtherAccountsKept
<1>5. account'[o].reserved = RegisterDeposit * Cardinality(DepositsOf(o)')
  <2> DEFINE n == Cardinality(DepositsOf(o))
  <2>1. n \in Nat /\ IsFiniteSet(DepositsOf(o)) /\ RegisterDeposit \in Nat
    BY DepositsFinite, DapiStakingAssumption
  <2>2. Cardinality(DepositsOf(o)') = n + 1
    BY <1>2, <2>1, FS_AddElement
  <2> HIDE DEF n
  <2>3. RegisterDeposit * n + RegisterDeposit = RegisterDeposit * (n + 1)
    BY <2>1
  <2> QED
    BY <1>4, <2>2, <2>3 DEF n
<1> QED
  BY <1>4, <1>5, DepositsReservedNextDef

LEMMA DepositReturned ==
    ASSUME IInv, DepositsReserved, NEW p \in Providers, IsRegistered(p),
           ~registeredProviders[p].unreserved,
           registeredProviders' = [registeredProviders EXCEPT ![p] = MarkUnreserved(p)],
           account' = [account EXCEPT ![registeredProviders[p].operator] =
               Unreserve(account[registeredProviders[p].operator], RegisterDeposit)]
    PROVE  DepositsReserved'
<1>0. registeredProviders[p].operator \in Accounts
      /\ registeredProviders[p] \in ProviderInfo
  BY TypeParts DEF IInv, ProvidersOK, ProviderInfo, IsRegistered
<1>1. PICK o \in Accounts : o = registeredProviders[p].operator
  BY <1>0
<1> DEFINE n == Cardinality(DepositsOf(o))
<1>2. /\ MarkUnreserved(p).unreserved
      /\ MarkUnreserved(p).operator = o
  BY <1>0, <1>1 DEF MarkUnreserved, ProviderInfo
<1>3. /\ DOMAIN registeredProviders' = DOMAIN registeredProviders
      /\ registeredProviders'[p] = MarkUnreserved(p)
      /\ \A q \in DOMAIN registeredProviders :
             q # p => registeredProviders'[q] = registeredProviders[q]
  BY DEF IsRegistered
<1>4. registeredProviders'[p].unreserved
  BY <1>2, <1>3
<1>5. p \in DepositsOf(o)
  BY <1>1 DEF DepositsOf, IsRegistered
<1>6. DepositsOf(o)' = DepositsOf(o) \ {p}
  BY <1>1, <1>3, <1>4, Zenon DEF DepositsOf
<1>7. ASSUME NEW a \in Accounts \ {o} PROVE DepositsOf(a)' = DepositsOf(a)
  <2>1. a # registeredProviders[p].operator
    BY <1>1
  <2> QED
    BY <1>3, <1>4, <2>1, Zenon DEF DepositsOf
<1>8. /\ account'[o] = Unreserve(account[o], RegisterDeposit)
      /\ \A a \in Accounts \ {o} : account'[a] = account[a]
  BY <1>1, TypeParts DEF IInv, AccountsOK
<1>9. /\ account[o].reserved = RegisterDeposit * n
      /\ \A a \in Accounts \ {o} :
             account'[a].reserved = RegisterDeposit * Cardinality(DepositsOf(a)')
  BY <1>1, <1>7, <1>8, DepositsReservedDef
<1>10. /\ n \in Nat /\ n > 0 /\ RegisterDeposit \in Nat
       /\ Cardinality(DepositsOf(o)') = n - 1
  <2>1. n \in Nat /\ IsFiniteSet(DepositsOf(o)) /\ RegisterDeposit \in Nat
    BY DepositsFinite, DapiStakingAssumption
  <2>2. Cardinality(DepositsOf(o) \ {p}) = n - 1
    BY <1>5, <2>1, FS_RemoveElement
  <2>3. n # 0
    BY <1>5, <2>1, FS_EmptySet
  <2> QED
    BY <1>6, <2>1, <2>2, <2>3
<1>11. account'[o].reserved = RegisterDeposit * Cardinality(DepositsOf(o)')
  <2> DEFINE k == n - 1
  <2>1. k \in Nat /\ n = k + 1
    BY <1>10
  <2> HIDE DEF n, k
  <2>2. RegisterDeposit * n = RegisterDeposit * k + RegisterDeposit
    BY <1>10, <2>1
  <2>3. RegisterDeposit * k \in Nat
    BY <1>10, <2>1
  <2> DEFINE m == RegisterDeposit * k
  <2> HIDE DEF m
  <2>4. m \in Nat /\ RegisterDeposit \in Nat /\ account[o].reserved = m + RegisterDeposit
    BY <1>9, <1>10, <2>2, <2>3 DEF m
  <2>5. Unreserve(account[o], RegisterDeposit).reserved = m
    BY <2>4 DEF Unreserve
  <2> QED
    BY <1>8, <1>10, <2>5 DEF m, k
<1> QED
  BY <1>9, <1>11, DepositsReservedNextDef

(* Claims *)

StakerReceipt(s, p) ==
    LET head == stakerInfo[s][p][1]
    IN  [role |-> "staker", who |-> s, provider |-> p, era |-> head.era,
         staked |-> head.staked,
         amount |-> StakerReward(p, head.era, head.staked)]

LEMMA ClaimStakerEffects ==
    ASSUME IInv, NEW s \in Accounts, NEW p \in Providers, ClaimStaker(s, p)
    PROVE  LET t == stakerInfo[s][p]
           IN  /\ InOrder(t, currentEra) /\ t # <<>> /\ t \in Seq(EraStake)
               /\ t[1].era \in Nat /\ t[1].staked \in Nat
               /\ t[1].staked > 0
               /\ t[1].era < currentEra
               /\ ClaimableEra(p, t[1].era)
               /\ t[1].era \in DOMAIN generalEraInfo
               /\ StakerReceipt(s, p) \in Receipt
               /\ Pay(StakerReceipt(s, p))
               /\ stakerInfo'[s][p] = AfterClaim(t)
               /\ OtherHistoriesKept(s, p)
               /\ \A a \in Accounts, q \in Providers :
                      StakeNow(a, q)' = StakeNow(a, q)
               /\ UNCHANGED <<currentEra, accumulator, ledger,
                              registeredProviders, providerEraStake, generalEraInfo>>
<1> DEFINE t == stakerInfo[s][p]
           head == Claimable(t)
<1>0. InOrder(t, currentEra) /\ currentEra \in Nat
  BY HistoryInOrder, TypeParts DEF IInv, ErasOK
<1>1. /\ head.staked > 0
      /\ ClaimableEra(p, head.era)
      /\ head.era \in DOMAIN generalEraInfo
      /\ Pay([role |-> "staker", who |-> s, provider |-> p,
              era |-> head.era, staked |-> head.staked,
              amount |-> StakerReward(p, head.era, head.staked)])
      /\ UpdateStakerInfo(s, p, AfterClaim(t))
      /\ UNCHANGED <<currentEra, accumulator, ledger, registeredProviders,
                     providerEraStake, generalEraInfo>>
  BY DEF ClaimStaker, eraVars
<1>2. /\ t # <<>> /\ t \in Seq(EraStake)
      /\ head = t[1]
      /\ t[1].era < currentEra
  BY <1>0, <1>1 DEF Claimable, ClaimableEra, InOrder
<1>3. t[1].era \in Nat /\ t[1].staked \in Nat
  BY <1>2, VectorType
<1>4. Pay(StakerReceipt(s, p))
  BY <1>1, <1>2 DEF StakerReceipt
<1>5. StakerReceipt(s, p) \in Receipt
  <2>1. StakerReward(p, t[1].era, t[1].staked) \in Nat
    BY <1>3, ShareTypes
  <2> QED
    BY <1>3, <2>1 DEF StakerReceipt, Receipt
<1>6. /\ stakerInfo'[s][p] = AfterClaim(t)
      /\ OtherHistoriesKept(s, p)
      /\ \A a \in Accounts, q \in Providers : StakeNow(a, q)' = StakeNow(a, q)
  <2>1. /\ InOrder(AfterClaim(t), currentEra)
        /\ LatestStakedValue(AfterClaim(t)) = StakeNow(s, p)
    BY <1>0, <1>2, AfterClaimInOrder, LatestAfterClaim DEF StakeNow
  <2>2. /\ StakeChanges(s, p, LatestStakedValue(AfterClaim(t)))
        /\ \A a \in Accounts, q \in Providers :
               stakerInfo'[a][q] = IF a = s /\ q = p THEN AfterClaim(t)
                                                     ELSE stakerInfo[a][q]
    BY <1>1, <2>1, HistoryWrite
  <2> QED
    BY <2>1, <2>2 DEF StakeChanges, OtherHistoriesKept
<1> HIDE DEF head
<1> QED
  BY <1>0, <1>1, <1>2, <1>3, <1>4, <1>5, <1>6

OperatorReceipt(p, e) ==
    [role |-> "operator", who |-> registeredProviders[p].operator,
     provider |-> p, era |-> e, staked |-> ProviderStakeAt(p, e).total,
     amount |-> OperatorsPart(p, e)]

LEMMA ClaimOperatorEffects ==
    ASSUME IInv, NEW p \in Providers, NEW e \in 0..MaxEra, ClaimOperator(p, e)
    PROVE  /\ e \in Nat /\ e \in DOMAIN generalEraInfo
           /\ ClaimableEra(p, e)
           /\ ~ProviderStakeAt(p, e).provider_reward_claimed
           /\ ProviderStakeAt(p, e).total > 0
           /\ e \in DOMAIN providerEraStake[p]
           /\ OperatorReceipt(p, e) \in Receipt
           /\ Pay(OperatorReceipt(p, e))
           /\ \E x \in ProviderStakeInfo :
                  /\ RecordBecomes(p, e, x)
                  /\ x.total = ProviderStakeAt(p, e).total
                  /\ x.number_of_stakers = ProviderStakeAt(p, e).number_of_stakers
                  /\ x.provider_reward_claimed
           /\ UNCHANGED <<currentEra, accumulator, ledger, registeredProviders,
                          stakerInfo, generalEraInfo>>
<1>0. e \in Nat
  BY DapiStakingAssumption
<1>1. /\ ClaimableEra(p, e) /\ IsRegistered(p)
      /\ e \in DOMAIN generalEraInfo
      /\ ~ProviderStakeAt(p, e).provider_reward_claimed
      /\ ProviderStakeAt(p, e).total > 0
      /\ Pay(OperatorReceipt(p, e))
      /\ RecordWritten(p, e, MarkClaimed(p, e))
      /\ UNCHANGED <<currentEra, accumulator, ledger, registeredProviders,
                     stakerInfo, generalEraInfo>>
  BY DEF ClaimOperator, ClaimableEra, eraVars, OperatorReceipt, RecordWritten
<1>2. registeredProviders[p].operator \in Accounts
  BY <1>1, TypeParts DEF IInv, ProvidersOK, ProviderInfo, IsRegistered
<1>3. OperatorReceipt(p, e) \in Receipt
  <2>1. OperatorsPart(p, e) \in Nat /\ ProviderStakeAt(p, e).total \in Nat
    BY ShareTypes, StakeInfoType
  <2> QED
    BY <1>0, <1>2, <2>1 DEF OperatorReceipt, Receipt
<1>4. e \in DOMAIN providerEraStake[p]
  BY <1>1 DEF ProviderStakeAt, Get, NoStake
<1>5. /\ MarkClaimed(p, e) \in ProviderStakeInfo
      /\ MarkClaimed(p, e).total = ProviderStakeAt(p, e).total
      /\ MarkClaimed(p, e).number_of_stakers = ProviderStakeAt(p, e).number_of_stakers
      /\ MarkClaimed(p, e).provider_reward_claimed
  BY StakeInfoType DEF MarkClaimed, ProviderStakeInfo
<1>6. RecordBecomes(p, e, MarkClaimed(p, e))
  BY <1>1, RecordWrite
<1> QED
  BY <1>0, <1>1, <1>3, <1>4, <1>5, <1>6

LEMMA PayKeepsReserves ==
    ASSUME IInv, NEW r \in Receipt, Pay(r), NEW a \in Accounts
    PROVE  account'[a].reserved = account[a].reserved
<1>1. AccountsOK /\ r.who \in Accounts
  BY TypeParts DEF IInv, Receipt
<1>2. account[a] \in Account /\ account[r.who] \in Account
  BY <1>1 DEF AccountsOK
<1>3. CASE account' = account
  BY <1>3
<1>4. CASE account' = [account EXCEPT ![r.who] = Deposit(account[r.who], r.amount)]
  <2>1. Deposit(account[r.who], r.amount).reserved = account[r.who].reserved
    BY <1>2 DEF Deposit, Account
  <2>2. account'[a] = IF a = r.who THEN Deposit(account[r.who], r.amount) ELSE account[a]
    BY <1>1, <1>4 DEF AccountsOK
  <2> QED
    BY <2>1, <2>2
<1> QED
  BY <1>3, <1>4 DEF Pay
-------------------------------------------------------------------------------
(* The invariant holds through every step *)

LEMMA SameDepositsKept ==
    ASSUME DepositsReserved, registeredProviders' = registeredProviders,
           \A a \in Accounts : account'[a].reserved = account[a].reserved
    PROVE  DepositsReserved'
<1>1. \A a \in Accounts : DepositsOf(a)' = DepositsOf(a)
  BY DEF DepositsOf
<1> QED
  BY <1>1, SameDeposits

LEMMA StakeBooksStep ==
    ASSUME BooksInv, IInv', NEW s \in Accounts, NEW p \in Providers,
           NEW v \in StakeAmounts, Stake(s, p, v)
    PROVE  BooksInv'
<1>1. /\ InBlock /\ IsActiveProvider(p)
      /\ StakeChecks(s, p, account[s], v)
      /\ StakeWrites(s, p, account[s], v)
      /\ UNCHANGED <<currentEra, registeredProviders>>
  BY DEF Stake, eraVars
<1>2. v \in Nat /\ Backed(account[s]) /\ IInv /\ Books /\ DepositsReserved
  BY DapiStakingAssumption, AccountBacked DEF BooksInv
<1> DEFINE n == StakeAmount(s, account[s], v)
<1>3. StakeMoved(s, p, account[s], n)
  BY <1>1, <1>2, StakeEffects DEF Books
<1> HIDE DEF n
<1>4. OtherProvidersKept(p) /\ IsActiveProvider(p)' /\ RecordMatches(p)
  BY <1>1, <1>2 DEF OtherProvidersKept, IsActiveProvider, IsRegistered, Books, RecordsMatch
<1>5. Books'
  BY <1>1, <1>2, <1>3, <1>4, StakeBooks
<1>6. DepositsReserved'
  <2>1. \A a \in Accounts : account'[a].reserved = account[a].reserved
    BY <1>3 DEF StakeMoved, OtherAccountsKept
  <2> QED
    BY <1>1, <1>2, <2>1, SameDepositsKept
<1> QED
  BY <1>5, <1>6 DEF BooksInv

LEMMA UnstakeBooksStep ==
    ASSUME BooksInv, IInv', NEW s \in Accounts, NEW p \in Providers,
           NEW v \in UnstakeAmounts, Unstake(s, p, v)
    PROVE  BooksInv'
<1>1. IInv /\ Books /\ DepositsReserved
  BY DEF BooksInv
<1> DEFINE n == UnstakeAmount(s, p, v)
<1>2. /\ StakeRemoved(s, p, v, n)
      /\ InBlock /\ IsActiveProvider(p)
      /\ UNCHANGED <<currentEra, registeredProviders>>
  BY <1>1, UnstakeEffects DEF Books
<1> HIDE DEF n
<1>3. OtherProvidersKept(p) /\ IsActiveProvider(p)' /\ RecordMatches(p)
  BY <1>1, <1>2 DEF OtherProvidersKept, IsActiveProvider, IsRegistered, Books, RecordsMatch
<1>4. Books'
  BY <1>1, <1>2, <1>3, UnstakeBooks
<1>5. DepositsReserved'
  <2>1. \A a \in Accounts : account'[a].reserved = account[a].reserved
    BY <1>2 DEF StakeRemoved, OtherAccountsKept
  <2> QED
    BY <1>1, <1>2, <2>1, SameDepositsKept
<1> QED
  BY <1>4, <1>5 DEF BooksInv

LEMMA WithdrawUnstakedBooksStep ==
    ASSUME BooksInv, IInv', NEW s \in Accounts, WithdrawUnstaked(s)
    PROVE  BooksInv'
<1>1. IInv /\ Books /\ DepositsReserved
  BY DEF BooksInv
<1>2. /\ \E n \in Nat : ChunksWithdrawn(s, n)
      /\ InBlock
      /\ UNCHANGED <<currentEra, registeredProviders, providerEraStake, stakerInfo>>
  BY <1>1, WithdrawUnstakedEffects DEF Books
<1>3. PICK n \in Nat : ChunksWithdrawn(s, n)
  BY <1>2
<1>4. Books'
  BY <1>1, <1>2, <1>3, WithdrawUnstakedBooks
<1>5. DepositsReserved'
  <2>1. \A a \in Accounts : account'[a].reserved = account[a].reserved
    BY <1>3 DEF ChunksWithdrawn, OtherAccountsKept
  <2> QED
    BY <1>1, <1>2, <2>1, SameDepositsKept
<1> QED
  BY <1>4, <1>5 DEF BooksInv

LEMMA WithdrawStakerBooksStep ==
    ASSUME BooksInv, IInv', NEW s \in Accounts, NEW p \in Providers,
           WithdrawFromUnregisteredStaker(s, p)
    PROVE  BooksInv'
<1>1. IInv /\ Books /\ DepositsReserved
  BY DEF BooksInv
<1> DEFINE n == StakeNow(s, p)
<1>2. /\ StakeWithdrawn(s, p, n)
      /\ InBlock /\ UnbondedSinceUnregistered(p)
      /\ UNCHANGED <<currentEra, registeredProviders, providerEraStake>>
  BY <1>1, WithdrawStakerEffects DEF Books
<1> HIDE DEF n
<1>3. Books'
  BY <1>1, <1>2, WithdrawStakerBooks
<1>4. DepositsReserved'
  <2>1. \A a \in Accounts : account'[a].reserved = account[a].reserved
    BY <1>2 DEF StakeWithdrawn, OtherAccountsKept
  <2> QED
    BY <1>1, <1>2, <2>1, SameDepositsKept
<1> QED
  BY <1>3, <1>4 DEF BooksInv

LEMMA RegisterBooksStep ==
    ASSUME BooksInv, IInv', NEW o \in Accounts, NEW p \in Providers,
           NEW d \in DepositAmounts, Register(o, p, d)
    PROVE  BooksInv'
<1> DEFINE b == Reserve(account[o], RegisterDeposit)
           value == SaturatingSub(d, RegisterDeposit)
<1>1. /\ RegisterChecks(o, p, d)
      /\ StakeChecks(o, p, b, value)
      /\ registeredProviders' = Insert(registeredProviders, p, NewProvider(o))
      /\ StakeWrites(o, p, b, value)
      /\ currentEra' = currentEra
  BY DEF Register, eraVars
<1>2. /\ d \in Nat /\ value \in Nat /\ IInv /\ Books /\ DepositsReserved
      /\ InBlock /\ ~IsRegistered(p)
  BY <1>1, DapiStakingAssumption, SaturatingSubType DEF BooksInv, RegisterChecks
<1>3. Backed(b) /\ b.reserved = account[o].reserved + RegisterDeposit
  BY <1>1, <1>2, RegisterWrites DEF Reserve
<1> HIDE DEF b, value
<1> DEFINE n == StakeAmount(o, b, value)
<1>4. StakeMoved(o, p, b, n)
  BY <1>1, <1>2, <1>3, StakeEffects DEF Books
<1> HIDE DEF n
<1>5. OtherProvidersKept(p) /\ IsActiveProvider(p)' /\ RecordMatches(p)
  BY <1>1, <1>2, NewProviderKnown, UnknownProvider DEF Books
<1>6. Books'
  BY <1>1, <1>2, <1>4, <1>5, StakeBooks
<1>7. DepositsReserved'
  <2>1. account'[o].reserved = account[o].reserved + RegisterDeposit /\ OtherAccountsKept(o)
    BY <1>3, <1>4 DEF StakeMoved
  <2> QED
    BY <1>1, <1>2, <2>1, DepositTaken
<1> QED
  BY <1>6, <1>7 DEF BooksInv

LEMMA RegisterStakeFailsBooksStep ==
    ASSUME BooksInv, IInv', NEW o \in Accounts, NEW p \in Providers,
           NEW d \in DepositAmounts, RegisterStakeFails(o, p, d)
    PROVE  BooksInv'
<1>1. /\ RegisterChecks(o, p, d)
      /\ registeredProviders' = Insert(registeredProviders, p, NewProvider(o))
      /\ account' = [account EXCEPT ![o] = Reserve(account[o], RegisterDeposit)]
      /\ UNCHANGED <<currentEra, ledger, stakerInfo, providerEraStake, generalEraInfo>>
  BY DEF RegisterStakeFails, eraVars
<1>2. /\ IInv /\ Books /\ DepositsReserved /\ ~IsRegistered(p)
  BY <1>1 DEF BooksInv, RegisterChecks
<1>3. OtherProvidersKept(p) /\ IsActiveProvider(p)' /\ RecordMatches(p)
  BY <1>1, <1>2, NewProviderKnown, UnknownProvider DEF Books
<1>4. Books'
  <2>1. \A a \in Accounts, q \in Providers : StakeNow(a, q)' = StakeNow(a, q)
    BY <1>1 DEF StakeNow
  <2>2. RecordsInRange'
    <3>1. IsRegistered(p)' /\ ~IsUnregistered(p)'
      BY <1>3 DEF IsActiveProvider, IsUnregistered
    <3>2. \A q \in Providers \ {p} :
              /\ IsRegistered(q)' <=> IsRegistered(q)
              /\ IsUnregistered(q)' <=> IsUnregistered(q)
              /\ IsUnregistered(q) => registeredProviders'[q] = registeredProviders[q]
      BY <1>3 DEF OtherProvidersKept, IsRegistered, IsUnregistered
    <3> QED
      BY <1>1, <1>2, <3>1, <3>2 DEF RecordsInRange, Books
  <2>3. ASSUME NEW q \in Providers
        PROVE  /\ DOMAIN providerEraStake'[q] = DOMAIN providerEraStake[q]
               /\ ProviderStakeAt(q, currentEra)' = ProviderStakeAt(q, currentEra)
               /\ IsActiveProvider(q)' => IsActiveProvider(q) \/ RecordMatches(q)
    BY <1>1, <1>3 DEF ProviderStakeAt, Get, OtherProvidersKept, IsActiveProvider,
                      IsRegistered
  <2> QED
    BY <1>1, <1>2, <2>1, <2>2, <2>3, BooksFrame
<1>5. DepositsReserved'
  <2>1. AccountsOK /\ RegisterDeposit \in Nat
    BY <1>2, TypeParts, DapiStakingAssumption DEF IInv
  <2>2. account'[o].reserved = account[o].reserved + RegisterDeposit /\ OtherAccountsKept(o)
    BY <1>1, <2>1 DEF AccountsOK, Reserve, OtherAccountsKept
  <2> QED
    BY <1>1, <1>2, <2>2, DepositTaken
<1> QED
  BY <1>4, <1>5 DEF BooksInv

(* Steps that leave the registry and the histories alone.                  *)
LEMMA QuietBooks ==
    ASSUME Books,
           UNCHANGED <<currentEra, ledger, generalEraInfo, stakerInfo,
                       registeredProviders, providerEraStake>>
    PROVE  Books'
<1>1. /\ \A a \in Accounts, q \in Providers : StakeNow(a, q)' = StakeNow(a, q)
      /\ RecordsInRange'
      /\ \A q \in Providers :
             ProviderStakeAt(q, currentEra)' = ProviderStakeAt(q, currentEra)
      /\ \A q \in Providers : IsActiveProvider(q)' => IsActiveProvider(q)
  BY DEF StakeNow, Books, RecordsInRange, ProviderStakeAt, Get, IsActiveProvider,
         IsRegistered, IsUnregistered
<1> QED
  BY <1>1, BooksFrame

LEMMA ClaimStakerBooksStep ==
    ASSUME BooksInv, IInv', NEW s \in Accounts, NEW p \in Providers, ClaimStaker(s, p)
    PROVE  BooksInv'
<1>1. IInv /\ Books /\ DepositsReserved
  BY DEF BooksInv
<1>2. /\ IsRegistered(p)
      /\ StakerReceipt(s, p) \in Receipt /\ Pay(StakerReceipt(s, p))
      /\ OtherHistoriesKept(s, p)
      /\ \A a \in Accounts, q \in Providers : StakeNow(a, q)' = StakeNow(a, q)
      /\ UNCHANGED <<currentEra, ledger, registeredProviders, providerEraStake,
                     generalEraInfo>>
  BY <1>1, ClaimStakerEffects DEF ClaimableEra
<1>3. Books'
  <2>1. RecordsInRange'
    <3>1. \A q \in Providers : /\ IsRegistered(q)' <=> IsRegistered(q)
                               /\ IsUnregistered(q)' <=> IsUnregistered(q)
      BY <1>2 DEF IsRegistered, IsUnregistered
    <3>2. \A q \in Providers : ~IsRegistered(q) =>
              \A a \in Accounts : stakerInfo'[a][q] = stakerInfo[a][q]
      BY <1>2 DEF OtherHistoriesKept
    <3> QED
      BY <1>1, <1>2, <3>1, <3>2 DEF RecordsInRange, Books
  <2>2. \A q \in Providers :
            /\ ProviderStakeAt(q, currentEra)' = ProviderStakeAt(q, currentEra)
            /\ IsActiveProvider(q)' => IsActiveProvider(q)
    BY <1>2 DEF ProviderStakeAt, Get, IsActiveProvider, IsRegistered
  <2> QED
    BY <1>1, <1>2, <2>1, <2>2, BooksFrame
<1>4. DepositsReserved'
  <2>1. \A a \in Accounts : account'[a].reserved = account[a].reserved
    BY <1>1, <1>2, PayKeepsReserves
  <2> QED
    BY <1>1, <1>2, <2>1, SameDepositsKept
<1> QED
  BY <1>3, <1>4 DEF BooksInv

LEMMA ClaimOperatorBooksStep ==
    ASSUME BooksInv, IInv', NEW p \in Providers, NEW e \in 0..MaxEra, ClaimOperator(p, e)
    PROVE  BooksInv'
<1>1. IInv /\ Books /\ DepositsReserved
  BY DEF BooksInv
<1>2. /\ e \in DOMAIN providerEraStake[p]
      /\ OperatorReceipt(p, e) \in Receipt /\ Pay(OperatorReceipt(p, e))
      /\ UNCHANGED <<currentEra, ledger, registeredProviders, stakerInfo,
                     generalEraInfo>>
  BY <1>1, ClaimOperatorEffects
<1>3. PICK x \in ProviderStakeInfo :
          /\ RecordBecomes(p, e, x)
          /\ x.total = ProviderStakeAt(p, e).total
          /\ x.number_of_stakers = ProviderStakeAt(p, e).number_of_stakers
  BY <1>1, ClaimOperatorEffects
<1>4. /\ \A q \in Providers : DOMAIN providerEraStake'[q] = DOMAIN providerEraStake[q]
      /\ \A q \in Providers : \A k :
             /\ ProviderStakeAt(q, k)'.total = ProviderStakeAt(q, k).total
             /\ ProviderStakeAt(q, k)'.number_of_stakers
                    = ProviderStakeAt(q, k).number_of_stakers
  BY <1>2, <1>3 DEF RecordBecomes
<1>5. Books'
  <2>1. RecordsInRange'
    <3>1. \A q \in Providers : /\ IsRegistered(q)' <=> IsRegistered(q)
                               /\ IsUnregistered(q)' <=> IsUnregistered(q)
      BY <1>2 DEF IsRegistered, IsUnregistered
    <3> QED
      BY <1>1, <1>2, <1>4, <3>1 DEF RecordsInRange, Books
  <2>2. ASSUME NEW q \in Providers
        PROVE  /\ ProviderStakeAt(q, currentEra)'.total
                      = ProviderStakeAt(q, currentEra).total
               /\ ProviderStakeAt(q, currentEra)'.number_of_stakers
                      = ProviderStakeAt(q, currentEra).number_of_stakers
    <3>1. PICK k : k = currentEra
      OBVIOUS
    <3>2. ProviderStakeAt(q, currentEra)' = ProviderStakeAt(q, k)'
      BY <1>2, <3>1 DEF ProviderStakeAt, Get
    <3> QED
      BY <1>4, <3>1, <3>2
  <2>3. \A q \in Providers : IsActiveProvider(q)' => IsActiveProvider(q)
    BY <1>2 DEF IsActiveProvider, IsRegistered
  <2>4. \A a \in Accounts, q \in Providers : StakeNow(a, q)' = StakeNow(a, q)
    BY <1>2 DEF StakeNow
  <2> QED
    BY <1>1, <1>2, <1>4, <2>1, <2>2, <2>3, <2>4, BooksFrame
<1>6. DepositsReserved'
  <2>1. \A a \in Accounts : account'[a].reserved = account[a].reserved
    BY <1>1, <1>2, PayKeepsReserves
  <2> QED
    BY <1>1, <1>2, <2>1, SameDepositsKept
<1> QED
  BY <1>5, <1>6 DEF BooksInv

LEMMA UnregisterBooksStep ==
    ASSUME BooksInv, IInv', NEW p \in Providers, Unregister(p)
    PROVE  BooksInv'
<1> DEFINE x == [registeredProviders[p] EXCEPT
                    !.state = "Unregistered", !.since = currentEra]
<1>1. /\ InBlock /\ IsRegistered(p) /\ IsActiveProvider(p)
      /\ registeredProviders' = [registeredProviders EXCEPT ![p] = x]
      /\ UNCHANGED <<currentEra, account, ledger, stakerInfo, providerEraStake,
                     generalEraInfo>>
  BY DEF Unregister, IsActiveProvider, eraVars, rewardVars
<1>2. /\ IInv /\ Books /\ DepositsReserved
      /\ currentEra \in Nat /\ currentEra > 0
      /\ registeredProviders[p] \in ProviderInfo
  BY <1>1, TypeParts DEF BooksInv, IInv, ErasOK, InBlock, ProvidersOK, IsRegistered
<1>3. /\ x.state = "Unregistered" /\ x.since = currentEra
      /\ x.operator = registeredProviders[p].operator
      /\ x.unreserved = registeredProviders[p].unreserved
  BY <1>2 DEF ProviderInfo
<1> HIDE DEF x
<1>4. /\ DOMAIN registeredProviders' = DOMAIN registeredProviders
      /\ registeredProviders'[p] = x
      /\ \A q \in DOMAIN registeredProviders :
             q # p => registeredProviders'[q] = registeredProviders[q]
  BY <1>1 DEF IsRegistered
<1>5. Books'
  <2>1. RecordsInRange'
    <3>1. \A q \in Providers : IsRegistered(q)' <=> IsRegistered(q)
      BY <1>4 DEF IsRegistered
    <3>2. \A q \in Providers \ {p} :
              /\ IsUnregistered(q)' <=> IsUnregistered(q)
              /\ IsUnregistered(q) => registeredProviders'[q] = registeredProviders[q]
      BY <1>4 DEF IsUnregistered, IsRegistered
    <3>3. /\ registeredProviders'[p].since \in 1..currentEra
          /\ \A e \in DOMAIN providerEraStake[p] :
                 e \in 1..currentEra /\ e <= registeredProviders'[p].since
      BY <1>2, <1>3, <1>4 DEF Books, RecordsInRange
    <3> QED
      BY <1>1, <1>2, <3>1, <3>2, <3>3 DEF Books, RecordsInRange
  <2>2. /\ \A q \in Providers : IsActiveProvider(q)' => IsActiveProvider(q)
        /\ \A q \in Providers :
               ProviderStakeAt(q, currentEra)' = ProviderStakeAt(q, currentEra)
        /\ \A a \in Accounts, q \in Providers : StakeNow(a, q)' = StakeNow(a, q)
    BY <1>1, <1>3, <1>4
       DEF IsActiveProvider, IsRegistered, ProviderStakeAt, Get, StakeNow
  <2> QED
    BY <1>1, <1>2, <2>1, <2>2, BooksFrame
<1>6. DepositsReserved'
  <2>1. ASSUME NEW a \in Accounts PROVE DepositsOf(a)' = DepositsOf(a)
    <3>1. \A q \in DOMAIN registeredProviders :
              /\ registeredProviders'[q].operator = registeredProviders[q].operator
              /\ registeredProviders'[q].unreserved = registeredProviders[q].unreserved
      BY <1>3, <1>4
    <3> QED
      BY <1>4, <3>1, Zenon DEF DepositsOf
  <2> QED
    BY <1>1, <1>2, <2>1, SameDeposits
<1> QED
  BY <1>5, <1>6 DEF BooksInv

LEMMA WithdrawOperatorBooksStep ==
    ASSUME BooksInv, IInv', NEW p \in Providers, WithdrawFromUnregisteredOperator(p)
    PROVE  BooksInv'
<1>1. /\ IsRegistered(p) /\ ~registeredProviders[p].unreserved
      /\ registeredProviders' = [registeredProviders EXCEPT ![p] = MarkUnreserved(p)]
      /\ account' = [account EXCEPT ![registeredProviders[p].operator] =
             Unreserve(account[registeredProviders[p].operator], RegisterDeposit)]
      /\ UNCHANGED <<currentEra, ledger, stakerInfo, providerEraStake, generalEraInfo>>
  BY DEF WithdrawFromUnregisteredOperator, UnbondedSinceUnregistered,
         IsUnregistered, eraVars
<1>2. /\ IInv /\ Books /\ DepositsReserved
      /\ registeredProviders[p] \in ProviderInfo
  BY <1>1, TypeParts DEF BooksInv, IInv, ProvidersOK, IsRegistered
<1>3. /\ MarkUnreserved(p).state = registeredProviders[p].state
      /\ MarkUnreserved(p).since = registeredProviders[p].since
  BY <1>2 DEF MarkUnreserved, ProviderInfo
<1>4. /\ DOMAIN registeredProviders' = DOMAIN registeredProviders
      /\ \A q \in DOMAIN registeredProviders :
             /\ registeredProviders'[q].state = registeredProviders[q].state
             /\ registeredProviders'[q].since = registeredProviders[q].since
  BY <1>1, <1>3 DEF IsRegistered
<1>5. Books'
  <2>1. \A q \in Providers :
            /\ IsRegistered(q)' <=> IsRegistered(q)
            /\ IsUnregistered(q)' <=> IsUnregistered(q)
            /\ IsActiveProvider(q)' => IsActiveProvider(q)
            /\ IsUnregistered(q) =>
                   registeredProviders'[q].since = registeredProviders[q].since
    BY <1>4 DEF IsRegistered, IsUnregistered, IsActiveProvider
  <2>2. RecordsInRange'
    BY <1>1, <1>2, <2>1 DEF Books, RecordsInRange
  <2>3. /\ \A q \in Providers :
               ProviderStakeAt(q, currentEra)' = ProviderStakeAt(q, currentEra)
        /\ \A a \in Accounts, q \in Providers : StakeNow(a, q)' = StakeNow(a, q)
    BY <1>1 DEF ProviderStakeAt, Get, StakeNow
  <2> QED
    BY <1>1, <1>2, <2>1, <2>2, <2>3, BooksFrame
<1>6. DepositsReserved'
  BY <1>1, <1>2, DepositReturned
<1> QED
  BY <1>5, <1>6 DEF BooksInv

LEMMA QuietBooksStep ==
    ASSUME BooksInv, IInv',
           \/ ForceNewEra
           \/ \E v \in RewardAmounts : Rewards(v)
           \/ \E s \in Accounts, v \in SpendAmounts : SpendElsewhere(s, v)
           \/ UNCHANGED vars
    PROVE  BooksInv'
<1>1. /\ UNCHANGED <<currentEra, ledger, generalEraInfo, stakerInfo,
                     registeredProviders, providerEraStake>>
      /\ \/ account' = account
         \/ \E s \in Accounts, v \in SpendAmounts :
                account' = [account EXCEPT ![s] = Spend(account[s], v)]
  BY DEF ForceNewEra, Rewards, SpendElsewhere, vars, eraVars
<1>2. IInv /\ Books /\ DepositsReserved /\ AccountsOK
  BY TypeParts DEF BooksInv, IInv
<1>3. Books'
  BY <1>1, <1>2, QuietBooks
<1>4. \A a \in Accounts : account'[a].reserved = account[a].reserved
  <2>1. CASE account' = account
    BY <2>1
  <2>2. ASSUME NEW s \in Accounts, NEW v \in SpendAmounts, NEW a \in Accounts,
               account' = [account EXCEPT ![s] = Spend(account[s], v)]
        PROVE  account'[a].reserved = account[a].reserved
    <3>1. Spend(account[s], v).reserved = account[s].reserved
      BY <1>2 DEF AccountsOK, Account, Spend
    <3>2. account'[a] = IF a = s THEN Spend(account[s], v) ELSE account[a]
      BY <1>2, <2>2 DEF AccountsOK
    <3> QED
      BY <3>1, <3>2
  <2> QED
    BY <1>1, <2>1, <2>2
<1>5. DepositsReserved'
  BY <1>1, <1>2, <1>4, SameDepositsKept
<1> QED
  BY <1>3, <1>5 DEF BooksInv

(* What the rotation does to the records of provider p.                    *)
ProviderEraBegins(p) ==
    /\ DOMAIN providerEraStake'[p] =
           IF IsActiveProvider(p) /\ currentEra \in DOMAIN providerEraStake[p]
           THEN DOMAIN providerEraStake[p] \cup {currentEra + 1}
           ELSE DOMAIN providerEraStake[p]
    /\ \A e \in DOMAIN providerEraStake[p] :
           e # currentEra + 1 => providerEraStake'[p][e] = providerEraStake[p][e]
    /\ IsActiveProvider(p) /\ currentEra \in DOMAIN providerEraStake[p] =>
           /\ providerEraStake'[p][currentEra + 1].total
                  = providerEraStake[p][currentEra].total
           /\ providerEraStake'[p][currentEra + 1].number_of_stakers
                  = providerEraStake[p][currentEra].number_of_stakers
           /\ ~providerEraStake'[p][currentEra + 1].provider_reward_claimed

(* A new era begins: the old one gets its rewards, the new one the totals. *)
EraBegins ==
    /\ currentEra < MaxEra
    /\ currentEra' = currentEra + 1
    /\ accumulator' = NoReward
    /\ DOMAIN generalEraInfo' = DOMAIN generalEraInfo \cup {currentEra, currentEra + 1}
    /\ generalEraInfo'[currentEra + 1].rewards = NoReward
    /\ generalEraInfo'[currentEra + 1].staked = EraInfoAt(currentEra).staked
    /\ generalEraInfo'[currentEra + 1].locked = EraInfoAt(currentEra).locked
    /\ generalEraInfo'[currentEra].rewards = accumulator
    /\ generalEraInfo'[currentEra].staked = EraInfoAt(currentEra).staked
    /\ generalEraInfo'[currentEra].locked = EraInfoAt(currentEra).locked
    /\ \A e \in DOMAIN generalEraInfo :
           e \notin {currentEra, currentEra + 1} => generalEraInfo'[e] = generalEraInfo[e]
    /\ \A p \in Providers : ProviderEraBegins(p)

LEMMA OnInitializeEffects ==
    ASSUME IInv, OnInitialize
    PROVE  /\ UNCHANGED <<account, pot, ledger, stakerInfo, registeredProviders, receipts>>
           /\ \/ EraBegins
              \/ UNCHANGED <<currentEra, accumulator, generalEraInfo, providerEraStake>>
<1> DEFINE block == (now + 1) % BlockPerEra
<1>1. UNCHANGED <<account, pot, ledger, stakerInfo, registeredProviders, receipts>>
  BY DEF OnInitialize
<1>2. CASE EraEnds(block) /\ currentEra < MaxEra
  <2>1. /\ currentEra' = currentEra + 1
        /\ accumulator' = NoReward
        /\ RewardBalanceSnapshot(currentEra)
        /\ RotateStakingInfo(currentEra)
    BY <1>2 DEF OnInitialize, AccumulatorAfterSnapshot
  <2>2. currentEra \in Nat /\ EraStakesOK
    BY TypeParts DEF IInv, ErasOK
  <2> DEFINE info == EraInfoAt(currentEra)
             x == [info EXCEPT !.rewards = NoReward]
             y == [info EXCEPT !.rewards = accumulator]
             grown == Insert(generalEraInfo, currentEra + 1, x)
             c(p) == [providerEraStake[p][currentEra]
                          EXCEPT !.provider_reward_claimed = FALSE]
  <2>3. /\ generalEraInfo' = Insert(grown, currentEra, y)
        /\ providerEraStake' = [p \in Providers |->
               IF IsActiveProvider(p) /\ currentEra \in DOMAIN providerEraStake[p]
               THEN Insert(providerEraStake[p], currentEra + 1, c(p))
               ELSE providerEraStake[p]]
    BY <2>1 DEF RewardBalanceSnapshot, RotateStakingInfo
  <2>4. /\ x.rewards = NoReward /\ x.staked = info.staked /\ x.locked = info.locked
        /\ y.rewards = accumulator /\ y.staked = info.staked /\ y.locked = info.locked
    <3>1. info \in EraInfo
      BY EraInfoType
    <3> HIDE DEF info
    <3> QED
      BY <3>1 DEF EraInfo
  <2> HIDE DEF info, x, y
  <2>5. /\ DOMAIN grown = DOMAIN generalEraInfo \cup {currentEra + 1}
        /\ grown[currentEra + 1] = x
        /\ \A e \in DOMAIN generalEraInfo :
               e # currentEra + 1 => grown[e] = generalEraInfo[e]
    BY DEF Insert
  <2> HIDE DEF grown
  <2>6. /\ DOMAIN generalEraInfo' = DOMAIN grown \cup {currentEra}
        /\ generalEraInfo'[currentEra] = y
        /\ \A e \in DOMAIN grown : e # currentEra => generalEraInfo'[e] = grown[e]
    BY <2>3 DEF Insert
  <2>7. /\ DOMAIN generalEraInfo' = DOMAIN generalEraInfo \cup {currentEra, currentEra + 1}
        /\ generalEraInfo'[currentEra + 1] = x
        /\ generalEraInfo'[currentEra] = y
        /\ \A e \in DOMAIN generalEraInfo :
               e \notin {currentEra, currentEra + 1} =>
                   generalEraInfo'[e] = generalEraInfo[e]
    BY <2>2, <2>5, <2>6
  <2>8. \A p \in Providers : currentEra \in DOMAIN providerEraStake[p] =>
            /\ c(p).total = providerEraStake[p][currentEra].total
            /\ c(p).number_of_stakers = providerEraStake[p][currentEra].number_of_stakers
            /\ ~c(p).provider_reward_claimed
    BY <2>2 DEF EraStakesOK, ProviderStakeInfo
  <2> HIDE DEF c
  <2>9. ASSUME NEW p \in Providers
        PROVE  /\ DOMAIN providerEraStake'[p] =
                      IF IsActiveProvider(p) /\ currentEra \in DOMAIN providerEraStake[p]
                      THEN DOMAIN providerEraStake[p] \cup {currentEra + 1}
                      ELSE DOMAIN providerEraStake[p]
               /\ \A e \in DOMAIN providerEraStake[p] :
                      e # currentEra + 1 =>
                          providerEraStake'[p][e] = providerEraStake[p][e]
               /\ IsActiveProvider(p) /\ currentEra \in DOMAIN providerEraStake[p] =>
                      providerEraStake'[p][currentEra + 1] = c(p)
    <3>1. CASE IsActiveProvider(p) /\ currentEra \in DOMAIN providerEraStake[p]
      <4>1. providerEraStake'[p] = Insert(providerEraStake[p], currentEra + 1, c(p))
        BY <2>3, <3>1
      <4> QED
        BY <3>1, <4>1 DEF Insert
    <3>2. CASE ~(IsActiveProvider(p) /\ currentEra \in DOMAIN providerEraStake[p])
      <4>1. providerEraStake'[p] = providerEraStake[p]
        BY <2>3, <3>2
      <4> QED
        BY <3>2, <4>1
    <3> QED
      BY <3>1, <3>2
  <2>10. ASSUME NEW p \in Providers, IsActiveProvider(p),
                currentEra \in DOMAIN providerEraStake[p]
         PROVE  /\ providerEraStake'[p][currentEra + 1].total
                       = providerEraStake[p][currentEra].total
                /\ providerEraStake'[p][currentEra + 1].number_of_stakers
                       = providerEraStake[p][currentEra].number_of_stakers
                /\ ~providerEraStake'[p][currentEra + 1].provider_reward_claimed
    BY <2>8, <2>9, <2>10
  <2>11. /\ generalEraInfo'[currentEra + 1].rewards = NoReward
         /\ generalEraInfo'[currentEra + 1].staked = EraInfoAt(currentEra).staked
         /\ generalEraInfo'[currentEra + 1].locked = EraInfoAt(currentEra).locked
         /\ generalEraInfo'[currentEra].rewards = accumulator
         /\ generalEraInfo'[currentEra].staked = EraInfoAt(currentEra).staked
         /\ generalEraInfo'[currentEra].locked = EraInfoAt(currentEra).locked
    BY <2>4, <2>7 DEF info
  <2>12. \A p \in Providers : ProviderEraBegins(p)
    BY <2>9, <2>10 DEF ProviderEraBegins
  <2>13. EraBegins
    BY <1>2, <2>1, <2>7, <2>11, <2>12 DEF EraBegins
  <2> QED
    BY <1>1, <2>13
<1>3. CASE UNCHANGED <<currentEra, accumulator, generalEraInfo, providerEraStake, forceEra>>
  BY <1>1, <1>3
<1> QED
  BY <1>2, <1>3 DEF OnInitialize

LEMMA OnInitializeBooksStep ==
    ASSUME BooksInv, IInv', OnInitialize
    PROVE  BooksInv'
<1>1. IInv /\ Books /\ DepositsReserved
  BY DEF BooksInv
<1>2. /\ UNCHANGED <<account, pot, ledger, stakerInfo, registeredProviders, receipts>>
      /\ \/ EraBegins
         \/ UNCHANGED <<currentEra, accumulator, generalEraInfo, providerEraStake>>
  BY <1>1, OnInitializeEffects
<1>3. DepositsReserved'
  BY <1>1, <1>2, SameDepositsKept
<1>4. CASE UNCHANGED <<currentEra, accumulator, generalEraInfo, providerEraStake>>
  <2>1. Books'
    BY <1>1, <1>2, <1>4, QuietBooks
  <2> QED
    BY <1>3, <2>1 DEF BooksInv
<1>5. CASE EraBegins
  <2>0. currentEra \in Nat /\ currentEra' = currentEra + 1
    BY <1>1, <1>5, TypeParts DEF IInv, ErasOK, EraBegins
  <2>1. /\ \A s \in Accounts : StakeOf(s)' = StakeOf(s)
        /\ \A p \in Providers : StakeOn(p)' = StakeOn(p)
        /\ \A p \in Providers : StakersOn(p)' = StakersOn(p)
        /\ StakesTotal' = StakesTotal
        /\ LockedTotal' = LockedTotal
    BY <1>2, SameStakes, SameLedgers
  <2>2. ChunksOK'
    BY <1>1, <1>2 DEF Books, ChunksOK
  <2>3. ErasKnown'
    BY <1>1, <1>5, <2>0 DEF Books, ErasKnown, EraBegins
  <2>4. LedgerMatchesStakes'
    <3>1. \A a \in Accounts : ledger'[a].locked = StakeOf(a)' + Sum(ledger'[a].unbonding)
      BY <1>1, <1>2, <2>1 DEF Books, LedgerMatchesStakes, ChunkSum
    <3> QED
      BY <3>1 DEF LedgerMatchesStakes, ChunkSum
  <2>5. TotalsMatch'
    <3>1. /\ EraInfoAt(currentEra)'.staked = EraInfoAt(currentEra).staked
          /\ EraInfoAt(currentEra)'.locked = EraInfoAt(currentEra).locked
      <4>1. EraInfoAt(currentEra)' = generalEraInfo'[currentEra + 1]
        BY <1>5, <2>0 DEF EraBegins, EraInfoAt, Get
      <4> QED
        BY <1>5, <4>1 DEF EraBegins
    <3> QED
      BY <1>1, <2>1, <3>1, EraTotalsDef DEF Books
  <2>6. ASSUME NEW p \in Providers
        PROVE  /\ IsRegistered(p)' <=> IsRegistered(p)
               /\ IsUnregistered(p)' <=> IsUnregistered(p)
               /\ IsActiveProvider(p)' <=> IsActiveProvider(p)
               /\ IsActiveProvider(p) => ~IsUnregistered(p)
               /\ IsActiveProvider(p) => IsRegistered(p)
    BY <1>2 DEF IsRegistered, IsUnregistered, IsActiveProvider
  <2>7. RecordsInRange'
    <3> SUFFICES ASSUME NEW p \in Providers
                 PROVE  /\ \A e \in DOMAIN providerEraStake'[p] : e \in 1..(currentEra + 1)
                        /\ ~IsRegistered(p) =>
                               /\ DOMAIN providerEraStake'[p] = {}
                               /\ \A s \in Accounts : stakerInfo[s][p] = <<>>
                        /\ IsUnregistered(p) =>
                               /\ registeredProviders[p].since \in 1..(currentEra + 1)
                               /\ \A e \in DOMAIN providerEraStake'[p] :
                                      e <= registeredProviders[p].since
      BY <1>2, <2>0, <2>6 DEF RecordsInRange
    <3>1. /\ \A e \in DOMAIN providerEraStake[p] : e \in 1..currentEra
          /\ ~IsRegistered(p) =>
                 /\ DOMAIN providerEraStake[p] = {}
                 /\ \A s \in Accounts : stakerInfo[s][p] = <<>>
          /\ IsUnregistered(p) =>
                 /\ registeredProviders[p].since \in 1..currentEra
                 /\ \A e \in DOMAIN providerEraStake[p] : e <= registeredProviders[p].since
      BY <1>1 DEF Books, RecordsInRange
    <3>2. DOMAIN providerEraStake'[p] =
              IF IsActiveProvider(p) /\ currentEra \in DOMAIN providerEraStake[p]
              THEN DOMAIN providerEraStake[p] \cup {currentEra + 1}
              ELSE DOMAIN providerEraStake[p]
      BY <1>5 DEF EraBegins, ProviderEraBegins
    <3>3. \A e \in DOMAIN providerEraStake'[p] : e \in 1..(currentEra + 1)
      BY <2>0, <3>1, <3>2
    <3>4. ~IsActiveProvider(p) => DOMAIN providerEraStake'[p] = DOMAIN providerEraStake[p]
      BY <3>2
    <3>5. IsUnregistered(p) => registeredProviders[p].since \in 1..(currentEra + 1)
      BY <2>0, <3>1
    <3> QED
      BY <2>6, <3>1, <3>3, <3>4, <3>5
  <2>8. RecordsMatch'
    <3> SUFFICES ASSUME NEW p \in Providers,
                        IsActiveProvider(p) \/ currentEra + 1 \in DOMAIN providerEraStake'[p]
                 PROVE  RecordMatches(p)'
      BY <2>0, <2>6 DEF RecordsMatch
    <3>1. /\ DOMAIN providerEraStake'[p] =
                 IF IsActiveProvider(p) /\ currentEra \in DOMAIN providerEraStake[p]
                 THEN DOMAIN providerEraStake[p] \cup {currentEra + 1}
                 ELSE DOMAIN providerEraStake[p]
          /\ IsActiveProvider(p) /\ currentEra \in DOMAIN providerEraStake[p] =>
                  /\ providerEraStake'[p][currentEra + 1].total
                         = providerEraStake[p][currentEra].total
                  /\ providerEraStake'[p][currentEra + 1].number_of_stakers
                         = providerEraStake[p][currentEra].number_of_stakers
      BY <1>5 DEF EraBegins, ProviderEraBegins
    <3>2. currentEra + 1 \notin DOMAIN providerEraStake[p]
      BY <1>1, <2>0 DEF Books, RecordsInRange
    <3>3. IsActiveProvider(p)
      BY <3>1, <3>2
    <3>4. RecordMatches(p)
      BY <1>1, <3>3 DEF Books, RecordsMatch
    <3>5. /\ ProviderStakeAt(p, currentEra)'.total = ProviderStakeAt(p, currentEra).total
          /\ ProviderStakeAt(p, currentEra)'.number_of_stakers
                 = ProviderStakeAt(p, currentEra).number_of_stakers
      <4>1. CASE currentEra \in DOMAIN providerEraStake[p]
        BY <2>0, <3>1, <3>3, <4>1 DEF ProviderStakeAt, Get
      <4>2. CASE currentEra \notin DOMAIN providerEraStake[p]
        BY <2>0, <3>1, <3>2, <4>2 DEF ProviderStakeAt, Get
      <4> QED
        BY <4>1, <4>2
    <3> QED
      BY <2>1, <3>4, <3>5 DEF RecordMatches
  <2>9. Books'
    BY <2>2, <2>3, <2>4, <2>5, <2>7, <2>8 DEF Books
  <2> QED
    BY <1>3, <2>9 DEF BooksInv
<1> QED
  BY <1>2, <1>4, <1>5

LEMMA InitBooks == Init => BooksInv
<1> SUFFICES ASSUME Init PROVE BooksInv
  OBVIOUS
<1>1. IInv
  BY InitIInv
<1>2. /\ \A s \in Accounts : /\ ledger[s].locked = 0
                             /\ ledger[s].unbonding = NoChunks
                             /\ account[s].reserved = 0
      /\ \A s \in Accounts, p \in Providers : stakerInfo[s][p] = <<>>
      /\ DOMAIN registeredProviders = {}
      /\ \A p \in Providers : DOMAIN providerEraStake[p] = {}
      /\ DOMAIN generalEraInfo = {}
      /\ currentEra = 0
  BY DEF Init, EmptyLedger, NewAccount
<1>3. \A s \in Accounts, p \in Providers : StakeNow(s, p) = 0
  BY <1>2 DEF StakeNow, LatestStakedValue
<1>4. NoChunks \in [{} -> Nat] /\ DOMAIN NoChunks = {} /\ Sum(NoChunks) = 0
  <2>1. NoChunks \in [{} -> Nat] /\ DOMAIN NoChunks = {}
    BY DEF NoChunks
  <2> QED
    BY <2>1, SumEmpty
<1>5. ChunksOK
  BY <1>2, <1>4, FS_EmptySet DEF ChunksOK, IsChunks
<1>6. ASSUME NEW s \in Accounts PROVE StakeOf(s) = 0
  <2> DEFINE f == [p \in Providers |-> StakeNow(s, p)]
  <2>1. f \in [Providers -> Nat] /\ \A p \in Providers : f[p] = 0
    BY <1>3
  <2>2. StakeOf(s) = Sum(f)
    BY DEF StakeOf, StakeNow
  <2> HIDE DEF f
  <2> QED
    BY <2>1, <2>2, FiniteDomains, SumZero
<1>7. StakesTotal = 0 /\ LockedTotal = 0
  <2> DEFINE f == [s \in Accounts |-> StakeOf(s)]
             g == [s \in Accounts |-> ledger[s].locked]
  <2>1. f \in [Accounts -> Nat] /\ g \in [Accounts -> Nat]
        /\ \A s \in Accounts : f[s] = 0 /\ g[s] = 0
    BY <1>2, <1>6
  <2>2. StakesTotal = Sum(f) /\ LockedTotal = Sum(g)
    BY DEF StakesTotal, LockedTotal
  <2> HIDE DEF f, g
  <2> QED
    BY <2>1, <2>2, FiniteDomains, SumZero
<1>8. ErasKnown /\ TotalsMatch
  BY <1>2, <1>7 DEF ErasKnown, TotalsMatch, EraInfoAt, Get
<1>9. RecordsInRange /\ RecordsMatch
  BY <1>2 DEF RecordsInRange, RecordsMatch, IsRegistered, IsUnregistered,
              IsActiveProvider
<1>10. LedgerMatchesStakes
  BY <1>2, <1>4, <1>6 DEF LedgerMatchesStakes, ChunkSum
<1>11. DepositsReserved
  <2>1. \A a \in Accounts : DepositsOf(a) = {}
    BY <1>2 DEF DepositsOf
  <2>2. RegisterDeposit * 0 = 0
    BY DapiStakingAssumption
  <2> QED
    BY <1>2, <2>1, <2>2, FS_EmptySet, DepositsReservedDef
<1> QED
  BY <1>1, <1>5, <1>8, <1>9, <1>10, <1>11 DEF BooksInv, Books

LEMMA NextBooks == BooksInv /\ [Next]_vars => BooksInv'
<1> SUFFICES ASSUME BooksInv, [Next]_vars PROVE BooksInv'
  OBVIOUS
<1>0. IInv'
  BY NextIInv DEF BooksInv
<1>1. CASE OnInitialize
  BY <1>0, <1>1, OnInitializeBooksStep
<1>2. ASSUME NEW s \in Accounts, NEW p \in Providers, NEW v,
             \/ v \in StakeAmounts /\ Stake(s, p, v)
             \/ v \in UnstakeAmounts /\ Unstake(s, p, v)
      PROVE  BooksInv'
  BY <1>0, <1>2, StakeBooksStep, UnstakeBooksStep
<1>3. ASSUME NEW s \in Accounts, NEW p \in Providers, NEW v \in DepositAmounts,
             Register(s, p, v) \/ RegisterStakeFails(s, p, v)
      PROVE  BooksInv'
  BY <1>0, <1>3, RegisterBooksStep, RegisterStakeFailsBooksStep
<1>4. ASSUME NEW s \in Accounts, NEW p \in Providers,
             ClaimStaker(s, p) \/ WithdrawFromUnregisteredStaker(s, p)
      PROVE  BooksInv'
  BY <1>0, <1>4, ClaimStakerBooksStep, WithdrawStakerBooksStep
<1>5. ASSUME NEW s \in Accounts, WithdrawUnstaked(s)
      PROVE  BooksInv'
  BY <1>0, <1>5, WithdrawUnstakedBooksStep
<1>6. ASSUME NEW p \in Providers,
             Unregister(p) \/ WithdrawFromUnregisteredOperator(p)
      PROVE  BooksInv'
  BY <1>0, <1>6, UnregisterBooksStep, WithdrawOperatorBooksStep
<1>7. ASSUME NEW p \in Providers, NEW e \in 0..MaxEra, ClaimOperator(p, e)
      PROVE  BooksInv'
  BY <1>0, <1>7, ClaimOperatorBooksStep
<1>8. CASE \/ ForceNewEra
           \/ \E v \in RewardAmounts : Rewards(v)
           \/ \E s \in Accounts, v \in SpendAmounts : SpendElsewhere(s, v)
           \/ UNCHANGED vars
  BY <1>0, <1>8, QuietBooksStep
<1> QED
  BY <1>1, <1>2, <1>3, <1>4, <1>5, <1>6, <1>7, <1>8 DEF Next, Calls, RegistryCalls

(* What a ledger locks is what its owner has at stake and what is          *)
(* unbonding, after any stakes, unstakes, withdrawals and unregistrations. *)
THEOREM LedgersMatchStakes == Spec => []LedgerMatchesStakes
<1>1. BooksInv => LedgerMatchesStakes
  BY DEF BooksInv, Books
<1> QED
  BY InitBooks, NextBooks, <1>1, PTL DEF Spec

LEMMA EraTotalsNow == BooksInv => EraTotalsMatchStakes
BY DEF BooksInv, Books, TotalsMatch, EraTotalsMatchStakes, StakesTotal, LockedTotal

(* The totals that the rewards of an era are divided by are those of the   *)
(* stakers' own records, for any number of stakers.                        *)
THEOREM EraTotalsAreExact == Spec => []EraTotalsMatchStakes
  BY InitBooks, NextBooks, EraTotalsNow, PTL DEF Spec

LEMMA ProviderTotalsNow == BooksInv => ProviderTotalsMatchStakes
BY DEF BooksInv, Books, RecordsMatch, RecordMatches, ProviderTotalsMatchStakes,
       StakersOn, StakeNow

(* The total and the number of stakers of an active provider are exact,    *)
(* also in eras in which nothing was written for it.                       *)
THEOREM ProviderTotalsAreExact == Spec => []ProviderTotalsMatchStakes
  BY InitBooks, NextBooks, ProviderTotalsNow, PTL DEF Spec

(* Each account has reserved one deposit per provider it still answers     *)
(* for, also when the stake at the end of register failed.                 *)
THEOREM DepositsAreReserved == Spec => []DepositsReserved
<1>1. BooksInv => DepositsReserved
  BY DEF BooksInv
<1> QED
  BY InitBooks, NextBooks, <1>1, PTL DEF Spec
===============================================================================
