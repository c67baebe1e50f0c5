--------------------------- MODULE StakingErasProofs ---------------------------
(***************************************************************************)
(* Proofs about the records that DapiStaking keeps of past eras: what was  *)
(* at stake stays locked through the unbonding period, and no share that   *)
(* can still be claimed exceeds the whole it is a share of.                *)
(***************************************************************************)
EXTENDS StakingBooksProofs

(* The stakes of the providers with a record of era e.                     *)
Recorded(p, e) == IF e \in DOMAIN providerEraStake[p] THEN StakeOn(p) ELSE 0
StakeRecorded(e) == Sum([p \in Providers |-> Recorded(p, e)])

(* What s unstaked after era e: it unlocks after the era e +               *)
(* UnbondingPeriod.                                                        *)
LateChunks(s, e) ==
    {k \in DOMAIN ledger[s].unbonding : k > e + UnbondingPeriod}
UnstakedLate(s, e) == Sum(Restrict(ledger[s].unbonding, LateChunks(s, e)))
UnbondingSince(e) == Sum([s \in Accounts |-> UnstakedLate(s, e)])

(* What was at stake in a recent era is still at stake, or was unstaked    *)
(* too late to be withdrawn.                                               *)
StakeHeld ==
    \A e \in 1..currentEra : currentEra <= e + UnbondingPeriod =>
        EraTotal(e) <= StakeRecorded(e) + UnbondingSince(e)

(* The totals of ended eras are within what their rewards are divided by.  *)
PastTotals ==
    \A e \in 1..currentEra : e < currentEra => EraTotal(e) <= EraInfoAt(e).staked

(* What the stakers of p still show for era e.                             *)
Unclaimed(p, e) == Sum([s \in Accounts |-> StakedAt(stakerInfo[s][p], e)])

(* Whether era e of p can be claimed, now or after more eras.              *)
RunsIn(p, e) == IsUnregistered(p) => e < registeredProviders[p].since

PastShares ==
    \A p \in Providers, e \in 0..currentEra :
        e < currentEra /\ RunsIn(p, e) =>
            Unclaimed(p, e) <= ProviderStakeAt(p, e).total

ErasInv == BooksInv /\ StakeHeld /\ PastTotals /\ PastShares
-------------------------------------------------------------------------------
(* What a step does to ended eras *)

(* Their records keep their totals, and marks of paid claims, ...          *)
PastRecordsKept ==
    \A q \in Providers, e \in Nat : e < currentEra =>
        /\ ProviderStakeAt(q, e)'.total = ProviderStakeAt(q, e).total
        /\ e \in DOMAIN providerEraStake'[q] <=> e \in DOMAIN providerEraStake[q]
        /\ ProviderStakeAt(q, e).provider_reward_claimed =>
               ProviderStakeAt(q, e)'.provider_reward_claimed

(* ... their rewards and what these are divided by stay, ...               *)
PastInfosKept ==
    \A e \in Nat : e < currentEra => EraInfoAt(e)' = EraInfoAt(e)

(* ... histories show no more for them than before, ...                    *)
HistoriesShrink ==
    \A a \in Accounts, q \in Providers, e \in Nat : e < currentEra =>
        StakedAt(stakerInfo'[a][q], e) <= StakedAt(stakerInfo[a][q], e)

(* ... what they have moved on from stays behind them, ...                 *)
Later(t, k) == \A i \in DOMAIN t : t[i].era > k
HistoriesMoveOn ==
    \A a \in Accounts, q \in Providers, k \in Nat :
        k < currentEra /\ Later(stakerInfo[a][q], k) => Later(stakerInfo'[a][q], k)

(* ... and whether an ended era of a provider can be claimed is settled.   *)
RegistryAdvances ==
    \A q \in Providers, e \in Nat : e < currentEra =>
        /\ RunsIn(q, e)' <=> RunsIn(q, e)
        /\ IsRegistered(q) => IsRegistered(q)'

PastKept ==
    /\ PastRecordsKept /\ PastInfosKept
    /\ HistoriesShrink /\ HistoriesMoveOn
    /\ RegistryAdvances

LEMMA AddKeepsPast ==
    ASSUME NEW t, NEW e \in Nat, InOrder(t, e), NEW v \in Nat,
           NEW f \in Nat, f < e
    PROVE  StakedAt(AddStake(t, e, v), f) = StakedAt(t, f)
<1>1. LatestStakedValue(t) + v \in Nat
  BY LatestType
<1>2. LatestWritten(t, e, LatestStakedValue(t) + v,
                    SetLatest(t, e, LatestStakedValue(t) + v))
  BY <1>1, SetLatestProperties DEF InOrder
<1> QED
  BY <1>2 DEF AddStake, LatestWritten

LEMMA AddKeepsLater ==
    ASSUME NEW t, NEW e \in Nat, InOrder(t, e), NEW v \in Nat,
           NEW k \in Nat, k < e, Later(t, k)
    PROVE  Later(AddStake(t, e, v), k)
<1>1. LatestStakedValue(t) + v \in Nat
  BY LatestType
<1>2. LatestWritten(t, e, LatestStakedValue(t) + v,
                    SetLatest(t, e, LatestStakedValue(t) + v))
  BY <1>1, SetLatestProperties DEF InOrder
<1> QED
  BY <1>2 DEF AddStake, LatestWritten, Later

LEMMA RemoveKeepsLater ==
    ASSUME NEW t, NEW e \in Nat, InOrder(t, e), NEW v \in Nat,
           NEW k \in Nat, k < e, Later(t, k)
    PROVE  Later(RemoveStake(t, e, v), k)
<1> DEFINE w == SaturatingSub(LatestStakedValue(t), v)
           u == SetLatest(t, e, w)
<1>1. w \in Nat
  BY LatestType, SaturatingSubType
<1> HIDE DEF w
<1>2. LatestWritten(t, e, w, u)
  BY <1>1, SetLatestProperties DEF InOrder
<1> HIDE DEF u
<1>3. Later(u, k)
  BY <1>2 DEF LatestWritten, Later
<1>4. Later(DropUnstakedHead(u), k)
  BY <1>2, <1>3, DropUnstakedHeadProperties DEF LatestWritten, Later
<1> QED
  BY <1>4 DEF RemoveStake, u, w

(* A claim moves the history on from the era it is for.                    *)
LEMMA ClaimMovesOn ==
    ASSUME NEW t, NEW e \in Nat, InOrder(t, e), t # <<>>
    PROVE  /\ Later(AfterClaim(t), t[1].era)
           /\ \A k \in Nat : Later(t, k) => Later(AfterClaim(t), k)
<1> DEFINE u == AdvanceHead(t)
<1>1. /\ u \in Seq(EraStake) /\ Sorted(u)
      /\ \A i \in DOMAIN u : u[i].era > t[1].era
  BY AdvanceHeadProperties DEF InOrder
<1>2. t[1].era \in Nat /\ 1 \in DOMAIN t
  BY VectorType DEF InOrder
<1> HIDE DEF u
<1>3. /\ DropUnstakedHead(u) \in Seq(EraStake)
      /\ \A i \in DOMAIN DropUnstakedHead(u) :
             \E j \in DOMAIN u : DropUnstakedHead(u)[i] = u[j]
  BY <1>1, DropUnstakedHeadProperties
<1>4. Later(AfterClaim(t), t[1].era) /\ AfterClaim(t) \in Seq(EraStake)
  BY <1>1, <1>3 DEF AfterClaim, Later, u
<1>5. \A i \in DOMAIN AfterClaim(t) : AfterClaim(t)[i].era \in Nat
  BY <1>4, VectorType
<1>6. ASSUME NEW k \in Nat, Later(t, k) PROVE Later(AfterClaim(t), k)
  <2>1. t[1].era > k
    BY <1>2, <1>6 DEF Later
  <2> QED
    BY <1>2, <1>4, <1>5, <2>1 DEF Later
<1> QED
  BY <1>4, <1>6

LEMMA RemoveKeepsPast ==
    ASSUME NEW t, NEW e \in Nat, InOrder(t, e), NEW v \in Nat,
           NEW f \in Nat, f < e
    PROVE  StakedAt(RemoveStake(t, e, v), f) = StakedAt(t, f)
<1> DEFINE w == SaturatingSub(LatestStakedValue(t), v)
           u == SetLatest(t, e, w)
<1>1. w \in Nat
  BY LatestType, SaturatingSubType
<1> HIDE DEF w
<1>2. LatestWritten(t, e, w, u)
  BY <1>1, SetLatestProperties DEF InOrder
<1> HIDE DEF u
<1>3. StakedAt(DropUnstakedHead(u), f) = StakedAt(u, f)
  BY <1>2, DropUnstakedHeadProperties DEF LatestWritten
<1>4. StakedAt(u, f) = StakedAt(t, f)
  BY <1>2 DEF LatestWritten
<1> QED
  BY <1>3, <1>4 DEF RemoveStake, u, w

LEMMA ClaimForgetsHead ==
    ASSUME NEW t, NEW e \in Nat, InOrder(t, e), t # <<>>
    PROVE  /\ StakedAt(AfterClaim(t), t[1].era) = 0
           /\ \A f \in Nat : f # t[1].era => StakedAt(AfterClaim(t), f) = StakedAt(t, f)
<1> DEFINE u == AdvanceHead(t)
<1>1. /\ u \in Seq(EraStake) /\ Sorted(u)
      /\ StakedAt(u, t[1].era) = 0
      /\ \A f \in Nat : f # t[1].era => StakedAt(u, f) = StakedAt(t, f)
  BY AdvanceHeadProperties DEF InOrder
<1>2. t[1].era \in Nat
  BY VectorType DEF InOrder
<1> HIDE DEF u
<1>3. \A f \in Nat : StakedAt(DropUnstakedHead(u), f) = StakedAt(u, f)
  BY <1>1, DropUnstakedHeadProperties
<1> QED
  BY <1>1, <1>2, <1>3 DEF AfterClaim, u

LEMMA OneHistoryShrinks ==
    ASSUME IInv, NEW s \in Accounts, NEW p \in Providers, OtherHistoriesKept(s, p),
           \A f \in Nat : f < currentEra =>
               StakedAt(stakerInfo'[s][p], f) <= StakedAt(stakerInfo[s][p], f)
    PROVE  HistoriesShrink
<1> SUFFICES ASSUME NEW a \in Accounts, NEW q \in Providers, NEW e \in Nat,
                    e < currentEra
             PROVE  StakedAt(stakerInfo'[a][q], e) <= StakedAt(stakerInfo[a][q], e)
  BY DEF HistoriesShrink
<1>1. CASE a = s /\ q = p
  BY <1>1
<1>2. CASE ~(a = s /\ q = p)
  <2>1. stakerInfo'[a][q] = stakerInfo[a][q]
    BY <1>2 DEF OtherHistoriesKept
  <2>2. StakedAt(stakerInfo[a][q], e) \in Nat
    BY HistoryInOrder, StakedAtType DEF InOrder
  <2> QED
    BY <2>1, <2>2
<1> QED
  BY <1>1, <1>2

LEMMA OneHistoryMovesOn ==
    ASSUME NEW s \in Accounts, NEW p \in Providers, OtherHistoriesKept(s, p),
           \A k \in Nat : k < currentEra /\ Later(stakerInfo[s][p], k) =>
               Later(stakerInfo'[s][p], k)
    PROVE  HistoriesMoveOn
<1> SUFFICES ASSUME NEW a \in Accounts, NEW q \in Providers, NEW k \in Nat,
                    k < currentEra, Later(stakerInfo[a][q], k)
             PROVE  Later(stakerInfo'[a][q], k)
  BY DEF HistoriesMoveOn
<1>1. CASE a = s /\ q = p
  BY <1>1
<1>2. CASE ~(a = s /\ q = p)
  BY <1>2 DEF OtherHistoriesKept
<1> QED
  BY <1>1, <1>2

LEMMA SameHistoriesShrink ==
    ASSUME IInv, stakerInfo' = stakerInfo
    PROVE  HistoriesShrink /\ HistoriesMoveOn
<1>0. HistoriesMoveOn
  BY DEF HistoriesMoveOn
<1> SUFFICES ASSUME NEW a \in Accounts, NEW q \in Providers, NEW e \in Nat
             PROVE  StakedAt(stakerInfo[a][q], e) <= StakedAt(stakerInfo[a][q], e)
  BY <1>0 DEF HistoriesShrink
<1>1. StakedAt(stakerInfo[a][q], e) \in Nat
  BY HistoryInOrder, StakedAtType DEF InOrder
<1> QED
  BY <1>1

LEMMA CurrentRecordWritten ==
    ASSUME IInv, NEW p \in Providers, NEW x, RecordBecomes(p, currentEra, x)
    PROVE  PastRecordsKept
  BY TypeParts DEF IInv, ErasOK, RecordBecomes, PastRecordsKept

LEMMA SamePastInfos ==
    ASSUME IInv, ErasKnown, ErasKnown', currentEra' = currentEra,
           RewardsAndPastKept
    PROVE  PastInfosKept
  BY TypeParts DEF IInv, ErasOK, ErasKnown, RewardsAndPastKept, PastInfosKept,
                   EraInfoAt, Get

LEMMA SameRegistryAdvances ==
    ASSUME NEW p \in Providers, OtherProvidersKept(p), ~IsUnregistered(p),
           IsRegistered(p)',
           IsUnregistered(p)' => registeredProviders'[p].since = currentEra
    PROVE  RegistryAdvances
  BY DEF RegistryAdvances, RunsIn, OtherProvidersKept, IsUnregistered, IsRegistered

LEMMA StakePastKept ==
    ASSUME BooksInv, currentEra' = currentEra,
           NEW s \in Accounts, NEW p \in Providers, NEW b, NEW n,
           StakeMoved(s, p, b, n), OtherProvidersKept(p), ~IsUnregistered(p),
           IsActiveProvider(p)'
    PROVE  PastKept
<1>1. IInv /\ ErasKnown /\ currentEra \in Nat
  BY TypeParts DEF BooksInv, Books, IInv, ErasOK
<1>2. /\ n \in Nat /\ ErasKnown' /\ RewardsAndPastKept /\ OtherHistoriesKept(s, p)
      /\ stakerInfo'[s][p] = AddStake(stakerInfo[s][p], currentEra, n)
  BY DEF StakeMoved
<1>3. PICK x \in ProviderStakeInfo : RecordBecomes(p, currentEra, x)
  BY DEF StakeMoved
<1>4. \A f \in Nat : f < currentEra =>
          StakedAt(stakerInfo'[s][p], f) <= StakedAt(stakerInfo[s][p], f)
  <2> SUFFICES ASSUME NEW f \in Nat, f < currentEra
               PROVE  StakedAt(stakerInfo'[s][p], f) <= StakedAt(stakerInfo[s][p], f)
    OBVIOUS
  <2>1. InOrder(stakerInfo[s][p], currentEra)
    BY <1>1, HistoryInOrder
  <2>2. StakedAt(stakerInfo[s][p], f) \in Nat
    BY <2>1, StakedAtType DEF InOrder
  <2> QED
    BY <1>1, <1>2, <2>1, <2>2, AddKeepsPast
<1>5. \A k \in Nat : k < currentEra /\ Later(stakerInfo[s][p], k) =>
          Later(stakerInfo'[s][p], k)
  BY <1>1, <1>2, HistoryInOrder, AddKeepsLater
<1>6. IsRegistered(p)' /\ ~IsUnregistered(p)'
  BY DEF IsActiveProvider, IsUnregistered
<1> QED
  BY <1>1, <1>2, <1>3, <1>4, <1>5, <1>6, CurrentRecordWritten, SamePastInfos,
     OneHistoryShrinks, OneHistoryMovesOn, SameRegistryAdvances DEF PastKept

LEMMA UnstakePastKept ==
    ASSUME BooksInv, currentEra' = currentEra,
           NEW s \in Accounts, NEW p \in Providers, NEW v, NEW n,
           StakeRemoved(s, p, v, n), OtherProvidersKept(p), ~IsUnregistered(p),
           IsActiveProvider(p)'
    PROVE  PastKept
<1>1. IInv /\ ErasKnown /\ currentEra \in Nat
  BY TypeParts DEF BooksInv, Books, IInv, ErasOK
<1>2. /\ n \in Nat /\ ErasKnown' /\ RewardsAndPastKept /\ OtherHistoriesKept(s, p)
      /\ stakerInfo'[s][p] = RemoveStake(stakerInfo[s][p], currentEra, n)
  BY DEF StakeRemoved
<1>3. PICK x \in ProviderStakeInfo : RecordBecomes(p, currentEra, x)
  BY DEF StakeRemoved
<1>4. \A f \in Nat : f < currentEra =>
          StakedAt(stakerInfo'[s][p], f) <= StakedAt(stakerInfo[s][p], f)
  <2> SUFFICES ASSUME NEW f \in Nat, f < currentEra
               PROVE  StakedAt(stakerInfo'[s][p], f) <= StakedAt(stakerInfo[s][p], f)
    OBVIOUS
  <2>1. InOrder(stakerInfo[s][p], currentEra)
    BY <1>1, HistoryInOrder
  <2>2. StakedAt(stakerInfo[s][p], f) \in Nat
    BY <2>1, StakedAtType DEF InOrder
  <2> QED
    BY <1>1, <1>2, <2>1, <2>2, RemoveKeepsPast
<1>5. \A k \in Nat : k < currentEra /\ Later(stakerInfo[s][p], k) =>
          Later(stakerInfo'[s][p], k)
  BY <1>1, <1>2, HistoryInOrder, RemoveKeepsLater
<1>6. IsRegistered(p)' /\ ~IsUnregistered(p)'
  BY DEF IsActiveProvider, IsUnregistered
<1> QED
  BY <1>1, <1>2, <1>3, <1>4, <1>5, <1>6, CurrentRecordWritten, SamePastInfos,
     OneHistoryShrinks, OneHistoryMovesOn, SameRegistryAdvances DEF PastKept

LEMMA SameRecordsKept ==
    ASSUME providerEraStake' = providerEraStake
    PROVE  PastRecordsKept
  BY DEF PastRecordsKept, ProviderStakeAt

LEMMA SameRegistry ==
    ASSUME registeredProviders' = registeredProviders
    PROVE  RegistryAdvances
  BY DEF RegistryAdvances, RunsIn, IsUnregistered, IsRegistered

LEMMA SameInfosKept ==
    ASSUME generalEraInfo' = generalEraInfo
    PROVE  PastInfosKept
  BY DEF PastInfosKept, EraInfoAt

LEMMA WithdrawUnstakedPastKept ==
    ASSUME BooksInv, NEW s \in Accounts, NEW n, ChunksWithdrawn(s, n),
           UNCHANGED <<currentEra, registeredProviders, providerEraStake, stakerInfo>>
    PROVE  PastKept
<1>1. IInv /\ ErasKnown /\ ErasKnown' /\ RewardsAndPastKept
  BY DEF BooksInv, Books, ChunksWithdrawn
<1> QED
  BY <1>1, SameRecordsKept, SamePastInfos, SameHistoriesShrink, SameRegistry DEF PastKept

LEMMA EmptyHistory ==
    ASSUME NEW f \in Nat
    PROVE  StakedAt(<<>>, f) = 0
  BY DEF StakedAt

LEMMA WithdrawStakerPastKept ==
    ASSUME BooksInv, NEW s \in Accounts, NEW p \in Providers, NEW n,
           StakeWithdrawn(s, p, n),
           UNCHANGED <<currentEra, registeredProviders, providerEraStake>>
    PROVE  PastKept
<1>1. IInv /\ ErasKnown /\ ErasKnown' /\ RewardsAndPastKept /\ OtherHistoriesKept(s, p)
  BY DEF BooksInv, Books, StakeWithdrawn
<1>2. \A f \in Nat : f < currentEra =>
          StakedAt(stakerInfo'[s][p], f) <= StakedAt(stakerInfo[s][p], f)
  <2> SUFFICES ASSUME NEW f \in Nat
               PROVE  StakedAt(stakerInfo'[s][p], f) <= StakedAt(stakerInfo[s][p], f)
    OBVIOUS
  <2>1. StakedAt(stakerInfo[s][p], f) \in Nat
    BY <1>1, HistoryInOrder, StakedAtType DEF InOrder
  <2>2. StakedAt(stakerInfo'[s][p], f) = 0
    BY EmptyHistory DEF StakeWithdrawn
  <2> QED
    BY <2>1, <2>2
<1>3. \A k \in Nat : Later(stakerInfo'[s][p], k)
  BY DEF StakeWithdrawn, Later
<1> QED
  BY <1>1, <1>2, <1>3, SameRecordsKept, SamePastInfos, OneHistoryShrinks,
     OneHistoryMovesOn, SameRegistry DEF PastKept

LEMMA ClaimStakerPastKept ==
    ASSUME BooksInv, NEW s \in Accounts, NEW p \in Providers, ClaimStaker(s, p)
    PROVE  PastKept
<1> DEFINE t == stakerInfo[s][p]
<1>1. IInv /\ currentEra \in Nat
  BY TypeParts DEF BooksInv, IInv, ErasOK
<1>2. /\ InOrder(t, currentEra) /\ t # <<>> /\ t[1].era \in Nat
      /\ stakerInfo'[s][p] = AfterClaim(t)
      /\ OtherHistoriesKept(s, p)
      /\ UNCHANGED <<registeredProviders, providerEraStake, generalEraInfo>>
  BY <1>1, ClaimStakerEffects
<1>3. \A f \in Nat : f < currentEra =>
          StakedAt(stakerInfo'[s][p], f) <= StakedAt(stakerInfo[s][p], f)
  <2> SUFFICES ASSUME NEW f \in Nat
               PROVE  StakedAt(stakerInfo'[s][p], f) <= StakedAt(stakerInfo[s][p], f)
    OBVIOUS
  <2>1. StakedAt(t, f) \in Nat
    BY <1>2, StakedAtType DEF InOrder
  <2>2. StakedAt(AfterClaim(t), f) = 0 \/ StakedAt(AfterClaim(t), f) = StakedAt(t, f)
    BY <1>1, <1>2, ClaimForgetsHead
  <2> QED
    BY <1>2, <2>1, <2>2
<1>4. \A k \in Nat : Later(stakerInfo[s][p], k) => Later(stakerInfo'[s][p], k)
  BY <1>1, <1>2, ClaimMovesOn
<1> QED
  BY <1>1, <1>2, <1>3, <1>4, SameRecordsKept, SameInfosKept, OneHistoryShrinks,
     OneHistoryMovesOn, SameRegistry DEF PastKept

LEMMA ClaimOperatorPastKept ==
    ASSUME BooksInv, NEW p \in Providers, NEW e \in 0..MaxEra, ClaimOperator(p, e)
    PROVE  PastKept
<1>1. IInv
  BY DEF BooksInv
<1>2. /\ e \in DOMAIN providerEraStake[p]
      /\ UNCHANGED <<registeredProviders, stakerInfo, generalEraInfo>>
  BY <1>1, ClaimOperatorEffects
<1>3. PICK x \in ProviderStakeInfo :
          /\ RecordBecomes(p, e, x)
          /\ x.total = ProviderStakeAt(p, e).total
          /\ x.provider_reward_claimed
  BY <1>1, ClaimOperatorEffects
<1>4. PastRecordsKept
  <2> SUFFICES ASSUME NEW q \in Providers, NEW f \in Nat
               PROVE  /\ ProviderStakeAt(q, f)'.total = ProviderStakeAt(q, f).total
                      /\ f \in DOMAIN providerEraStake'[q] <=>
                             f \in DOMAIN providerEraStake[q]
                      /\ ProviderStakeAt(q, f).provider_reward_claimed =>
                             ProviderStakeAt(q, f)'.provider_reward_claimed
    BY DEF PastRecordsKept
  <2>1. f \in DOMAIN providerEraStake'[q] <=> f \in DOMAIN providerEraStake[q]
    BY <1>2, <1>3 DEF RecordBecomes
  <2>2. CASE q = p /\ f = e
    <3>1. ProviderStakeAt(q, f)' = x
      BY <1>3, <2>2 DEF RecordBecomes
    <3> QED
      BY <1>3, <2>1, <2>2, <3>1
  <2>3. CASE ~(q = p /\ f = e)
    <3>1. ProviderStakeAt(q, f)' = ProviderStakeAt(q, f)
      BY <1>3, <2>3 DEF RecordBecomes
    <3> QED
      BY <2>1, <3>1
  <2> QED
    BY <2>2, <2>3
<1> QED
  BY <1>1, <1>2, <1>4, SameInfosKept, SameHistoriesShrink, SameRegistry DEF PastKept

(* The steps that write no stake: registrations and what is elsewhere.     *)
LEMMA RegistryPastKept ==
    ASSUME BooksInv, UNCHANGED <<stakerInfo, providerEraStake, generalEraInfo>>,
           RegistryAdvances
    PROVE  PastKept
  BY SameRecordsKept, SameInfosKept, SameHistoriesShrink DEF PastKept, BooksInv

-------------------------------------------------------------------------------
(* What is held for recent eras *)

LEMMA RecordedTypes ==
    IInv => \A e \in Nat : /\ StakeRecorded(e) \in Nat
                           /\ \A p \in Providers : Recorded(p, e) \in Nat
<1> SUFFICES ASSUME IInv, NEW e \in Nat
             PROVE  /\ StakeRecorded(e) \in Nat
                    /\ \A p \in Providers : Recorded(p, e) \in Nat
  OBVIOUS
<1>1. \A p \in Providers : Recorded(p, e) \in Nat
  BY StakeOfType DEF Recorded
<1> DEFINE f == [p \in Providers |-> Recorded(p, e)]
<1>2. f \in [Providers -> Nat] /\ StakeRecorded(e) = Sum(f)
  BY <1>1 DEF StakeRecorded
<1> HIDE DEF f
<1> QED
  BY <1>1, <1>2, FiniteDomains, SumType

LEMMA RecordedTypesNext ==
    IInv' => \A e \in Nat : /\ StakeRecorded(e)' \in Nat
                            /\ \A p \in Providers : Recorded(p, e)' \in Nat
<1> DEFINE Types == \A e \in Nat : /\ StakeRecorded(e) \in Nat
                                   /\ \A p \in Providers : Recorded(p, e) \in Nat
<1>1. IInv => Types
  BY RecordedTypes
<1> HIDE DEF Types
<1>2. IInv' => Types'
  BY <1>1, PTL
<1> QED
  BY <1>2 DEF Types

LEMMA UnbondingTypes ==
    ChunksOK => \A e \in Nat :
        /\ UnbondingSince(e) \in Nat
        /\ \A s \in Accounts : /\ UnstakedLate(s, e) \in Nat
                               /\ UnstakedLate(s, e) <= Sum(ledger[s].unbonding)
<1> SUFFICES ASSUME ChunksOK, NEW e \in Nat
             PROVE  /\ UnbondingSince(e) \in Nat
                    /\ \A s \in Accounts :
                           /\ UnstakedLate(s, e) \in Nat
                           /\ UnstakedLate(s, e) <= Sum(ledger[s].unbonding)
  OBVIOUS
<1>1. ASSUME NEW s \in Accounts
      PROVE  /\ UnstakedLate(s, e) \in Nat
             /\ UnstakedLate(s, e) <= Sum(ledger[s].unbonding)
  <2> DEFINE c == ledger[s].unbonding
             S == DOMAIN c
             L == LateChunks(s, e)
  <2>1. IsFiniteSet(S) /\ c \in [S -> Nat] /\ L \in SUBSET S
    BY DEF ChunksOK, IsChunks, LateChunks
  <2>2. UnstakedLate(s, e) = Sum(Restrict(c, L))
    BY DEF UnstakedLate
  <2> HIDE DEF c, S, L
  <2>3. /\ Sum(Restrict(c, L)) \in Nat /\ Sum(Restrict(c, S \ L)) \in Nat
        /\ Sum(c) = Sum(Restrict(c, L)) + Sum(Restrict(c, S \ L))
    BY <2>1, SumSplit
  <2> QED
    BY <2>2, <2>3 DEF c
<1> DEFINE f == [s \in Accounts |-> UnstakedLate(s, e)]
<1>2. f \in [Accounts -> Nat] /\ UnbondingSince(e) = Sum(f)
  BY <1>1 DEF UnbondingSince
<1> HIDE DEF f
<1> QED
  BY <1>1, <1>2, FiniteDomains, SumType

LEMMA UnbondingTypesNext ==
    ChunksOK' => \A e \in Nat :
        UnbondingSince(e)' \in Nat /\ \A s \in Accounts : UnstakedLate(s, e)' \in Nat
<1> DEFINE Types == \A e \in Nat :
        UnbondingSince(e) \in Nat /\ \A s \in Accounts : UnstakedLate(s, e) \in Nat
<1>1. ChunksOK => Types
  BY UnbondingTypes
<1> HIDE DEF Types
<1>2. ChunksOK' => Types'
  BY <1>1, PTL
<1> QED
  BY <1>2 DEF Types

LEMMA RecordedRises ==
    ASSUME IInv, IInv', NEW e \in Nat,
           \A q \in Providers : Recorded(q, e) <= Recorded(q, e)'
    PROVE  StakeRecorded(e) <= StakeRecorded(e)'
<1> DEFINE f == [q \in Providers |-> Recorded(q, e)]
           g == [q \in Providers |-> Recorded(q, e)']
<1>1. /\ f \in [Providers -> Nat] /\ StakeRecorded(e) = Sum(f)
      /\ g \in [Providers -> Nat] /\ StakeRecorded(e)' = Sum(g)
      /\ \A q \in Providers : f[q] <= g[q]
  BY RecordedTypes, RecordedTypesNext DEF StakeRecorded
<1> HIDE DEF f, g
<1> QED
  BY <1>1, FiniteDomains, SumMonotonic

LEMMA RecordedFalls ==
    ASSUME IInv, IInv', PastRecordsKept, NEW e \in Nat, e < currentEra,
           NEW s \in Accounts, NEW p \in Providers, NEW n \in Nat,
           n <= StakeNow(s, p), StakeChanges(s, p, StakeNow(s, p) - n)
    PROVE  StakeRecorded(e) <= StakeRecorded(e)' + n
<1> DEFINE f == [q \in Providers |-> Recorded(q, e)]
           g == [q \in Providers |-> Recorded(q, e)']
<1>1. /\ f \in [Providers -> Nat] /\ StakeRecorded(e) = Sum(f)
      /\ g \in [Providers -> Nat] /\ StakeRecorded(e)' = Sum(g)
      /\ f[p] = Recorded(p, e) /\ g[p] = Recorded(p, e)'
      /\ \A q \in Providers : f[q] = Recorded(q, e) /\ g[q] = Recorded(q, e)'
  BY RecordedTypes, RecordedTypesNext DEF StakeRecorded
<1> HIDE DEF f, g
<1>2. /\ StakeOn(p)' + StakeNow(s, p) = StakeOn(p) + (StakeNow(s, p) - n)
      /\ \A q \in Providers \ {p} : StakeOn(q)' = StakeOn(q)
  BY StakeOnChange
<1>3. StakeOn(p)' \in Nat /\ StakeOn(p) \in Nat /\ StakeNow(s, p) \in Nat
  BY SumsNow, SumsNext, StakeNowType
<1>4. StakeOn(p)' + n = StakeOn(p)
  BY <1>2, <1>3
<1>5. \A q \in Providers : e \in DOMAIN providerEraStake'[q] <=> e \in DOMAIN providerEraStake[q]
  BY DEF PastRecordsKept
<1>6. \A q \in Providers \ {p} : g[q] = f[q]
  BY <1>1, <1>2, <1>5 DEF Recorded
<1>7. g[p] + n = f[p] \/ g[p] = f[p]
  BY <1>1, <1>4, <1>5 DEF Recorded
<1>8. /\ Sum(g) + f[p] = Sum(f) + g[p]
      /\ {Sum(f), Sum(g), f[p], g[p]} \subseteq Nat
  BY <1>1, <1>6, FiniteDomains, SumUpdate
<1> QED
  BY <1>1, <1>7, <1>8

LEMMA ChunkJoins ==
    ASSUME NEW S, IsFiniteSet(S), NEW c \in [S -> Nat], NEW u, NEW n \in Nat,
           NEW d \in [S \cup {u} -> Nat], d[u] = (IF u \in S THEN c[u] ELSE 0) + n,
           \A k \in S \ {u} : d[k] = c[k]
    PROVE  Sum(d) = Sum(c) + n
<1>1. CASE u \in S
  <2>1. S \cup {u} = S
    BY <1>1
  <2>2. /\ Sum(d) + c[u] = Sum(c) + d[u]
        /\ {Sum(c), Sum(d), c[u], d[u]} \subseteq Nat
    BY <1>1, <2>1, SumUpdate
  <2> QED
    BY <1>1, <2>2
<1>2. CASE u \notin S
  <2>1. Sum(d) = Sum(c) + d[u] /\ Sum(c) \in Nat
    BY <1>2, SumInsert
  <2> QED
    BY <1>2, <2>1
<1> QED
  BY <1>1, <1>2

(* What is unstaked in an era counts for every era before it.              *)
LEMMA UnstakedIsLate ==
    ASSUME IInv, ChunksOK, NEW s \in Accounts, NEW n \in Nat,
           ledger'[s].unbonding = ChunksAfterUnstake(s, n),
           NEW e \in Nat, e < currentEra
    PROVE  UnstakedLate(s, e)' = UnstakedLate(s, e) + n
<1> DEFINE c == ledger[s].unbonding
           d == ledger'[s].unbonding
           u == currentEra + UnbondingPeriod
           L == LateChunks(s, e)
           cl == Restrict(c, L)
           dl == Restrict(d, L \cup {u})
<1>1. currentEra \in Nat /\ UnbondingPeriod \in Nat
  BY DapiStakingAssumption, TypeParts DEF IInv, ErasOK
<1>2. IsFiniteSet(DOMAIN c) /\ c \in [DOMAIN c -> Nat]
  BY DEF ChunksOK, IsChunks
<1>3. /\ d \in [DOMAIN c \cup {u} -> Nat]
      /\ d[u] = (IF u \in DOMAIN c THEN c[u] ELSE 0) + n
      /\ \A k \in DOMAIN c \ {u} : d[k] = c[k]
      /\ DOMAIN d = DOMAIN c \cup {u}
  BY <1>2 DEF ChunksAfterUnstake, Insert, Get
<1>4. u > e + UnbondingPeriod
  BY <1>1
<1>5. LateChunks(s, e)' = L \cup {u}
  BY <1>3, <1>4 DEF LateChunks
<1>6. L \subseteq DOMAIN c /\ (u \in L <=> u \in DOMAIN c)
  BY <1>4 DEF LateChunks
<1>7. IsFiniteSet(L)
  BY <1>2, <1>6, FS_Subset
<1>8. UnstakedLate(s, e) = Sum(cl) /\ UnstakedLate(s, e)' = Sum(dl)
  BY <1>5 DEF UnstakedLate
<1> HIDE DEF c, d, u, L
<1>9. /\ cl \in [L -> Nat]
      /\ dl \in [L \cup {u} -> Nat]
      /\ dl[u] = (IF u \in L THEN cl[u] ELSE 0) + n
      /\ \A k \in L \ {u} : dl[k] = cl[k]
  BY <1>2, <1>3, <1>6 DEF Restrict
<1> HIDE DEF cl, dl
<1>10. Sum(dl) = Sum(cl) + n
  BY <1>7, <1>9, ChunkJoins
<1> QED
  BY <1>8, <1>10

LEMMA UnbondingRises ==
    ASSUME IInv, ChunksOK, ChunksOK', NEW s \in Accounts, NEW n \in Nat,
           OtherLedgersKept(s), NEW e \in Nat,
           UnstakedLate(s, e)' = UnstakedLate(s, e) + n
    PROVE  UnbondingSince(e)' = UnbondingSince(e) + n
<1> DEFINE f == [a \in Accounts |-> UnstakedLate(a, e)]
           g == [a \in Accounts |-> UnstakedLate(a, e)']
<1>1. /\ f \in [Accounts -> Nat] /\ UnbondingSince(e) = Sum(f)
      /\ g \in [Accounts -> Nat] /\ UnbondingSince(e)' = Sum(g)
      /\ f[s] = UnstakedLate(s, e) /\ g[s] = UnstakedLate(s, e)'
      /\ \A a \in Accounts : f[a] = UnstakedLate(a, e) /\ g[a] = UnstakedLate(a, e)'
  BY UnbondingTypes, UnbondingTypesNext DEF UnbondingSince
<1> HIDE DEF f, g
<1>2. ASSUME NEW a \in Accounts \ {s} PROVE g[a] = f[a]
  <2>1. ledger'[a] = ledger[a]
    BY DEF OtherLedgersKept
  <2>2. LateChunks(a, e)' = LateChunks(a, e)
    BY <2>1 DEF LateChunks
  <2> QED
    BY <1>1, <2>1, <2>2 DEF UnstakedLate
<1>3. /\ Sum(g) + f[s] = Sum(f) + g[s]
      /\ {Sum(f), Sum(g), f[s], g[s]} \subseteq Nat
  BY <1>1, <1>2, FiniteDomains, SumUpdate
<1> QED
  BY <1>1, <1>3

LEMMA SameUnbonding ==
    ASSUME \A a \in Accounts : ledger'[a].unbonding = ledger[a].unbonding,
           NEW e \in Nat
    PROVE  UnbondingSince(e)' = UnbondingSince(e)
<1>1. ASSUME NEW a \in Accounts PROVE UnstakedLate(a, e)' = UnstakedLate(a, e)
  <2>1. LateChunks(a, e)' = LateChunks(a, e)
    BY DEF LateChunks
  <2> QED
    BY <2>1 DEF UnstakedLate
<1> QED
  BY <1>1 DEF UnbondingSince

(* What is held for a recent ended era does not shrink.                    *)
HeldKept ==
    \A e \in Nat : e < currentEra /\ currentEra <= e + UnbondingPeriod =>
        StakeRecorded(e) + UnbondingSince(e) <= StakeRecorded(e)' + UnbondingSince(e)'

LEMMA StakeHeldKept ==
    ASSUME IInv, IInv', ChunksOK, PastRecordsKept,
           NEW s \in Accounts, NEW p \in Providers, NEW b, NEW n, StakeMoved(s, p, b, n)
    PROVE  HeldKept
<1> SUFFICES ASSUME NEW e \in Nat, e < currentEra
             PROVE  StakeRecorded(e) + UnbondingSince(e)
                        <= StakeRecorded(e)' + UnbondingSince(e)'
  BY DEF HeldKept
<1>1. /\ n \in Nat /\ StakeChanges(s, p, StakeNow(s, p) + n)
      /\ \A a \in Accounts : ledger'[a].unbonding = ledger[a].unbonding
  BY DEF StakeMoved, OtherLedgersKept
<1>2. UnbondingSince(e)' = UnbondingSince(e) /\ UnbondingSince(e) \in Nat
  BY <1>1, SameUnbonding, UnbondingTypes
<1>3. /\ StakeOn(p)' + StakeNow(s, p) = StakeOn(p) + (StakeNow(s, p) + n)
      /\ \A q \in Providers \ {p} : StakeOn(q)' = StakeOn(q)
  BY <1>1, StakeOnChange
<1>4. /\ \A q \in Providers : StakeOn(q)' \in Nat /\ StakeOn(q) \in Nat
      /\ StakeNow(s, p) \in Nat
  BY SumsNow, SumsNext, StakeNowType
<1>5. \A q \in Providers : StakeOn(q) <= StakeOn(q)'
  <2>1. StakeOn(p) <= StakeOn(p)'
    BY <1>1, <1>3, <1>4
  <2> QED
    BY <1>3, <1>4, <2>1
<1>6. \A q \in Providers : Recorded(q, e) <= Recorded(q, e)'
  BY <1>5 DEF Recorded, PastRecordsKept
<1>7. StakeRecorded(e) <= StakeRecorded(e)'
  BY <1>6, RecordedRises
<1> QED
  BY <1>2, <1>7, RecordedTypes, RecordedTypesNext

LEMMA UnstakeHeldKept ==
    ASSUME IInv, IInv', ChunksOK, ChunksOK', PastRecordsKept,
           NEW s \in Accounts, NEW p \in Providers, NEW v, NEW n, StakeRemoved(s, p, v, n)
    PROVE  HeldKept
<1> SUFFICES ASSUME NEW e \in Nat, e < currentEra
             PROVE  StakeRecorded(e) + UnbondingSince(e)
                        <= StakeRecorded(e)' + UnbondingSince(e)'
  BY DEF HeldKept
<1>1. /\ n \in Nat /\ n <= StakeNow(s, p) /\ StakeChanges(s, p, StakeNow(s, p) - n)
      /\ ledger'[s].unbonding = ChunksAfterUnstake(s, n)
      /\ OtherLedgersKept(s)
  BY DEF StakeRemoved
<1>2. StakeRecorded(e) <= StakeRecorded(e)' + n
  BY <1>1, RecordedFalls
<1>3. UnbondingSince(e)' = UnbondingSince(e) + n
  BY <1>1, UnstakedIsLate, UnbondingRises
<1> QED
  BY <1>1, <1>2, <1>3, RecordedTypes, RecordedTypesNext, UnbondingTypes

(* Chunks that unlock after the era in progress are not withdrawn.         *)
LEMMA WithdrawUnstakedHeldKept ==
    ASSUME IInv, IInv', ChunksOK, ChunksOK', NEW s \in Accounts, NEW n,
           ChunksWithdrawn(s, n), UNCHANGED <<stakerInfo, providerEraStake>>
    PROVE  HeldKept
<1> SUFFICES ASSUME NEW e \in Nat, currentEra <= e + UnbondingPeriod
             PROVE  StakeRecorded(e) + UnbondingSince(e)
                        <= StakeRecorded(e)' + UnbondingSince(e)'
  BY DEF HeldKept
<1>1. /\ ledger'[s].unbonding =
             Restrict(ledger[s].unbonding, DOMAIN ledger[s].unbonding \ Unlocked(s))
      /\ OtherLedgersKept(s)
  BY DEF ChunksWithdrawn
<1>2. UnstakedLate(s, e)' = UnstakedLate(s, e)
  <2> DEFINE c == ledger[s].unbonding
             d == ledger'[s].unbonding
             L == LateChunks(s, e)
  <2>1. currentEra \in Nat /\ UnbondingPeriod \in Nat /\ \A k \in DOMAIN c : k \in Nat
    BY DapiStakingAssumption, TypeParts, AccountBacked DEF IInv, ErasOK, IsLedger
  <2>2. DOMAIN d = DOMAIN c \ Unlocked(s) /\ \A k \in DOMAIN d : d[k] = c[k]
    BY <1>1 DEF Restrict
  <2>3. L \subseteq DOMAIN d
    BY <2>1, <2>2 DEF LateChunks, Unlocked
  <2>4. LateChunks(s, e)' = L
    BY <2>2, <2>3 DEF LateChunks
  <2>5. Restrict(d, L) = Restrict(c, L)
    BY <2>2, <2>3 DEF Restrict
  <2> QED
    BY <2>4, <2>5 DEF UnstakedLate
<1>3. UnstakedLate(s, e) \in Nat
  BY UnbondingTypes
<1>4. UnstakedLate(s, e)' = UnstakedLate(s, e) + 0
  BY <1>2, <1>3
<1>5. UnbondingSince(e)' = UnbondingSince(e) + 0
  BY <1>1, <1>4, UnbondingRises
<1>6. StakeRecorded(e)' = StakeRecorded(e)
  BY DEF StakeRecorded, Recorded, StakeOn
<1> QED
  BY <1>5, <1>6, RecordedTypes, UnbondingTypes

(* The stake of an unregistered provider is withdrawn when no record of a  *)
(* recent era counts it.                                                   *)
LEMMA WithdrawStakerHeldKept ==
    ASSUME BooksInv, BooksInv', NEW s \in Accounts, NEW p \in Providers, NEW n,
           StakeWithdrawn(s, p, n), UnbondedSinceUnregistered(p),
           UNCHANGED <<registeredProviders, providerEraStake>>
    PROVE  HeldKept
<1>0. IInv /\ IInv' /\ ChunksOK /\ RecordsInRange
  BY DEF BooksInv, Books
<1> SUFFICES ASSUME NEW e \in Nat, currentEra <= e + UnbondingPeriod
             PROVE  StakeRecorded(e) + UnbondingSince(e)
                        <= StakeRecorded(e)' + UnbondingSince(e)'
  BY DEF HeldKept
<1>1. /\ StakeChanges(s, p, 0)
      /\ \A a \in Accounts : ledger'[a].unbonding = ledger[a].unbonding
  BY DEF StakeWithdrawn, OtherLedgersKept
<1>2. UnbondingSince(e)' = UnbondingSince(e) /\ UnbondingSince(e) \in Nat
  BY <1>0, <1>1, SameUnbonding, UnbondingTypes
<1>3. \A q \in Providers \ {p} : StakeOn(q)' = StakeOn(q)
  BY <1>0, <1>1, StakeOnChange
<1>4. e \notin DOMAIN providerEraStake[p]
  <2>1. currentEra \in Nat /\ UnbondingPeriod \in Nat
    BY <1>0, DapiStakingAssumption, TypeParts DEF IInv, ErasOK
  <2>2. /\ registeredProviders[p].since \in 1..currentEra
        /\ currentEra > registeredProviders[p].since + UnbondingPeriod
        /\ \A k \in DOMAIN providerEraStake[p] : k <= registeredProviders[p].since
    BY <1>0 DEF UnbondedSinceUnregistered, RecordsInRange
  <2> QED
    BY <2>1, <2>2
<1>5. \A q \in Providers : Recorded(q, e)' = Recorded(q, e)
  BY <1>3, <1>4 DEF Recorded
<1>6. \A q \in Providers : Recorded(q, e) <= Recorded(q, e)'
  BY <1>0, <1>5, RecordedTypes
<1>7. StakeRecorded(e) <= StakeRecorded(e)'
  BY <1>0, <1>6, RecordedRises
<1> QED
  BY <1>0, <1>2, <1>7, RecordedTypes, RecordedTypesNext

LEMMA SameStakesHeld ==
    ASSUME IInv, IInv', ChunksOK, ledger' = ledger, PastRecordsKept,
           \A a \in Accounts, q \in Providers : StakeNow(a, q)' = StakeNow(a, q)
    PROVE  HeldKept
<1> SUFFICES ASSUME NEW e \in Nat, e < currentEra
             PROVE  StakeRecorded(e) + UnbondingSince(e)
                        <= StakeRecorded(e)' + UnbondingSince(e)'
  BY DEF HeldKept
<1>1. UnbondingSince(e)' = UnbondingSince(e) /\ UnbondingSince(e) \in Nat
  BY SameUnbonding, UnbondingTypes
<1>2. \A q \in Providers : StakeOn(q)' = StakeOn(q)
  BY StakesSame
<1>3. \A q \in Providers : Recorded(q, e)' = Recorded(q, e)
  BY <1>2 DEF Recorded, PastRecordsKept
<1>4. StakeRecorded(e)' = StakeRecorded(e)
  BY <1>3 DEF StakeRecorded
<1> QED
  BY <1>1, <1>4, RecordedTypes
-------------------------------------------------------------------------------
(* The current era, from the books *)

LEMMA EraTotalType ==
    IInv => \A e \in Nat : EraTotal(e) \in Nat
<1> SUFFICES ASSUME IInv, NEW e \in Nat PROVE EraTotal(e) \in Nat
  OBVIOUS
<1> DEFINE f == [p \in Providers |-> ProviderStakeAt(p, e).total]
<1>1. f \in [Providers -> Nat] /\ EraTotal(e) = Sum(f)
  BY StakeInfoType DEF EraTotal
<1> HIDE DEF f
<1> QED
  BY <1>1, FiniteDomains, SumType

LEMMA EraTotalTypeNext ==
    IInv' => \A e \in Nat : EraTotal(e)' \in Nat
<1> DEFINE Types == \A e \in Nat : EraTotal(e) \in Nat
<1>1. IInv => Types
  BY EraTotalType
<1> HIDE DEF Types
<1>2. IInv' => Types'
  BY <1>1, PTL
<1> QED
  BY <1>2 DEF Types

LEMMA RecordedWithinStakes ==
    ASSUME IInv, NEW e \in Nat
    PROVE  StakeRecorded(e) <= StakesTotal
<1> DEFINE f == [p \in Providers |-> Recorded(p, e)]
           g == [p \in Providers |-> StakeOn(p)]
<1>1. /\ f \in [Providers -> Nat] /\ StakeRecorded(e) = Sum(f)
      /\ g \in [Providers -> Nat] /\ StakesTotal = Sum(g)
      /\ \A p \in Providers : f[p] <= g[p]
  BY RecordedTypes, StakeOfType, StakesTotalByProvider DEF StakeRecorded, Recorded
<1> HIDE DEF f, g
<1> QED
  BY <1>1, FiniteDomains, SumMonotonic

(* The totals of the era in progress are those of the stakes on providers  *)
(* with a record.                                                          *)
CurrentHeld ==
    \A e \in Nat : e = currentEra => EraTotal(e) <= StakeRecorded(e)

LEMMA CurrentTotals == BooksInv => CurrentHeld
<1> SUFFICES ASSUME BooksInv PROVE EraTotal(currentEra) <= StakeRecorded(currentEra)
  BY DEF CurrentHeld
<1>1. IInv /\ RecordsMatch /\ currentEra \in Nat
  BY TypeParts DEF BooksInv, Books, IInv, ErasOK
<1> DEFINE f == [p \in Providers |-> ProviderStakeAt(p, currentEra).total]
           g == [p \in Providers |-> Recorded(p, currentEra)]
<1>2. /\ f \in [Providers -> Nat] /\ EraTotal(currentEra) = Sum(f)
      /\ g \in [Providers -> Nat] /\ StakeRecorded(currentEra) = Sum(g)
  BY <1>1, RecordedTypes, StakeInfoType DEF EraTotal, StakeRecorded
<1>3. ASSUME NEW p \in Providers PROVE f[p] <= g[p]
  <2>1. CASE currentEra \in DOMAIN providerEraStake[p]
    <3>1. ProviderStakeAt(p, currentEra).total = StakeOn(p) /\ StakeOn(p) \in Nat
      BY <1>1, <2>1, StakeOfType DEF RecordsMatch, RecordMatches
    <3> QED
      BY <2>1, <3>1 DEF Recorded
  <2>2. CASE currentEra \notin DOMAIN providerEraStake[p]
    BY <2>2 DEF Recorded, ProviderStakeAt, Get, NoStake
  <2> QED
    BY <2>1, <2>2
<1> HIDE DEF f, g
<1> QED
  BY <1>2, <1>3, FiniteDomains, SumMonotonic

LEMMA CurrentTotalsNext == BooksInv' => CurrentHeld'
  BY CurrentTotals, PTL

-------------------------------------------------------------------------------
(* The invariant *)

LEMMA SameEraInv ==
    ASSUME ErasInv, BooksInv', currentEra' = currentEra, PastKept, HeldKept
    PROVE  ErasInv'
<1>1. /\ BooksInv /\ StakeHeld /\ PastTotals /\ PastShares
      /\ PastRecordsKept /\ PastInfosKept /\ HistoriesShrink /\ RegistryAdvances
  BY DEF ErasInv, PastKept
<1>2. /\ IInv /\ IInv' /\ ChunksOK /\ ChunksOK' /\ currentEra \in Nat
      /\ UnbondingPeriod \in Nat
  BY <1>1, DapiStakingAssumption, TypeParts DEF BooksInv, Books, IInv, ErasOK
<1>3. ASSUME NEW e \in Nat, e < currentEra PROVE EraTotal(e)' = EraTotal(e)
  BY <1>1, <1>3 DEF PastRecordsKept, EraTotal
<1>4. StakeHeld'
  <2> SUFFICES ASSUME NEW e \in 1..currentEra, currentEra <= e + UnbondingPeriod
               PROVE  EraTotal(e)' <= StakeRecorded(e)' + UnbondingSince(e)'
    BY DEF StakeHeld
  <2>1. /\ StakeRecorded(e)' \in Nat /\ UnbondingSince(e)' \in Nat
        /\ StakeRecorded(e) \in Nat /\ UnbondingSince(e) \in Nat /\ EraTotal(e) \in Nat
    BY <1>2, RecordedTypes, RecordedTypesNext, UnbondingTypes, UnbondingTypesNext,
       EraTotalType
  <2>2. CASE e < currentEra
    <3>1. EraTotal(e) <= StakeRecorded(e) + UnbondingSince(e)
      BY <1>1 DEF StakeHeld
    <3>2. StakeRecorded(e) + UnbondingSince(e) <= StakeRecorded(e)' + UnbondingSince(e)'
      BY <1>2, <2>2 DEF HeldKept
    <3>3. EraTotal(e)' = EraTotal(e)
      BY <1>2, <1>3, <2>2
    <3> QED
      BY <2>1, <3>1, <3>2, <3>3
  <2>3. CASE e = currentEra
    <3>1. EraTotal(e)' <= StakeRecorded(e)'
      BY <1>2, <2>3, CurrentTotalsNext DEF CurrentHeld
    <3>2. EraTotal(e)' \in Nat
      BY <1>2, EraTotalTypeNext
    <3> QED
      BY <2>1, <3>1, <3>2
  <2> QED
    BY <1>2, <2>2, <2>3
<1>5. PastTotals'
  <2> SUFFICES ASSUME NEW e \in 1..currentEra, e < currentEra
               PROVE  EraTotal(e)' <= EraInfoAt(e)'.staked
    BY DEF PastTotals
  <2> QED
    BY <1>1, <1>2, <1>3 DEF PastTotals, PastInfosKept
<1>6. PastShares'
  <2> SUFFICES ASSUME NEW p \in Providers, NEW e \in 0..currentEra,
                      e < currentEra, RunsIn(p, e)'
               PROVE  Unclaimed(p, e)' <= ProviderStakeAt(p, e)'.total
    BY DEF PastShares
  <2>0. e \in Nat
    BY <1>2
  <2>1. RunsIn(p, e)
    BY <1>1, <2>0 DEF RegistryAdvances
  <2>2. Unclaimed(p, e) <= ProviderStakeAt(p, e).total
    BY <1>1, <2>1 DEF PastShares
  <2>3. ProviderStakeAt(p, e)'.total = ProviderStakeAt(p, e).total
    BY <1>1, <2>0 DEF PastRecordsKept
  <2> DEFINE f == [s \in Accounts |-> StakedAt(stakerInfo'[s][p], e)]
             g == [s \in Accounts |-> StakedAt(stakerInfo[s][p], e)]
  <2>4. \A s \in Accounts : /\ StakedAt(stakerInfo[s][p], e) \in Nat
                            /\ StakedAt(stakerInfo'[s][p], e) \in Nat
    <3>1. \A s \in Accounts : /\ stakerInfo[s][p] \in Seq(EraStake)
                              /\ stakerInfo'[s][p] \in Seq(EraStake)
      BY <1>2, TypeParts, TypePartsNext DEF IInv, HistoriesOK
    <3> QED
      BY <2>0, <3>1, StakedAtType
  <2>5. /\ f \in [Accounts -> Nat] /\ g \in [Accounts -> Nat]
        /\ \A s \in Accounts : f[s] <= g[s]
        /\ Unclaimed(p, e)' = Sum(f) /\ Unclaimed(p, e) = Sum(g)
    BY <1>1, <2>0, <2>4 DEF HistoriesShrink, Unclaimed
  <2> HIDE DEF f, g
  <2>6. Sum(f) <= Sum(g) /\ Sum(f) \in Nat /\ Sum(g) \in Nat
    BY <2>5, FiniteDomains, SumMonotonic, SumType
  <2> QED
    BY <1>2, <2>2, <2>3, <2>5, <2>6, StakeInfoType
<1> QED
  BY <1>4, <1>5, <1>6 DEF ErasInv

(* What the stakers of p show for the era in progress is what they stake.  *)
LEMMA CurrentShares ==
    ASSUME BooksInv, NEW p \in Providers, ~IsUnregistered(p)
    PROVE  Unclaimed(p, currentEra) = ProviderStakeAt(p, currentEra).total
<1>1. IInv /\ RecordsInRange /\ RecordsMatch /\ currentEra \in Nat
  BY TypeParts DEF BooksInv, Books, IInv, ErasOK
<1>2. RecordMatches(p)
  <2>1. CASE IsRegistered(p)
    <3>1. IsActiveProvider(p)
      BY <1>1, <2>1, TypeParts DEF IInv, ProvidersOK, ProviderInfo, IsActiveProvider,
                                   IsUnregistered, IsRegistered
    <3> QED
      BY <1>1, <3>1 DEF RecordsMatch
  <2>2. CASE ~IsRegistered(p)
    BY <1>1, <2>2, UnknownProvider
  <2> QED
    BY <2>1, <2>2
<1>3. \A s \in Accounts :
          LatestStakedValue(stakerInfo[s][p]) = StakedAt(stakerInfo[s][p], currentEra)
  BY <1>1, HistoryInOrder, LatestIsStakedAt DEF InOrder
<1>4. Unclaimed(p, currentEra) = StakeOn(p)
  BY <1>3 DEF Unclaimed, StakeOn
<1> QED
  BY <1>2, <1>4 DEF RecordMatches

LEMMA EraBeginsKeepsRecords ==
    ASSUME BooksInv, EraBegins, NEW p \in Providers, NEW e \in Nat, e <= currentEra
    PROVE  /\ ProviderStakeAt(p, e)' = ProviderStakeAt(p, e)
           /\ e \in DOMAIN providerEraStake'[p] <=> e \in DOMAIN providerEraStake[p]
<1>1. currentEra \in Nat /\ e # currentEra + 1
  BY TypeParts DEF BooksInv, IInv, ErasOK
<1>2. /\ DOMAIN providerEraStake'[p] =
             IF IsActiveProvider(p) /\ currentEra \in DOMAIN providerEraStake[p]
             THEN DOMAIN providerEraStake[p] \cup {currentEra + 1}
             ELSE DOMAIN providerEraStake[p]
      /\ \A k \in DOMAIN providerEraStake[p] :
             k # currentEra + 1 => providerEraStake'[p][k] = providerEraStake[p][k]
  BY DEF EraBegins, ProviderEraBegins
<1>3. e \in DOMAIN providerEraStake'[p] <=> e \in DOMAIN providerEraStake[p]
  BY <1>1, <1>2
<1> QED
  BY <1>1, <1>2, <1>3 DEF ProviderStakeAt, Get

LEMMA EraBeginsInv ==
    ASSUME ErasInv, BooksInv', EraBegins,
           UNCHANGED <<ledger, stakerInfo, registeredProviders>>
    PROVE  ErasInv'
<1>1. BooksInv /\ StakeHeld /\ PastTotals /\ PastShares
  BY DEF ErasInv
<1>2. /\ IInv /\ IInv' /\ ChunksOK /\ ChunksOK' /\ currentEra \in Nat
      /\ UnbondingPeriod \in Nat /\ ErasKnown /\ RecordsInRange /\ TotalsMatch
      /\ currentEra' = currentEra + 1
  BY <1>1, DapiStakingAssumption, TypeParts DEF BooksInv, Books, IInv, ErasOK, EraBegins
<1>3. ASSUME NEW e \in Nat, e <= currentEra
      PROVE  EraTotal(e)' = EraTotal(e) /\ StakeRecorded(e)' = StakeRecorded(e)
  <2>1. \A p \in Providers :
            /\ ProviderStakeAt(p, e)' = ProviderStakeAt(p, e)
            /\ e \in DOMAIN providerEraStake'[p] <=> e \in DOMAIN providerEraStake[p]
    BY <1>1, <1>3, EraBeginsKeepsRecords
  <2>2. \A p \in Providers : StakeOn(p)' = StakeOn(p)
    BY SameStakes
  <2> QED
    BY <2>1, <2>2 DEF EraTotal, StakeRecorded, Recorded
<1>4. ASSUME NEW e \in Nat, e <= currentEra
      PROVE  EraInfoAt(e)'.staked = EraInfoAt(e).staked
  <2>1. CASE e = currentEra
    BY <1>2, <2>1 DEF EraBegins, EraInfoAt, Get
  <2>2. CASE e < currentEra
    BY <1>2, <2>2 DEF EraBegins, EraInfoAt, Get, ErasKnown
  <2> QED
    BY <1>2, <1>4, <2>1, <2>2
<1>5. StakeHeld'
  <2> SUFFICES ASSUME NEW e \in 1..(currentEra + 1),
                      currentEra + 1 <= e + UnbondingPeriod
               PROVE  EraTotal(e)' <= StakeRecorded(e)' + UnbondingSince(e)'
    BY <1>2 DEF StakeHeld
  <2>1. StakeRecorded(e)' \in Nat /\ UnbondingSince(e)' \in Nat
    BY <1>2, RecordedTypesNext, UnbondingTypesNext
  <2>2. CASE e <= currentEra
    <3>1. EraTotal(e) <= StakeRecorded(e) + UnbondingSince(e)
      BY <1>1, <1>2, <2>2 DEF StakeHeld
    <3>2. UnbondingSince(e)' = UnbondingSince(e)
      BY <1>2, SameUnbonding
    <3> QED
      BY <1>2, <1>3, <2>2, <3>1, <3>2
  <2>3. CASE e = currentEra + 1
    <3>1. EraTotal(e)' <= StakeRecorded(e)'
      BY <1>2, <2>3, CurrentTotalsNext DEF CurrentHeld
    <3>2. EraTotal(e)' \in Nat
      BY <1>2, EraTotalTypeNext
    <3> QED
      BY <2>1, <3>1, <3>2
  <2> QED
    BY <1>2, <2>2, <2>3
<1>6. PastTotals'
  <2> SUFFICES ASSUME NEW e \in 1..(currentEra + 1), e < currentEra + 1
               PROVE  EraTotal(e)' <= EraInfoAt(e)'.staked
    BY <1>2 DEF PastTotals
  <2>1. e \in Nat /\ e <= currentEra
    BY <1>2
  <2>2. EraTotal(e)' = EraTotal(e) /\ EraInfoAt(e)'.staked = EraInfoAt(e).staked
    BY <1>3, <1>4, <2>1
  <2>3. CASE e < currentEra
    BY <1>1, <1>2, <2>2, <2>3 DEF PastTotals
  <2>4. CASE e = currentEra
    <3>1. EraTotal(e) <= StakeRecorded(e) /\ StakeRecorded(e) <= StakesTotal
      BY <1>1, <1>2, <2>4, CurrentTotals, RecordedWithinStakes DEF CurrentHeld
    <3>2. EraInfoAt(e).staked = StakesTotal
      BY <1>2, <2>4, EraTotalsDef
    <3>3. EraTotal(e) \in Nat /\ StakeRecorded(e) \in Nat /\ StakesTotal \in Nat
      BY <1>2, <2>1, EraTotalType, RecordedTypes, SumsNow
    <3> QED
      BY <2>2, <3>1, <3>2, <3>3
  <2> QED
    BY <1>2, <2>1, <2>3, <2>4
<1>7. PastShares'
  <2> SUFFICES ASSUME NEW p \in Providers, NEW e \in 0..(currentEra + 1),
                      e < currentEra + 1, RunsIn(p, e)'
               PROVE  Unclaimed(p, e)' <= ProviderStakeAt(p, e)'.total
    BY <1>2 DEF PastShares
  <2>1. e \in Nat /\ e <= currentEra
    BY <1>2
  <2>2. RunsIn(p, e)
    BY DEF RunsIn, IsUnregistered, IsRegistered
  <2>3. ProviderStakeAt(p, e)'.total = ProviderStakeAt(p, e).total
    BY <1>1, <2>1, EraBeginsKeepsRecords
  <2>4. Unclaimed(p, e)' = Unclaimed(p, e)
    BY DEF Unclaimed
  <2>5. CASE e < currentEra
    BY <1>1, <1>2, <2>2, <2>3, <2>4, <2>5 DEF PastShares
  <2>6. CASE e = currentEra
    <3>1. ~IsUnregistered(p)
      BY <1>2, <2>2, <2>6 DEF RunsIn, RecordsInRange
    <3>2. Unclaimed(p, e) = ProviderStakeAt(p, e).total
      BY <1>1, <2>6, <3>1, CurrentShares
    <3> QED
      BY <1>2, <2>3, <2>4, <3>2, StakeInfoType
  <2> QED
    BY <1>2, <2>1, <2>5, <2>6
<1> QED
  BY <1>5, <1>6, <1>7 DEF ErasInv

LEMMA InitEras == Init => ErasInv
<1> SUFFICES ASSUME Init PROVE ErasInv
  OBVIOUS
<1>1. BooksInv /\ currentEra = 0
  BY InitBooks DEF Init
<1> QED
  BY <1>1 DEF ErasInv, StakeHeld, PastTotals, PastShares

(* A step within an era: what it keeps of the past.                        *)
SameEra == currentEra' = currentEra /\ PastKept /\ HeldKept

LEMMA StakeErasStep ==
    ASSUME ErasInv, BooksInv', NEW s \in Accounts, NEW p \in Providers,
           NEW v \in StakeAmounts, Stake(s, p, v)
    PROVE  SameEra
<1>1. /\ InBlock /\ IsActiveProvider(p)
      /\ StakeChecks(s, p, account[s], v)
      /\ StakeWrites(s, p, account[s], v)
      /\ UNCHANGED <<currentEra, registeredProviders>>
  BY DEF Stake, eraVars
<1>2. /\ v \in Nat /\ Backed(account[s]) /\ BooksInv /\ IInv /\ IInv'
      /\ ChunksOK /\ ErasKnown
  BY DapiStakingAssumption, AccountBacked DEF ErasInv, BooksInv, Books
<1> DEFINE n == StakeAmount(s, account[s], v)
<1>3. StakeMoved(s, p, account[s], n)
  BY <1>1, <1>2, StakeEffects
<1> HIDE DEF n
<1>4. OtherProvidersKept(p) /\ ~IsUnregistered(p) /\ IsActiveProvider(p)'
  BY <1>1 DEF OtherProvidersKept, IsActiveProvider, IsUnregistered, IsRegistered
<1>5. PastKept
  BY <1>1, <1>2, <1>3, <1>4, StakePastKept
<1>6. HeldKept
  BY <1>2, <1>3, <1>5, StakeHeldKept DEF PastKept
<1> QED
  BY <1>1, <1>5, <1>6 DEF SameEra

LEMMA RegisterErasStep ==
    ASSUME ErasInv, BooksInv', NEW o \in Accounts, NEW p \in Providers,
           NEW d \in DepositAmounts, Register(o, p, d)
    PROVE  SameEra
<1> DEFINE b == Reserve(account[o], RegisterDeposit)
           value == SaturatingSub(d, RegisterDeposit)
<1>1. /\ RegisterChecks(o, p, d)
      /\ StakeChecks(o, p, b, value)
      /\ registeredProviders' = Insert(registeredProviders, p, NewProvider(o))
      /\ StakeWrites(o, p, b, value)
      /\ currentEra' = currentEra
  BY DEF Register, eraVars
<1>2. /\ d \in Nat /\ value \in Nat /\ BooksInv /\ IInv /\ IInv' /\ ChunksOK /\ ErasKnown
      /\ InBlock /\ ~IsRegistered(p)
  BY <1>1, DapiStakingAssumption, SaturatingSubType
     DEF ErasInv, BooksInv, Books, RegisterChecks
<1>3. Backed(b)
  BY <1>1, <1>2, RegisterWrites
<1> HIDE DEF b, value
<1> DEFINE n == StakeAmount(o, b, value)
<1>4. StakeMoved(o, p, b, n)
  BY <1>1, <1>2, <1>3, StakeEffects
<1> HIDE DEF n
<1>5. OtherProvidersKept(p) /\ ~IsUnregistered(p) /\ IsActiveProvider(p)'
  BY <1>1, <1>2, NewProviderKnown DEF IsUnregistered
<1>6. PastKept
  BY <1>1, <1>2, <1>4, <1>5, StakePastKept
<1>7. HeldKept
  BY <1>2, <1>4, <1>6, StakeHeldKept DEF PastKept
<1> QED
  BY <1>1, <1>6, <1>7 DEF SameEra

LEMMA UnstakeErasStep ==
    ASSUME ErasInv, BooksInv', NEW s \in Accounts, NEW p \in Providers,
           NEW v \in UnstakeAmounts, Unstake(s, p, v)
    PROVE  SameEra
<1>1. BooksInv /\ IInv /\ IInv' /\ ChunksOK /\ ChunksOK' /\ ErasKnown
  BY DEF ErasInv, BooksInv, Books
<1> DEFINE n == UnstakeAmount(s, p, v)
<1>2. /\ StakeRemoved(s, p, v, n) /\ IsActiveProvider(p)
      /\ UNCHANGED <<currentEra, registeredProviders>>
  BY <1>1, UnstakeEffects
<1> HIDE DEF n
<1>3. OtherProvidersKept(p) /\ ~IsUnregistered(p) /\ IsActiveProvider(p)'
  BY <1>2 DEF OtherProvidersKept, IsActiveProvider, IsUnregistered, IsRegistered
<1>4. PastKept
  BY <1>1, <1>2, <1>3, UnstakePastKept
<1>5. HeldKept
  BY <1>1, <1>2, <1>4, UnstakeHeldKept DEF PastKept
<1> QED
  BY <1>2, <1>4, <1>5 DEF SameEra

LEMMA WithdrawUnstakedErasStep ==
    ASSUME ErasInv, BooksInv', NEW s \in Accounts, WithdrawUnstaked(s)
    PROVE  SameEra
<1>1. BooksInv /\ IInv /\ IInv' /\ ChunksOK /\ ChunksOK' /\ ErasKnown
  BY DEF ErasInv, BooksInv, Books
<1>2. UNCHANGED <<currentEra, registeredProviders, providerEraStake, stakerInfo>>
  BY <1>1, WithdrawUnstakedEffects
<1>3. PICK n \in Nat : ChunksWithdrawn(s, n)
  BY <1>1, WithdrawUnstakedEffects
<1>4. PastKept
  BY <1>1, <1>2, <1>3, WithdrawUnstakedPastKept
<1>5. HeldKept
  BY <1>1, <1>2, <1>3, WithdrawUnstakedHeldKept
<1> QED
  BY <1>2, <1>4, <1>5 DEF SameEra

LEMMA WithdrawStakerErasStep ==
    ASSUME ErasInv, BooksInv', NEW s \in Accounts, NEW p \in Providers,
           WithdrawFromUnregisteredStaker(s, p)
    PROVE  SameEra
<1>1. BooksInv /\ IInv /\ ChunksOK /\ ErasKnown
  BY DEF ErasInv, BooksInv, Books
<1> DEFINE n == StakeNow(s, p)
<1>2. /\ StakeWithdrawn(s, p, n) /\ UnbondedSinceUnregistered(p)
      /\ UNCHANGED <<currentEra, registeredProviders, providerEraStake>>
  BY <1>1, WithdrawStakerEffects
<1> HIDE DEF n
<1>3. PastKept
  BY <1>1, <1>2, WithdrawStakerPastKept
<1>4. HeldKept
  BY <1>1, <1>2, WithdrawStakerHeldKept
<1> QED
  BY <1>2, <1>3, <1>4 DEF SameEra

LEMMA ClaimErasStep ==
    ASSUME ErasInv, BooksInv',
           \/ \E s \in Accounts, p \in Providers : ClaimStaker(s, p)
           \/ \E p \in Providers, e \in 0..MaxEra : ClaimOperator(p, e)
    PROVE  SameEra
<1>1. BooksInv /\ IInv /\ IInv' /\ ChunksOK
  BY DEF ErasInv, BooksInv, Books
<1>2. ASSUME NEW s \in Accounts, NEW p \in Providers, ClaimStaker(s, p)
      PROVE  SameEra
  <2>1. PastKept
    BY <1>1, <1>2, ClaimStakerPastKept
  <2>2. /\ UNCHANGED <<currentEra, ledger>>
        /\ \A a \in Accounts, q \in Providers : StakeNow(a, q)' = StakeNow(a, q)
    BY <1>1, <1>2, ClaimStakerEffects
  <2>3. HeldKept
    BY <1>1, <2>1, <2>2, SameStakesHeld DEF PastKept
  <2> QED
    BY <2>1, <2>2, <2>3 DEF SameEra
<1>3. ASSUME NEW p \in Providers, NEW e \in 0..MaxEra, ClaimOperator(p, e)
      PROVE  SameEra
  <2>1. PastKept
    BY <1>1, <1>3, ClaimOperatorPastKept
  <2>2. UNCHANGED <<currentEra, ledger, stakerInfo>>
    BY <1>1, <1>3, ClaimOperatorEffects
  <2>3. HeldKept
    BY <1>1, <2>1, <2>2, SameStakesHeld DEF PastKept, StakeNow
  <2> QED
    BY <2>1, <2>2, <2>3 DEF SameEra
<1> QED
  BY <1>2, <1>3

LEMMA QuietErasStep ==
    ASSUME ErasInv, BooksInv',
           UNCHANGED <<currentEra, ledger, stakerInfo, providerEraStake, generalEraInfo>>,
           RegistryAdvances
    PROVE  SameEra
<1>1. BooksInv /\ IInv /\ IInv' /\ ChunksOK
  BY DEF ErasInv, BooksInv, Books
<1>2. PastKept
  BY <1>1, RegistryPastKept
<1>3. HeldKept
  BY <1>1, <1>2, SameStakesHeld DEF PastKept, StakeNow
<1> QED
  BY <1>2, <1>3 DEF SameEra

LEMMA RegistryErasStep ==
    ASSUME ErasInv, BooksInv', NEW p \in Providers,
           \/ \E o \in Accounts, d \in DepositAmounts : RegisterStakeFails(o, p, d)
           \/ Unregister(p)
           \/ WithdrawFromUnregisteredOperator(p)
    PROVE  SameEra
<1>1. UNCHANGED <<currentEra, ledger, stakerInfo, providerEraStake, generalEraInfo>>
  BY DEF RegisterStakeFails, Unregister, WithdrawFromUnregisteredOperator, eraVars
<1>2. IInv
  BY DEF ErasInv, BooksInv
<1>3. RegistryAdvances
  <2>1. ASSUME NEW o \in Accounts, NEW d \in DepositAmounts, RegisterStakeFails(o, p, d)
        PROVE  RegistryAdvances
    <3>1. /\ ~IsRegistered(p)
          /\ registeredProviders' = Insert(registeredProviders, p, NewProvider(o))
      BY <2>1 DEF RegisterStakeFails, RegisterChecks
    <3>2. OtherProvidersKept(p) /\ ~IsUnregistered(p) /\ IsActiveProvider(p)'
      BY <1>2, <3>1, NewProviderKnown DEF IsUnregistered
    <3>3. IsRegistered(p)' /\ ~IsUnregistered(p)'
      BY <3>2 DEF IsActiveProvider, IsUnregistered
    <3> QED
      BY <3>2, <3>3, SameRegistryAdvances
  <2>2. CASE Unregister(p)
    <3>0. IsRegistered(p) /\ registeredProviders[p] \in ProviderInfo
      BY <1>2, <2>2, TypeParts DEF IInv, ProvidersOK, Unregister, IsActiveProvider,
                                   IsRegistered
    <3>1. /\ OtherProvidersKept(p) /\ ~IsUnregistered(p) /\ IsRegistered(p)'
          /\ registeredProviders'[p].since = currentEra
      BY <2>2, <3>0 DEF Unregister, OtherProvidersKept, IsActiveProvider, IsUnregistered,
                        IsRegistered, ProviderInfo
    <3> QED
      BY <3>1, SameRegistryAdvances
  <2>3. CASE WithdrawFromUnregisteredOperator(p)
    <3>1. registeredProviders' = [registeredProviders EXCEPT ![p] = MarkUnreserved(p)]
      BY <2>3 DEF WithdrawFromUnregisteredOperator
    <3>2. /\ DOMAIN registeredProviders' = DOMAIN registeredProviders
          /\ \A q \in DOMAIN registeredProviders :
                 /\ registeredProviders'[q].state = registeredProviders[q].state
                 /\ registeredProviders'[q].since = registeredProviders[q].since
      BY <1>2, <3>1, TypeParts DEF IInv, ProvidersOK, ProviderInfo, MarkUnreserved
    <3> QED
      BY <3>2 DEF RegistryAdvances, RunsIn, IsUnregistered, IsRegistered
  <2> QED
    BY <2>1, <2>2, <2>3
<1> QED
  BY <1>1, <1>3, QuietErasStep

(* A step that begins an era.                                              *)
NewEra ==
    /\ EraBegins
    /\ UNCHANGED <<account, pot, ledger, stakerInfo, registeredProviders, receipts>>

LEMMA OnInitializeErasStep ==
    ASSUME ErasInv, BooksInv', OnInitialize
    PROVE  NewEra \/ SameEra
<1>1. /\ UNCHANGED <<account, pot, ledger, stakerInfo, registeredProviders, receipts>>
      /\ \/ EraBegins
         \/ UNCHANGED <<currentEra, generalEraInfo, providerEraStake>>
  BY OnInitializeEffects DEF ErasInv, BooksInv
<1>2. CASE EraBegins
  BY <1>1, <1>2 DEF NewEra
<1>3. CASE UNCHANGED <<currentEra, generalEraInfo, providerEraStake>>
  BY <1>1, <1>3, SameRegistry, QuietErasStep
<1> QED
  BY <1>1, <1>2, <1>3

LEMMA ErasStep ==
    ASSUME ErasInv, BooksInv', [Next]_vars
    PROVE  NewEra \/ SameEra
<1>1. CASE OnInitialize
  BY <1>1, OnInitializeErasStep
<1>2. ASSUME NEW s \in Accounts, NEW p \in Providers, NEW v,
             \/ v \in StakeAmounts /\ Stake(s, p, v)
             \/ v \in UnstakeAmounts /\ Unstake(s, p, v)
      PROVE  NewEra \/ SameEra
  BY <1>2, StakeErasStep, UnstakeErasStep
<1>3. ASSUME NEW s \in Accounts, NEW p \in Providers, NEW v \in DepositAmounts,
             Register(s, p, v) \/ RegisterStakeFails(s, p, v)
      PROVE  NewEra \/ SameEra
  BY <1>3, RegisterErasStep, RegistryErasStep
<1>4. ASSUME NEW s \in Accounts, NEW p \in Providers,
             ClaimStaker(s, p) \/ WithdrawFromUnregisteredStaker(s, p)
      PROVE  NewEra \/ SameEra
  BY <1>4, ClaimErasStep, WithdrawStakerErasStep
<1>5. ASSUME NEW s \in Accounts, WithdrawUnstaked(s)
      PROVE  NewEra \/ SameEra
  BY <1>5, WithdrawUnstakedErasStep
<1>6. ASSUME NEW p \in Providers,
             Unregister(p) \/ WithdrawFromUnregisteredOperator(p)
      PROVE  NewEra \/ SameEra
  BY <1>6, RegistryErasStep
<1>7. ASSUME NEW p \in Providers, NEW e \in 0..MaxEra, ClaimOperator(p, e)
      PROVE  NewEra \/ SameEra
  BY <1>7, ClaimErasStep
<1>8. CASE \/ ForceNewEra
           \/ \E v \in RewardAmounts : Rewards(v)
           \/ \E s \in Accounts, v \in SpendAmounts : SpendElsewhere(s, v)
           \/ UNCHANGED vars
  <2>1. UNCHANGED <<currentEra, ledger, stakerInfo, providerEraStake, generalEraInfo,
                    registeredProviders>>
    BY <1>8 DEF ForceNewEra, Rewards, SpendElsewhere, vars, eraVars
  <2> QED
    BY <2>1, SameRegistry, QuietErasStep
<1> QED
  BY <1>1, <1>2, <1>3, <1>4, <1>5, <1>6, <1>7, <1>8 DEF Next, Calls, RegistryCalls

LEMMA NextEras == ErasInv /\ [Next]_vars => ErasInv'
<1> SUFFICES ASSUME ErasInv, [Next]_vars PROVE ErasInv'
  OBVIOUS
<1>1. BooksInv'
  BY NextBooks DEF ErasInv
<1>2. NewEra \/ SameEra
  BY <1>1, ErasStep
<1> QED
  BY <1>1, <1>2, EraBeginsInv, SameEraInv DEF NewEra, SameEra

LEMMA StakeHeldNow == ErasInv => StakeHeldThroughUnbonding
<1> SUFFICES ASSUME ErasInv, NEW e \in 1..currentEra,
                    currentEra <= e + UnbondingPeriod
             PROVE  EraTotal(e) <= EraInfoAt(currentEra).locked
  BY DEF StakeHeldThroughUnbonding
<1>1. /\ IInv /\ ChunksOK /\ LedgerMatchesStakes /\ TotalsMatch /\ StakeHeld
      /\ currentEra \in Nat /\ e \in Nat
  BY TypeParts DEF ErasInv, BooksInv, Books, IInv, ErasOK
<1>2. EraTotal(e) <= StakeRecorded(e) + UnbondingSince(e)
  BY <1>1 DEF StakeHeld
<1>3. StakeRecorded(e) <= StakesTotal
  BY <1>1, RecordedWithinStakes
<1> DEFINE f == [s \in Accounts |-> StakeOf(s)]
           g == [s \in Accounts |-> UnstakedLate(s, e)]
           c == [s \in Accounts |-> Sum(ledger[s].unbonding)]
           h == [s \in Accounts |-> ledger[s].locked]
<1>4. /\ f \in [Accounts -> Nat] /\ StakesTotal = Sum(f)
      /\ g \in [Accounts -> Nat] /\ UnbondingSince(e) = Sum(g)
      /\ c \in [Accounts -> Nat]
      /\ h \in [Accounts -> Nat] /\ LockedTotal = Sum(h)
      /\ \A s \in Accounts : g[s] <= c[s]
      /\ \A s \in Accounts : h[s] = f[s] + c[s]
  BY <1>1, StakeOfType, UnbondingTypes, ChunkSumType, AccountBacked
     DEF StakesTotal, UnbondingSince, LockedTotal, LedgerMatchesStakes, ChunkSum
<1> HIDE DEF f, g, c, h
<1>5. Sum(g) <= Sum(c)
  BY <1>4, FiniteDomains, SumMonotonic
<1>6. Sum(h) = Sum(f) + Sum(c)
  BY <1>4, FiniteDomains, SumAdd
<1>7. /\ Sum(f) \in Nat /\ Sum(g) \in Nat /\ Sum(c) \in Nat
      /\ EraTotal(e) \in Nat /\ StakeRecorded(e) \in Nat
  BY <1>1, <1>4, FiniteDomains, SumType, EraTotalType, RecordedTypes
<1>8. EraInfoAt(currentEra).locked = LockedTotal
  BY <1>1, EraTotalsDef
<1> QED
  BY <1>2, <1>3, <1>4, <1>5, <1>6, <1>7, <1>8

(* What was at stake with a registered provider in an era is still locked  *)
(* UnbondingPeriod eras later: unstaking moves it into chunks that unlock  *)
(* later, and the stakes of an unregistered provider wait for the same     *)
(* period.                                                                 *)
THEOREM StakesAreHeld == Spec => []StakeHeldThroughUnbonding
  BY InitEras, NextEras, StakeHeldNow, PTL DEF Spec

LEMMA SharesNow == ErasInv => SharesWithinTotals
<1> SUFFICES ASSUME ErasInv, NEW e \in 1..currentEra
             PROVE  /\ \A p \in Providers : ClaimableEra(p, e) =>
                           Unclaimed(p, e) <= ProviderStakeAt(p, e).total
                    /\ EraTotal(e) <= EraInfoAt(e).staked
  BY DEF SharesWithinTotals, Unclaimed
<1>1. /\ BooksInv /\ IInv /\ TotalsMatch /\ PastTotals /\ PastShares
      /\ currentEra \in Nat /\ e \in Nat /\ e <= currentEra
  BY TypeParts DEF ErasInv, BooksInv, Books, IInv, ErasOK
<1>2. ASSUME NEW p \in Providers, ClaimableEra(p, e)
      PROVE  Unclaimed(p, e) <= ProviderStakeAt(p, e).total
  BY <1>1, <1>2 DEF ClaimableEra, PastShares, RunsIn
<1>3. EraTotal(e) <= EraInfoAt(e).staked
  <2>1. CASE e < currentEra
    BY <1>1, <2>1 DEF PastTotals
  <2>2. CASE e = currentEra
    <3>1. EraTotal(e) <= StakeRecorded(e) /\ StakeRecorded(e) <= StakesTotal
      BY <1>1, <2>2, CurrentTotals, RecordedWithinStakes DEF CurrentHeld
    <3>2. EraInfoAt(e).staked = StakesTotal
      BY <1>1, <2>2, EraTotalsDef
    <3>3. EraTotal(e) \in Nat /\ StakeRecorded(e) \in Nat /\ StakesTotal \in Nat
      BY <1>1, EraTotalType, RecordedTypes, SumsNow
    <3> QED
      BY <3>1, <3>2, <3>3
  <2> QED
    BY <1>1, <2>1, <2>2
<1> QED
  BY <1>2, <1>3

(* No one's share of an era's rewards can exceed the whole: what a         *)
(* provider's stakers can still claim for an era is within its total, and  *)
(* the totals within what the rewards are divided by.                      *)
THEOREM SharesAreWithinTotals == Spec => []SharesWithinTotals
  BY InitEras, NextEras, SharesNow, PTL DEF Spec
===============================================================================
