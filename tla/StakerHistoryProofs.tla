------------------------- MODULE StakerHistoryProofs --------------------------
(***************************************************************************)
(* Proofs about StakerHistory: its type and order invariants, that eras    *)
(* are paid once and in order, and that the compact vector implements the  *)
(* table of StakeClaims.                                                   *)
(***************************************************************************)
EXTENDS StakerHistory, StakingLemmas

(* The inductive invariant.                                                *)
IInv == TypeOK /\ NeverAheadOfEra /\ PaidErasGone

(* What a claim that is paid does to the vector.                           *)
LEMMA ClaimStep ==
    ASSUME IInv, Claim
    PROVE  /\ stakes # <<>>
           /\ 1 \in DOMAIN stakes
           /\ payout' = stakes[1]
           /\ stakes[1].era < era
           /\ stakes[1].staked > 0
           /\ closed # 0 => stakes[1].era < closed
           /\ stakes' \in Seq(EraStake)
           /\ Sorted(stakes')
           /\ \A i \in DOMAIN stakes' :
                  stakes[1].era < stakes'[i].era /\ stakes'[i].era <= era
           /\ StakedAt(stakes', stakes[1].era) = 0
           /\ \A e \in Nat : e # stakes[1].era =>
                  StakedAt(stakes', e) = StakedAt(stakes, e)
           /\ era' = era /\ closed' = closed
<1> DEFINE a == AdvanceHead(stakes)
           t == DropUnstakedHead(a)
<1>1. /\ stakes \in Seq(EraStake)
      /\ Sorted(stakes)
      /\ era \in Nat
      /\ \A i \in DOMAIN stakes : stakes[i].era <= era
  BY DEF IInv, TypeOK, NeverAheadOfEra, NotAhead
<1>2. /\ stakes # <<>>
      /\ payout' = stakes[1]
      /\ stakes[1].era < era
      /\ stakes[1].staked > 0
      /\ closed # 0 => stakes[1].era < closed
      /\ stakes' = t
      /\ era' = era /\ closed' = closed
  BY DEF Claim, Claimable, AfterClaim
<1>3. 1 \in DOMAIN stakes /\ stakes[1].era \in Nat
  BY <1>1, <1>2, VectorType
<1>4. /\ a \in Seq(EraStake)
      /\ Sorted(a)
      /\ \A i \in DOMAIN a : a[i].era > stakes[1].era
      /\ \A i \in DOMAIN a :
             a[i].era = stakes[1].era + 1 \/ \E j \in DOMAIN stakes : a[i] = stakes[j]
      /\ StakedAt(a, stakes[1].era) = 0
      /\ \A e \in Nat : e # stakes[1].era =>
             StakedAt(a, e) = StakedAt(stakes, e)
  BY <1>1, <1>2, AdvanceHeadProperties
<1>5. \A i \in DOMAIN a : stakes[1].era < a[i].era /\ a[i].era <= era
  BY <1>1, <1>2, <1>3, <1>4, VectorType
<1>6. /\ t \in Seq(EraStake)
      /\ Sorted(t)
      /\ \A i \in DOMAIN t : \E j \in DOMAIN a : t[i] = a[j]
      /\ \A e \in Nat : StakedAt(t, e) = StakedAt(a, e)
  BY <1>4, DropUnstakedHeadProperties
<1>7. \A i \in DOMAIN t : stakes[1].era < t[i].era /\ t[i].era <= era
  BY <1>5, <1>6
<1> HIDE DEF a, t
<1> QED
  BY <1>2, <1>3, <1>4, <1>6, <1>7

(* What a stake does to the vector.                                        *)
LEMMA StakeStep ==
    ASSUME IInv, NEW v \in Amounts, Stake(v)
    PROVE  /\ stakes' \in Seq(EraStake)
           /\ Sorted(stakes')
           /\ \A i \in DOMAIN stakes' :
                  stakes'[i].era = era \/ (i \in DOMAIN stakes /\ stakes'[i] = stakes[i])
           /\ StakedAt(stakes', era) = StakedAt(stakes, era) + v
           /\ \A e \in Nat : e < era => StakedAt(stakes', e) = StakedAt(stakes, e)
           /\ closed = 0
           /\ UNCHANGED <<era, closed, payout>>
<1> DEFINE new == LatestStakedValue(stakes) + v
           t == SetLatest(stakes, era, new)
<1>1. /\ stakes \in Seq(EraStake)
      /\ Sorted(stakes)
      /\ era \in Nat
      /\ NotAhead(stakes, era)
  BY DEF IInv, TypeOK, NeverAheadOfEra
<1>2. v \in Nat
  BY StakerHistoryAssumption
<1>3. LatestStakedValue(stakes) \in Nat
  BY <1>1, LatestIsStakedAt
<1>4. new \in Nat
  BY <1>2, <1>3
<1>5. new = StakedAt(stakes, era) + v
  BY <1>1, LatestIsStakedAt
<1>6. stakes' = t
  BY DEF Stake, AddStake
<1>7. closed = 0 /\ UNCHANGED <<era, closed, payout>>
  BY DEF Stake
<1> HIDE DEF new
<1>8. LatestWritten(stakes, era, new, t)
  BY <1>1, <1>4, SetLatestProperties
<1> HIDE DEF t
<1> QED
  BY <1>5, <1>6, <1>7, <1>8 DEF LatestWritten

(* What an unstake does to the vector, for some amount d.                  *)
LEMMA UnstakeStep ==
    ASSUME IInv, NEW v \in Amounts, Unstake(v)
    PROVE  /\ stakes' \in Seq(EraStake)
           /\ Sorted(stakes')
           /\ \A i \in DOMAIN stakes' :
                  \/ stakes'[i].era = era
                  \/ \E j \in DOMAIN stakes : stakes'[i] = stakes[j]
           /\ \E d \in 1..StakedAt(stakes, era) :
                  StakedAt(stakes', era) = StakedAt(stakes, era) - d
           /\ \A e \in Nat : e < era => StakedAt(stakes', e) = StakedAt(stakes, e)
           /\ closed = 0
           /\ UNCHANGED <<era, closed, payout>>
<1> DEFINE staked == LatestStakedValue(stakes)
           d == IF SaturatingSub(staked, v) < MinimumStakingAmount
                THEN staked ELSE v
           new == SaturatingSub(staked, d)
           a == SetLatest(stakes, era, new)
           t == DropUnstakedHead(a)
<1>1. /\ stakes \in Seq(EraStake)
      /\ Sorted(stakes)
      /\ era \in Nat
      /\ NotAhead(stakes, era)
  BY DEF IInv, TypeOK, NeverAheadOfEra
<1>2. v \in Nat \ {0} /\ MinimumStakingAmount \in Nat \ {0}
  BY StakerHistoryAssumption
<1>3. staked \in Nat /\ staked = StakedAt(stakes, era) /\ staked > 0
  BY <1>1, LatestIsStakedAt DEF Unstake
<1>4. d \in 1..staked
  BY <1>2, <1>3 DEF SaturatingSub
<1>5. new \in Nat /\ new = staked - d
  BY <1>3, <1>4 DEF SaturatingSub
<1>6. stakes # <<>>
  BY <1>3 DEF LatestStakedValue
<1>7. stakes' = t
  BY <1>6 DEF Unstake, RemoveStake
<1>8. closed = 0 /\ UNCHANGED <<era, closed, payout>>
  BY DEF Unstake
<1> HIDE DEF new, d, staked
<1>w. LatestWritten(stakes, era, new, a)
  BY <1>1, <1>5, SetLatestProperties
<1> HIDE DEF a
<1>9. /\ a \in Seq(EraStake)
      /\ Sorted(a)
      /\ \A i \in DOMAIN a :
             a[i].era = era \/ (i \in DOMAIN stakes /\ a[i] = stakes[i])
      /\ StakedAt(a, era) = new
      /\ \A e \in Nat : e < era => StakedAt(a, e) = StakedAt(stakes, e)
  BY <1>w DEF LatestWritten
<1>10. /\ t \in Seq(EraStake)
       /\ Sorted(t)
       /\ \A i \in DOMAIN t : \E j \in DOMAIN a : t[i] = a[j]
       /\ \A e \in Nat : StakedAt(t, e) = StakedAt(a, e)
  BY <1>9, DropUnstakedHeadProperties
<1> HIDE DEF t
<1>11. \A i \in DOMAIN t :
           t[i].era = era \/ \E j \in DOMAIN stakes : t[i] = stakes[j]
  BY <1>9, <1>10
<1>12. StakedAt(t, era) = StakedAt(stakes, era) - d
  BY <1>1, <1>3, <1>5, <1>9, <1>10
<1> QED
  BY <1>3, <1>4, <1>7, <1>8, <1>9, <1>10, <1>11, <1>12
-------------------------------------------------------------------------------
(* The inductive invariant holds at the start and after every step.        *)
LEMMA InitIInv == Init => IInv
  BY StakerHistoryAssumption, EmptySeq
     DEF Init, IInv, TypeOK, NeverAheadOfEra, NotAhead, PaidErasGone, Sorted, EraStake

LEMMA NextIInv == IInv /\ [Next]_vars => IInv'
<1> SUFFICES ASSUME IInv, [Next]_vars PROVE IInv'
  OBVIOUS
<1>0. /\ stakes \in Seq(EraStake)
      /\ era \in 1..MaxEra /\ MaxEra \in Nat
      /\ closed \in 0..era
      /\ payout \in EraStake /\ payout.era \in Nat
      /\ payout.era < era
      /\ Sorted(stakes)
      /\ \A i \in DOMAIN stakes :
             stakes[i].era \in Nat /\ stakes[i].era <= era /\ stakes[i].era > payout.era
  BY StakerHistoryAssumption, VectorType
     DEF IInv, TypeOK, NeverAheadOfEra, NotAhead, PaidErasGone, EraStake
<1>1. ASSUME NEW v \in Amounts, Stake(v)
      PROVE  IInv'
  <2>1. UNCHANGED <<era, closed, payout>>
    BY <1>1, StakeStep
  <2>2. stakes' \in Seq(EraStake) /\ Sorted(stakes')
    BY <1>1, StakeStep
  <2>3. \A i \in DOMAIN stakes' :
            stakes'[i].era <= era /\ stakes'[i].era > payout.era
    BY <1>0, <1>1, StakeStep
  <2> QED
    BY <1>0, <2>1, <2>2, <2>3
       DEF IInv, TypeOK, NeverAheadOfEra, NotAhead, PaidErasGone
<1>2. ASSUME NEW v \in Amounts, Unstake(v)
      PROVE  IInv'
  <2>1. UNCHANGED <<era, closed, payout>>
    BY <1>2, UnstakeStep
  <2>2. stakes' \in Seq(EraStake) /\ Sorted(stakes')
    BY <1>2, UnstakeStep
  <2>3. \A i \in DOMAIN stakes' :
            stakes'[i].era <= era /\ stakes'[i].era > payout.era
    BY <1>0, <1>2, UnstakeStep
  <2> QED
    BY <1>0, <2>1, <2>2, <2>3
       DEF IInv, TypeOK, NeverAheadOfEra, NotAhead, PaidErasGone
<1>3. ASSUME Claim
      PROVE  IInv'
  <2>1. /\ stakes' \in Seq(EraStake) /\ Sorted(stakes')
        /\ payout' = stakes[1] /\ payout' \in EraStake
        /\ payout'.era < era
        /\ era' = era /\ closed' = closed
    BY <1>0, <1>3, ClaimStep, VectorType
  <2>2. \A i \in DOMAIN stakes' :
            stakes'[i].era <= era /\ stakes'[i].era > payout'.era
    BY <1>0, <1>3, <2>1, ClaimStep, VectorType
  <2> QED
    BY <1>0, <2>1, <2>2
       DEF IInv, TypeOK, NeverAheadOfEra, NotAhead, PaidErasGone
<1>4. ASSUME NextEra
      PROVE  IInv'
  BY <1>0, <1>4
     DEF NextEra, IInv, TypeOK, NeverAheadOfEra, NotAhead, PaidErasGone
<1>5. ASSUME Unregister
      PROVE  IInv'
  BY <1>0, <1>5
     DEF Unregister, IInv, TypeOK, NeverAheadOfEra, NotAhead, PaidErasGone
<1>6. ASSUME Withdraw
      PROVE  IInv'
  <2>1. stakes' = <<>> /\ UNCHANGED <<era, closed, payout>>
    BY <1>6 DEF Withdraw
  <2>2. stakes' \in Seq(EraStake) /\ DOMAIN stakes' = {}
    BY <2>1, EmptySeq
  <2> QED
    BY <1>0, <2>1, <2>2
       DEF IInv, TypeOK, NeverAheadOfEra, NotAhead, PaidErasGone, Sorted
<1>7. ASSUME UNCHANGED vars
      PROVE  IInv'
  BY <1>7 DEF vars, IInv, TypeOK, NeverAheadOfEra, NotAhead, PaidErasGone, Sorted
<1> QED
  BY <1>1, <1>2, <1>3, <1>4, <1>5, <1>6, <1>7 DEF Next

(* StakerInfo vectors keep their type.                                     *)
THEOREM TypeCorrect == Spec => []TypeOK
<1>1. IInv => TypeOK
  BY DEF IInv
<1> QED
  BY InitIInv, NextIInv, <1>1, PTL DEF Spec

(* The vector is sorted and never ahead of the era: stake and unstake      *)
(* never return UnexpectedStakeInfoEra.                                    *)
THEOREM NeverAhead == Spec => []NeverAheadOfEra
<1>1. IInv => NeverAheadOfEra
  BY DEF IInv
<1> QED
  BY InitIInv, NextIInv, <1>1, PTL DEF Spec

(* An era that claim_staker paid is gone from the vector for good, so that *)
(* eras are paid at most once and in order.                                *)
THEOREM PaidOnce == Spec => []PaidErasGone /\ PaidOnceInOrder
<1>1. IInv => PaidErasGone
  BY DEF IInv
<1>2. IInv /\ [Next]_vars
          => [payout' # payout => payout'.era > payout.era]_vars
  <2> SUFFICES ASSUME IInv, [Next]_vars, payout' # payout
               PROVE  payout'.era > payout.era
    OBVIOUS
  <2>1. Claim
    BY DEF Next, Stake, Unstake, NextEra, Unregister, Withdraw, vars
  <2>2. payout' = stakes[1] /\ 1 \in DOMAIN stakes
    BY <2>1, ClaimStep
  <2> QED
    BY <2>2 DEF IInv, PaidErasGone
<1> QED
  BY InitIInv, NextIInv, <1>1, <1>2, PTL DEF Spec, PaidOnceInOrder
-------------------------------------------------------------------------------
(* The table of a vector in era n, as an operator.                         *)
TableOf(s, n) == [e \in 0..MaxEra |-> IF e <= n THEN StakedAt(s, e) ELSE 0]

LEMMA TableOfCells ==
    ASSUME NEW s \in Seq(EraStake), NEW n \in Nat
    PROVE  /\ TableOf(s, n) \in [0..MaxEra -> Nat]
           /\ \A e \in 0..MaxEra : e <= n => TableOf(s, n)[e] = StakedAt(s, e)
           /\ \A e \in 0..MaxEra : ~(e <= n) => TableOf(s, n)[e] = 0
<1>1. ASSUME NEW e \in 0..MaxEra
      PROVE  StakedAt(s, e) \in Nat
  <2>1. e \in Nat
    BY StakerHistoryAssumption
  <2> QED
    BY <2>1, StakedAtType
<1> QED
  BY <1>1 DEF TableOf

(* Vectors that differ in one era only have tables that differ there only. *)
LEMMA TableUpdate ==
    ASSUME NEW s \in Seq(EraStake), NEW t \in Seq(EraStake),
           NEW n \in Nat, NEW k \in 0..MaxEra, k <= n,
           \A e \in Nat : e <= n /\ e # k => StakedAt(t, e) = StakedAt(s, e)
    PROVE  TableOf(t, n) = [TableOf(s, n) EXCEPT ![k] = StakedAt(t, k)]
<1>1. ASSUME NEW e \in 0..MaxEra
      PROVE  TableOf(t, n)[e] =
                 IF e = k THEN StakedAt(t, k) ELSE TableOf(s, n)[e]
  <2>1. e \in Nat
    BY StakerHistoryAssumption
  <2> QED
    BY <2>1 DEF TableOf
<1> QED
  BY <1>1 DEF TableOf

(* A new era copies the cell of the last one.                              *)
LEMMA TableGrows ==
    ASSUME NEW s \in Seq(EraStake), NEW n \in Nat, n < MaxEra
    PROVE  TableOf(s, n + 1) =
               [TableOf(s, n) EXCEPT ![n + 1] = StakedAt(s, n + 1)]
<1>1. ASSUME NEW e \in 0..MaxEra
      PROVE  TableOf(s, n + 1)[e] =
                 IF e = n + 1 THEN StakedAt(s, n + 1) ELSE TableOf(s, n)[e]
  <2>1. e \in Nat /\ MaxEra \in Nat
    BY StakerHistoryAssumption
  <2>2. e <= n + 1 <=> (e <= n \/ e = n + 1)
    BY <2>1
  <2>3. n + 1 \in 0..MaxEra /\ ~(n + 1 <= n)
    BY <2>1
  <2> QED
    BY <2>2, <2>3 DEF TableOf
<1> QED
  BY <1>1 DEF TableOf

LEMMA TableInit == Init => Table!Init
<1> SUFFICES ASSUME Init PROVE Table!Init
  OBVIOUS
<1>1. \A e \in 0..MaxEra : StakedAt(stakes, e) = 0
  BY DEF Init, StakedAt
<1>2. owed = [e \in 0..MaxEra |-> 0]
  BY <1>1 DEF owed
<1> QED
  BY <1>2 DEF Init, Table!Init, Table!Eras

(* Every step of the vector is a step of the table.                        *)
LEMMA TableNext == IInv /\ IInv' /\ [Next]_vars => [Table!Next]_(Table!vars)
<1> SUFFICES ASSUME IInv, IInv', [Next]_vars
             PROVE  [Table!Next]_(Table!vars)
  OBVIOUS
<1>0. /\ stakes \in Seq(EraStake)
      /\ MaxEra \in Nat /\ Amounts \subseteq Nat \ {0} /\ UnbondingPeriod \in Nat
      /\ era \in 1..MaxEra
      /\ closed \in 0..era
      /\ Sorted(stakes)
      /\ \A i \in DOMAIN stakes : stakes[i].era <= era
  BY StakerHistoryAssumption DEF IInv, TypeOK, NeverAheadOfEra, NotAhead
<1>n. NotAhead(stakes, era)
  BY DEF IInv, NeverAheadOfEra
<1>a. owed = TableOf(stakes, era) /\ owed' = TableOf(stakes', era')
  BY DEF owed, TableOf
<1>s. stakes \in Seq(EraStake) /\ stakes' \in Seq(EraStake)
  BY DEF IInv, TypeOK
<1>e. era \in 0..MaxEra /\ era \in Nat /\ era <= era
  BY <1>0
<1>b. /\ owed \in [0..MaxEra -> Nat]
      /\ \A e \in 0..MaxEra : e <= era => owed[e] = StakedAt(stakes, e)
  BY <1>a, <1>s, <1>e, TableOfCells
<1>c. LatestStakedValue(stakes) = owed[era] /\ owed[era] = StakedAt(stakes, era)
  BY <1>n, <1>s, <1>b, <1>e, LatestIsStakedAt
<1>1. ASSUME NEW v \in Amounts, Stake(v)
      PROVE  Table!Stake
  <2>1. /\ closed = 0 /\ UNCHANGED <<era, closed, payout>>
        /\ StakedAt(stakes', era) = StakedAt(stakes, era) + v
        /\ \A e \in Nat : e < era => StakedAt(stakes', e) = StakedAt(stakes, e)
    BY <1>1, StakeStep
  <2>2. \A e \in Nat : e <= era /\ e # era => StakedAt(stakes', e) = StakedAt(stakes, e)
    BY <1>e, <2>1
  <2>3. TableOf(stakes', era) =
            [TableOf(stakes, era) EXCEPT ![era] = StakedAt(stakes', era)]
    BY <1>s, <1>e, <2>2, TableUpdate
  <2>4. owed' = [owed EXCEPT ![era] = owed[era] + v]
    <3>1. era' = era /\ StakedAt(stakes', era) = owed[era] + v
      BY <1>c, <2>1
    <3> QED
      BY <1>a, <2>3, <3>1
  <2> QED
    BY <2>1, <2>4 DEF Table!Stake
<1>2. ASSUME NEW v \in Amounts, Unstake(v)
      PROVE  Table!Unstake
  <2>1. /\ closed = 0 /\ UNCHANGED <<era, closed, payout>>
        /\ \A e \in Nat : e < era => StakedAt(stakes', e) = StakedAt(stakes, e)
    BY <1>2, UnstakeStep
  <2>2. PICK d \in 1..StakedAt(stakes, era) :
            StakedAt(stakes', era) = StakedAt(stakes, era) - d
    BY <1>2, UnstakeStep
  <2>3. \A e \in Nat : e <= era /\ e # era => StakedAt(stakes', e) = StakedAt(stakes, e)
    BY <1>e, <2>1
  <2>4. TableOf(stakes', era) =
            [TableOf(stakes, era) EXCEPT ![era] = StakedAt(stakes', era)]
    BY <1>s, <1>e, <2>3, TableUpdate
  <2>5. owed' = [owed EXCEPT ![era] = owed[era] - d] /\ d \in 1..owed[era]
    <3>1. era' = era /\ StakedAt(stakes', era) = owed[era] - d
      BY <1>c, <2>1, <2>2
    <3> QED
      BY <1>a, <1>c, <2>2, <2>4, <3>1
  <2> QED
    BY <2>1, <2>5 DEF Table!Unstake
<1>3. ASSUME Claim
      PROVE  Table!Claim
  <2> DEFINE h == stakes[1].era
  <2>1. /\ stakes # <<>> /\ 1 \in DOMAIN stakes
        /\ payout' = stakes[1]
        /\ h < era /\ stakes[1].staked > 0
        /\ closed # 0 => h < closed
        /\ StakedAt(stakes', h) = 0
        /\ \A e \in Nat : e # h => StakedAt(stakes', e) = StakedAt(stakes, e)
        /\ era' = era /\ closed' = closed
    BY <1>3, ClaimStep
  <2>2. /\ h \in 0..MaxEra /\ h \in Nat
        /\ payout' = [era |-> h, staked |-> stakes[1].staked]
    BY <1>0, <2>1, VectorType DEF EraStake
  <2>3. \A i \in DOMAIN stakes : i # 1 => stakes[i].era > h
    <3> SUFFICES ASSUME NEW i \in DOMAIN stakes, i # 1
                 PROVE  stakes[i].era > h
      OBVIOUS
    <3>1. 1 < i
      BY <1>0, VectorType
    <3>2. stakes[1].era < stakes[i].era
      BY <1>0, <2>1, <3>1 DEF Sorted
    <3> QED
      BY <1>0, <2>1, <3>2, VectorType
  <2>4. StakedAt(stakes, h) = stakes[1].staked
    <3>1. Covers(stakes, 1, h)
      BY <1>0, <2>2, <2>3, VectorType DEF Covers
    <3> QED
      BY <1>0, <2>1, <2>2, <3>1, StakedAtCovered
  <2>5. ASSUME NEW f \in 0..MaxEra, f < h
        PROVE  StakedAt(stakes, f) = 0
    <3>1. ASSUME NEW i \in DOMAIN stakes
          PROVE  stakes[i].era >= h /\ stakes[i].era \in Nat
      <4>1. stakes[i].era \in Nat
        BY <1>0, VectorType
      <4> QED
        BY <2>2, <2>3, <4>1
    <3>2. \A i \in DOMAIN stakes : ~(stakes[i].era <= f)
      BY <2>2, <2>5, <3>1
    <3> QED
      BY <3>2 DEF StakedAt, Covers
  <2>6. owed[h] = stakes[1].staked
    BY <1>0, <1>b, <2>1, <2>2, <2>4
  <2>7. \A f \in 0..MaxEra : f < h => owed[f] = 0
    BY <1>0, <1>b, <2>1, <2>2, <2>5
  <2>8. owed' = [owed EXCEPT ![h] = 0]
    <3>1. h <= era /\ \A e \in Nat : e <= era /\ e # h =>
              StakedAt(stakes', e) = StakedAt(stakes, e)
      BY <1>e, <2>1, <2>2
    <3>2. TableOf(stakes', era) =
              [TableOf(stakes, era) EXCEPT ![h] = StakedAt(stakes', h)]
      BY <1>s, <1>e, <2>2, <3>1, TableUpdate
    <3> QED
      BY <1>a, <2>1, <3>2
  <2> HIDE DEF h
  <2> QED
    BY <2>1, <2>2, <2>6, <2>7, <2>8 DEF Table!Claim, Table!Eras
<1>4. ASSUME NextEra
      PROVE  Table!NextEra
  <2>1. era < MaxEra /\ era' = era + 1 /\ UNCHANGED <<stakes, closed, payout>>
    BY <1>4 DEF NextEra
  <2>2. StakedAt(stakes, era + 1) = owed[era]
    <3>1. era + 1 \in Nat /\ NotAhead(stakes, era + 1)
      BY <1>0, VectorType DEF NotAhead
    <3>2. LatestStakedValue(stakes) = StakedAt(stakes, era + 1)
      BY <1>s, <3>1, LatestIsStakedAt
    <3> QED
      BY <1>c, <3>2
  <2>3. owed' = [owed EXCEPT ![era + 1] = owed[era]]
    <3>1. TableOf(stakes, era + 1) =
              [TableOf(stakes, era) EXCEPT ![era + 1] = StakedAt(stakes, era + 1)]
      BY <1>s, <1>e, <2>1, TableGrows
    <3> QED
      BY <1>a, <2>1, <2>2, <3>1
  <2> QED
    BY <2>1, <2>3 DEF Table!NextEra
<1>5. ASSUME Unregister
      PROVE  Table!Unregister
  <2>1. closed = 0 /\ closed' = era /\ UNCHANGED <<stakes, era, payout>>
    BY <1>5 DEF Unregister
  <2>2. owed' = owed
    BY <2>1 DEF owed
  <2> QED
    BY <2>1, <2>2 DEF Table!Unregister
<1>6. ASSUME Withdraw
      PROVE  Table!Withdraw
  <2>1. /\ closed # 0
        /\ era > closed + UnbondingPeriod
        /\ LatestStakedValue(stakes) > 0
        /\ stakes' = <<>> /\ UNCHANGED <<era, closed, payout>>
    BY <1>6 DEF Withdraw
  <2>2. stakes # <<>> /\ 1 \in DOMAIN stakes
    BY <1>0, <2>1, VectorType DEF LatestStakedValue
  <2>h. stakes[1].era # 0
    BY <2>2 DEF IInv, PaidErasGone, TypeOK, EraStake
  <2>3. stakes[1].era >= closed
    BY <1>0, <1>6, <2>2, <2>h DEF Withdraw, Claimable
  <2>4. ASSUME NEW e \in 0..MaxEra, e < closed
        PROVE  owed[e] = 0
    <3>1. \A i \in DOMAIN stakes : i = 1 \/ 1 < i
      BY <1>0, VectorType
    <3>2. \A i \in DOMAIN stakes : stakes[i].era >= closed
      BY <1>0, <2>2, <2>3, <3>1, VectorType DEF Sorted
    <3>3. \A i \in DOMAIN stakes : ~(stakes[i].era <= e)
      BY <1>0, <2>4, <3>2, VectorType
    <3>4. StakedAt(stakes, e) = 0
      BY <3>3 DEF StakedAt, Covers
    <3> QED
      BY <1>0, <1>b, <2>4, <3>4
  <2>5. \A e \in 0..MaxEra : StakedAt(stakes', e) = 0
    BY <2>1 DEF StakedAt
  <2>6. owed' = [e \in 0..MaxEra |-> 0]
    BY <1>a, <2>5 DEF TableOf
  <2> QED
    BY <1>c, <2>1, <2>4, <2>6 DEF Table!Withdraw, Table!Eras
<1>7. ASSUME UNCHANGED vars
      PROVE  UNCHANGED Table!vars
  BY <1>7 DEF vars, Table!vars, owed
<1> QED
  BY <1>1, <1>2, <1>3, <1>4, <1>5, <1>6, <1>7 DEF Next, Table!Next

(* The StakerInfo vector implements the full table of unclaimed stakes.    *)
THEOREM Refinement == Spec => ImplementsTable
  BY InitIInv, NextIInv, TableInit, TableNext, PTL
     DEF Spec, ImplementsTable, Table!Spec
===============================================================================
