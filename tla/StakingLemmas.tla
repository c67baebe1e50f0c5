---------------------------- MODULE StakingLemmas -----------------------------
(***************************************************************************)
(* Lemmas about the operators the staking modules are built from: what the *)
(* operations of StakerInfo do to a sorted vector and to the stakes the    *)
(* vector stands for, and facts about sums over finite functions.          *)
(***************************************************************************)
EXTENDS StakerInfo, Sums, SequenceTheorems, FiniteSetTheorems, TLAPS

(* The parts of a vector have the types they should.                       *)
LEMMA VectorType ==
    ASSUME NEW s \in Seq(EraStake)
    PROVE  /\ Len(s) \in Nat
           /\ DOMAIN s = 1..Len(s)
           /\ \A i \in DOMAIN s :
                  /\ i \in Nat
                  /\ s[i] \in EraStake
                  /\ s[i].era \in Nat
                  /\ s[i].staked \in Nat
<1>1. Len(s) \in Nat /\ DOMAIN s = 1..Len(s)
  BY LenProperties
<1>2. \A i \in DOMAIN s : s[i] \in EraStake
  BY <1>1, ElementOfSeq
<1> QED
  BY <1>1, <1>2 DEF EraStake

(* At most one position of a vector covers an era.                         *)
LEMMA CoverUnique ==
    ASSUME NEW s \in Seq(EraStake), NEW e \in Nat,
           NEW i \in DOMAIN s, NEW j \in DOMAIN s,
           Covers(s, i, e), Covers(s, j, e)
    PROVE  i = j
<1>1. i \in Nat /\ j \in Nat /\ s[i].era \in Nat /\ s[j].era \in Nat
  BY VectorType
<1>2. s[i].era <= e /\ s[j].era <= e
  BY DEF Covers
<1>3. ~(i < j)
  BY <1>1, <1>2 DEF Covers
<1>4. ~(j < i)
  BY <1>1, <1>2 DEF Covers
<1> QED
  BY <1>1, <1>3, <1>4

(* The stake in an era that a position covers is that position's.          *)
LEMMA StakedAtCovered ==
    ASSUME NEW s \in Seq(EraStake), NEW e \in Nat,
           NEW i \in DOMAIN s, Covers(s, i, e)
    PROVE  StakedAt(s, e) = s[i].staked
<1> DEFINE c == CHOOSE k \in DOMAIN s : Covers(s, k, e)
<1>1. c \in DOMAIN s /\ Covers(s, c, e)
  OBVIOUS
<1>2. c = i
  BY <1>1, CoverUnique
<1> QED
  BY <1>2 DEF StakedAt

(* The stake in any era is a number.                                       *)
LEMMA StakedAtType ==
    ASSUME NEW s \in Seq(EraStake), NEW e \in Nat
    PROVE  StakedAt(s, e) \in Nat
<1>1. CASE \E i \in DOMAIN s : Covers(s, i, e)
  <2> PICK i \in DOMAIN s : Covers(s, i, e)
    BY <1>1
  <2>1. s[i].staked \in Nat
    BY VectorType
  <2> QED
    BY <2>1, StakedAtCovered
<1>2. CASE ~\E i \in DOMAIN s : Covers(s, i, e)
  BY <1>2 DEF StakedAt
<1> QED
  BY <1>1, <1>2

(* A vector that is not ahead of an era says of that era what              *)
(* latest_staked_value says.                                               *)
LEMMA LatestIsStakedAt ==
    ASSUME NEW s \in Seq(EraStake), NEW e \in Nat,
           NotAhead(s, e)
    PROVE  /\ LatestStakedValue(s) = StakedAt(s, e)
           /\ LatestStakedValue(s) \in Nat
<1>1. CASE s = <<>>
  BY <1>1 DEF LatestStakedValue, StakedAt
<1>2. CASE s # <<>>
  <2>1. Len(s) \in DOMAIN s
    BY <1>2
  <2>2. Covers(s, Len(s), e)
    BY <2>1 DEF Covers, NotAhead
  <2> QED
    BY <1>2, <2>1, <2>2, StakedAtCovered, VectorType DEF LatestStakedValue
<1> QED
  BY <1>1, <1>2

(* Two vectors with the same covering values in an era agree on it.        *)
LEMMA SameCover ==
    ASSUME NEW s \in Seq(EraStake), NEW t \in Seq(EraStake), NEW e \in Nat,
           \A i \in DOMAIN s : Covers(s, i, e) =>
               \E j \in DOMAIN t : Covers(t, j, e) /\ t[j].staked = s[i].staked,
           \A j \in DOMAIN t : Covers(t, j, e) =>
               \E i \in DOMAIN s : Covers(s, i, e)
    PROVE  StakedAt(t, e) = StakedAt(s, e)
<1>1. CASE \E i \in DOMAIN s : Covers(s, i, e)
  <2> PICK i \in DOMAIN s : Covers(s, i, e)
    BY <1>1
  <2> PICK j \in DOMAIN t : Covers(t, j, e) /\ t[j].staked = s[i].staked
    OBVIOUS
  <2> QED
    BY StakedAtCovered
<1>2. CASE ~\E i \in DOMAIN s : Covers(s, i, e)
  BY <1>2 DEF StakedAt
<1> QED
  BY <1>1, <1>2

(* What t, the vector s with the stake v written for the era e, is like:   *)
(* sorted and not ahead of e, and with every earlier era as it was.        *)
LatestWritten(s, e, v, t) ==
    /\ t \in Seq(EraStake)
    /\ t # <<>>
    /\ Sorted(t)
    /\ NotAhead(t, e)
    /\ \A i \in DOMAIN t : t[i].era = e \/ (i \in DOMAIN s /\ t[i] = s[i])
    /\ StakedAt(t, e) = v
    /\ \A f \in Nat : f < e => StakedAt(t, f) = StakedAt(s, f)

(* SetLatest writes the stake of the era e, and that only.                 *)
LEMMA SetLatestProperties ==
    ASSUME NEW s \in Seq(EraStake), NEW e \in Nat, NEW v \in Nat, Sorted(s),
           NotAhead(s, e)
    PROVE  LatestWritten(s, e, v, SetLatest(s, e, v))
<1> DEFINE x == [era |-> e, staked |-> v]
           t == SetLatest(s, e, v)
<1>0. x \in EraStake /\ x.era = e /\ x.staked = v
  BY DEF EraStake
<1>a. \A i \in DOMAIN s : s[i].era <= e
  BY DEF NotAhead
<1>1. CASE s # <<>> /\ s[Len(s)].era = e
  <2>1. t = [s EXCEPT ![Len(s)] = x]
    BY <1>1 DEF SetLatest
  <2>2. Len(s) \in DOMAIN s /\ Len(s) \in Nat /\ DOMAIN s = 1..Len(s)
    BY <1>1
  <2>3. /\ t \in Seq(EraStake)
        /\ Len(t) = Len(s)
        /\ DOMAIN t = DOMAIN s
        /\ t[Len(s)] = x
        /\ \A i \in DOMAIN s : i # Len(s) => t[i] = s[i]
    BY <1>0, <2>1, <2>2
  <2>4. \A i \in DOMAIN s : t[i].era = s[i].era
    BY <1>0, <1>1, <2>3
  <2>5. Sorted(t)
    BY <2>3, <2>4 DEF Sorted
  <2>6. Covers(t, Len(s), e)
    BY <1>0, <2>2, <2>3 DEF Covers
  <2>7. StakedAt(t, e) = v
    BY <1>0, <2>2, <2>3, <2>6, StakedAtCovered
  <2>8. ASSUME NEW f \in Nat, f < e
        PROVE  StakedAt(t, f) = StakedAt(s, f)
    <3>1. \A i \in DOMAIN s : Covers(s, i, f) <=> Covers(t, i, f)
      BY <2>3, <2>4 DEF Covers
    <3>2. ~Covers(s, Len(s), f)
      BY <1>1, <2>2, <2>8, VectorType DEF Covers
    <3>3. \A i \in DOMAIN s : Covers(s, i, f) => t[i].staked = s[i].staked
      BY <2>3, <3>2
    <3> QED
      BY <2>3, <3>1, <3>3, SameCover
  <2> QED
    BY <1>0, <1>1, <1>a, <2>2, <2>3, <2>4, <2>5, <2>7, <2>8
       DEF NotAhead, LatestWritten
<1>2. CASE ~(s # <<>> /\ s[Len(s)].era = e)
  <2>1. t = Append(s, x)
    BY <1>2 DEF SetLatest
  <2>2. Len(s) \in Nat /\ DOMAIN s = 1..Len(s)
    OBVIOUS
  <2>3. /\ t \in Seq(EraStake)
        /\ Len(t) = Len(s) + 1
        /\ DOMAIN t = 1..(Len(s) + 1)
        /\ t[Len(s) + 1] = x
        /\ \A i \in DOMAIN s : t[i] = s[i]
    BY <1>0, <2>1, <2>2
  <2>4. \A i \in DOMAIN s : s[i].era < e
    <3> SUFFICES ASSUME NEW i \in DOMAIN s PROVE s[i].era < e
      OBVIOUS
    <3>1. s # <<>> /\ Len(s) \in DOMAIN s
      BY <2>2
    <3>2. s[Len(s)].era < e
      BY <1>2, <1>a, <3>1, VectorType
    <3>3. i = Len(s) \/ s[i].era < s[Len(s)].era
      BY <2>2, <3>1 DEF Sorted
    <3> QED
      BY <3>1, <3>2, <3>3, VectorType
  <2>5. Sorted(t)
    BY <1>0, <2>2, <2>3, <2>4 DEF Sorted
  <2>6. Covers(t, Len(s) + 1, e)
    BY <1>0, <2>2, <2>3 DEF Covers
  <2>7. StakedAt(t, e) = v
    BY <1>0, <2>2, <2>3, <2>6, StakedAtCovered
  <2>8. ASSUME NEW f \in Nat, f < e
        PROVE  StakedAt(t, f) = StakedAt(s, f)
    <3>1. \A i \in DOMAIN s : Covers(s, i, f) <=> Covers(t, i, f)
      BY <1>0, <2>2, <2>3, <2>8 DEF Covers
    <3>2. ~Covers(t, Len(s) + 1, f)
      BY <1>0, <2>2, <2>3, <2>8 DEF Covers
    <3>3. \A j \in DOMAIN t : Covers(t, j, f) => j \in DOMAIN s
      BY <2>2, <2>3, <3>2
    <3>4. DOMAIN s \subseteq DOMAIN t
      BY <2>2, <2>3
    <3> QED
      BY <2>3, <3>1, <3>3, <3>4, SameCover
  <2>9. \A i \in DOMAIN t : t[i].era = e \/ (i \in DOMAIN s /\ t[i] = s[i])
    BY <1>0, <2>2, <2>3
  <2> QED
    BY <1>0, <1>a, <2>3, <2>5, <2>7, <2>8, <2>9 DEF NotAhead, LatestWritten
<1> QED
  BY <1>1, <1>2

(* What Tail does to a sorted vector: the values keep their places, one    *)
(* further, and an era that a value after the head covers is covered by it *)
(* still.                                                                  *)
LEMMA TailProperties ==
    ASSUME NEW s \in Seq(EraStake), s # <<>>, Sorted(s)
    PROVE  /\ Tail(s) \in Seq(EraStake)
           /\ Len(Tail(s)) = Len(s) - 1
           /\ \A i \in DOMAIN Tail(s) :
                  i + 1 \in DOMAIN s /\ Tail(s)[i] = s[i + 1]
           /\ \A i \in DOMAIN s : i # 1 =>
                  i - 1 \in DOMAIN Tail(s) /\ Tail(s)[i - 1] = s[i]
           /\ Sorted(Tail(s))
           /\ \A i \in DOMAIN Tail(s) : Tail(s)[i].era > s[1].era
           /\ \A i \in DOMAIN Tail(s), e \in Nat :
                  Covers(Tail(s), i, e) => Covers(s, i + 1, e)
           /\ \A i \in DOMAIN s, e \in Nat :
                  i # 1 /\ Covers(s, i, e) => Covers(Tail(s), i - 1, e)
<1> DEFINE t == Tail(s)
<1>1. Len(s) \in Nat \ {0} /\ DOMAIN s = 1..Len(s) /\ 1 \in DOMAIN s
  BY VectorType
<1>2. /\ t \in Seq(EraStake)
      /\ Len(t) = Len(s) - 1
      /\ DOMAIN t = 1..(Len(s) - 1)
      /\ \A i \in DOMAIN t : t[i] = s[i + 1]
  BY <1>1, HeadTailProperties, LenProperties
<1>3. \A i \in DOMAIN t : i + 1 \in DOMAIN s
  BY <1>1, <1>2
<1>4. \A i \in DOMAIN s : i # 1 => i - 1 \in DOMAIN t /\ t[i - 1] = s[i]
  BY <1>1, <1>2
<1>5. Sorted(t)
  BY <1>1, <1>2, <1>3 DEF Sorted
<1>6. \A i \in DOMAIN t : t[i].era > s[1].era
  <2> SUFFICES ASSUME NEW i \in DOMAIN t PROVE t[i].era > s[1].era
    OBVIOUS
  <2>1. i + 1 \in DOMAIN s /\ 1 < i + 1 /\ t[i] = s[i + 1]
    BY <1>1, <1>2, <1>3
  <2>2. s[1].era < s[i + 1].era
    BY <1>1, <2>1 DEF Sorted
  <2> QED
    BY <1>1, <2>1, <2>2, VectorType
<1>7. ASSUME NEW i \in DOMAIN t, NEW e \in Nat, Covers(t, i, e)
      PROVE  Covers(s, i + 1, e)
  <2> SUFFICES ASSUME NEW j \in DOMAIN s, j > i + 1 PROVE s[j].era > e
    BY <1>2, <1>7 DEF Covers
  <2>1. j - 1 \in DOMAIN t /\ t[j - 1] = s[j] /\ j - 1 > i
    BY <1>1, <1>2, <1>4
  <2> QED
    BY <1>7, <2>1 DEF Covers
<1>8. ASSUME NEW i \in DOMAIN s, NEW e \in Nat, i # 1, Covers(s, i, e)
      PROVE  Covers(t, i - 1, e)
  <2>1. t[i - 1].era <= e
    BY <1>4, <1>8 DEF Covers
  <2> SUFFICES ASSUME NEW j \in DOMAIN t, j > i - 1 PROVE t[j].era > e
    BY <2>1 DEF Covers
  <2>2. j + 1 \in DOMAIN s /\ t[j] = s[j + 1] /\ j + 1 > i
    BY <1>1, <1>2, <1>3
  <2> QED
    BY <1>8, <2>2 DEF Covers
<1> QED
  BY <1>2, <1>3, <1>4, <1>5, <1>6, <1>7, <1>8

(* Dropping an unstaked head changes no era's stake.                       *)
LEMMA DropUnstakedHeadProperties ==
    ASSUME NEW s \in Seq(EraStake), Sorted(s)
    PROVE  LET t == DropUnstakedHead(s)
           IN  /\ t \in Seq(EraStake)
               /\ Sorted(t)
               /\ \A i \in DOMAIN t : \E j \in DOMAIN s : t[i] = s[j]
               /\ \A e \in Nat : StakedAt(t, e) = StakedAt(s, e)
<1>1. CASE s # <<>> /\ s[1].staked = 0
  <2> DEFINE t == Tail(s)
  <2>1. DropUnstakedHead(s) = t
    BY <1>1 DEF DropUnstakedHead
  <2>2. 1 \in DOMAIN s
    BY <1>1, VectorType
  <2>3. ASSUME NEW e \in Nat
        PROVE  StakedAt(t, e) = StakedAt(s, e)
    <3>1. CASE Covers(s, 1, e)
      <4>1. StakedAt(s, e) = 0
        BY <1>1, <2>2, <3>1, StakedAtCovered
      <4>2. ~\E i \in DOMAIN t : Covers(t, i, e)
        <5> SUFFICES ASSUME NEW i \in DOMAIN t, Covers(t, i, e) PROVE FALSE
          OBVIOUS
        <5>1. i + 1 \in DOMAIN s /\ Covers(s, i + 1, e)
          BY <1>1, TailProperties
        <5>2. i + 1 = 1
          BY <2>2, <3>1, <5>1, CoverUnique
        <5>3. i \in Nat /\ i >= 1
          BY <1>1, TailProperties, VectorType
        <5> QED
          BY <5>2, <5>3
      <4> QED
        BY <4>1, <4>2 DEF StakedAt
    <3>2. CASE ~Covers(s, 1, e)
      <4>1. \A i \in DOMAIN s : Covers(s, i, e) =>
                /\ i - 1 \in DOMAIN t
                /\ Covers(t, i - 1, e)
                /\ t[i - 1].staked = s[i].staked
        BY <1>1, <3>2, TailProperties
      <4>2. \A j \in DOMAIN t : Covers(t, j, e) =>
                j + 1 \in DOMAIN s /\ Covers(s, j + 1, e)
        BY <1>1, TailProperties
      <4>3. t \in Seq(EraStake)
        BY <1>1, TailProperties
      <4> QED
        BY <4>1, <4>2, <4>3, SameCover
    <3> QED
      BY <3>1, <3>2
  <2> QED
    BY <1>1, <2>1, <2>3, TailProperties
<1>2. CASE ~(s # <<>> /\ s[1].staked = 0)
  BY <1>2 DEF DropUnstakedHead
<1> QED
  BY <1>1, <1>2

(* Moving the head past its era settles that era and no other, and leaves  *)
(* nothing at or before it.                                                *)
LEMMA AdvanceHeadProperties ==
    ASSUME NEW s \in Seq(EraStake), s # <<>>, Sorted(s)
    PROVE  LET t == AdvanceHead(s)
               h == s[1].era
           IN  /\ t \in Seq(EraStake)
               /\ Sorted(t)
               /\ \A i \in DOMAIN t : t[i].era > h
               /\ \A i \in DOMAIN t :
                      t[i].era = h + 1 \/ \E j \in DOMAIN s : t[i] = s[j]
               /\ StakedAt(t, h) = 0
               /\ \A e \in Nat : e # h => StakedAt(t, e) = StakedAt(s, e)
<1> DEFINE t == AdvanceHead(s)
           h == s[1].era
           x == [era |-> h + 1, staked |-> s[1].staked]
<1>0. 1 \in DOMAIN s /\ h \in Nat /\ x \in EraStake /\ DOMAIN s = 1..Len(s)
  BY VectorType DEF EraStake
<1>1. \A i \in DOMAIN s : i # 1 => s[i].era > h
  <2> SUFFICES ASSUME NEW i \in DOMAIN s, i # 1 PROVE s[i].era > h
    OBVIOUS
  <2>1. 1 < i
    BY <1>0, VectorType
  <2>2. s[1].era < s[i].era
    BY <1>0, <2>1 DEF Sorted
  <2> QED
    BY <1>0, <2>2, VectorType
<1>2. CASE Len(s) = 1 \/ s[2].era > h + 1
  <2>1. t = [s EXCEPT ![1] = x]
    BY <1>2 DEF AdvanceHead
  <2>2. /\ t \in Seq(EraStake)
        /\ DOMAIN t = DOMAIN s
        /\ t[1] = x
        /\ \A i \in DOMAIN s : i # 1 => t[i] = s[i]
    BY <1>0, <2>1, ExceptSeq
  <2>3. \A i \in DOMAIN s : i # 1 => s[i].era > h + 1
    <3> SUFFICES ASSUME NEW i \in DOMAIN s, i # 1 PROVE s[i].era > h + 1
      OBVIOUS
    <3>1. Len(s) # 1 /\ 2 \in DOMAIN s /\ (i = 2 \/ 2 < i)
      BY <1>0, VectorType
    <3>2. s[2].era > h + 1
      BY <1>2, <3>1
    <3>3. i = 2 \/ s[2].era < s[i].era
      BY <3>1 DEF Sorted
    <3> QED
      BY <1>0, <3>1, <3>2, <3>3, VectorType
  <2>4. \A i \in DOMAIN t : t[i].era > h
    BY <1>0, <1>1, <2>2
  <2>5. Sorted(t)
    <3> SUFFICES ASSUME NEW i \in DOMAIN s, NEW j \in DOMAIN s, i < j
                 PROVE  t[i].era < t[j].era
      BY <2>2 DEF Sorted
    <3>1. j # 1 /\ t[j] = s[j] /\ s[j].era > h + 1 /\ s[i].era < s[j].era
      BY <1>0, <2>2, <2>3, VectorType DEF Sorted
    <3>2. CASE i = 1
      BY <2>2, <3>1, <3>2
    <3>3. CASE i # 1
      BY <2>2, <3>1, <3>3
    <3> QED
      BY <3>2, <3>3
  <2>6. StakedAt(t, h) = 0
    <3>1. \A i \in DOMAIN t : ~Covers(t, i, h)
      BY <1>0, <2>2, <2>4, VectorType DEF Covers
    <3> QED
      BY <3>1 DEF StakedAt
  <2>7. ASSUME NEW e \in Nat, e # h
        PROVE  StakedAt(t, e) = StakedAt(s, e)
    <3>1. \A i \in DOMAIN s : t[i].era <= e <=> s[i].era <= e
      BY <1>0, <2>2, <2>7
    <3>2. \A i \in DOMAIN s : t[i].era > e <=> s[i].era > e
      BY <1>0, <2>2, <2>7
    <3>3. \A i \in DOMAIN s : Covers(t, i, e) <=> Covers(s, i, e)
      BY <2>2, <3>1, <3>2 DEF Covers
    <3>4. \A i \in DOMAIN s : t[i].staked = s[i].staked
      BY <1>0, <2>2
    <3> QED
      BY <2>2, <3>3, <3>4, SameCover
  <2> QED
    BY <1>0, <2>2, <2>4, <2>5, <2>6, <2>7
<1>3. CASE ~(Len(s) = 1 \/ s[2].era > h + 1)
  <2>1. t = Tail(s)
    BY <1>3 DEF AdvanceHead
  <2>2. 2 \in DOMAIN s /\ s[2].era = h + 1
    <3>1. 2 \in DOMAIN s
      BY <1>0, <1>3, VectorType
    <3> QED
      BY <1>0, <1>1, <1>3, <3>1, VectorType
  <2>3. \A e \in Nat : e # h => ~Covers(s, 1, e)
    BY <1>0, <2>2 DEF Covers
  <2>4. ASSUME NEW e \in Nat, e # h
        PROVE  StakedAt(t, e) = StakedAt(s, e)
    <3>1. \A i \in DOMAIN s : Covers(s, i, e) =>
              /\ i - 1 \in DOMAIN t
              /\ Covers(t, i - 1, e)
              /\ t[i - 1].staked = s[i].staked
      BY <2>1, <2>3, <2>4, TailProperties
    <3>2. \A j \in DOMAIN t : Covers(t, j, e) =>
              j + 1 \in DOMAIN s /\ Covers(s, j + 1, e)
      BY <2>1, TailProperties
    <3>3. t \in Seq(EraStake)
      BY <2>1, TailProperties
    <3> QED
      BY <3>1, <3>2, <3>3, SameCover
  <2>5. StakedAt(t, h) = 0
    <3>1. \A i \in DOMAIN t : t[i].era > h
      BY <2>1, TailProperties
    <3>2. t \in Seq(EraStake)
      BY <2>1, TailProperties
    <3>3. \A i \in DOMAIN t : ~Covers(t, i, h)
      BY <1>0, <3>1, <3>2, VectorType DEF Covers
    <3> QED
      BY <3>3 DEF StakedAt
  <2> QED
    BY <2>1, <2>4, <2>5, TailProperties
<1> QED
  BY <1>2, <1>3

-------------------------------------------------------------------------------
(* Sums.  A sum is a recursive function on the subsets of its domain; the  *)
(* number of cells under the function's graph solves the same equation, so *)
(* it is the sum (SumIsCells), and the rest follows from facts about       *)
(* cardinalities.                                                          *)

(* Induction over the subsets of a finite set, the induction hypothesis    *)
(* given as the set G of the subsets for which it holds.                   *)
LEMMA SetInduction ==
    ASSUME NEW S, IsFiniteSet(S), NEW G,
           \A t \in SUBSET S : (\A x \in t : t \ {x} \in G) => t \in G
    PROVE  S \in G
<1> DEFINE bad == {t \in SUBSET S : t \notin G}
<1> SUFFICES ASSUME bad # {} PROVE FALSE
  OBVIOUS
<1>1. IsWellFoundedOn(StrictSubsetOrdering(S), SUBSET S)
  <2>1. FiniteSubsetsOf(S) = SUBSET S
    BY FS_FiniteSubsetsOfFinite
  <2>2. IsWellFoundedOn(StrictSubsetOrdering(S), FiniteSubsetsOf(S))
    BY FS_StrictSubsetOrderingWellFounded
  <2> QED
    BY <2>1, <2>2
<1>2. PICK t \in bad : \A u \in bad : ~(<<u, t>> \in StrictSubsetOrdering(S))
  <2>1. bad \subseteq SUBSET S
    OBVIOUS
  <2> HIDE DEF bad
  <2> QED
    BY <1>1, <2>1, WFMin
<1>3. t \in SUBSET S /\ t \notin G
  OBVIOUS
<1>4. ASSUME NEW x \in t
      PROVE  t \ {x} \in G
  <2>1. t \ {x} \in SUBSET S /\ t \ {x} \subseteq t /\ t \ {x} # t
    BY <1>3
  <2>2. <<t \ {x}, t>> \in StrictSubsetOrdering(S)
    BY <1>3, <2>1 DEF StrictSubsetOrdering
  <2> QED
    BY <1>2, <2>1, <2>2
<1> QED
  BY <1>3, <1>4
-------------------------------------------------------------------------------
(* The cells under the graph of f over the set s.                          *)
Cells(f, s) == {c \in s \X Nat : c[2] \in 1..f[c[1]]}

LEMMA CellsOfOne ==
    ASSUME NEW f, NEW x, f[x] \in Nat
    PROVE  IsFiniteSet(Cells(f, {x})) /\ Cardinality(Cells(f, {x})) = f[x]
<1>1. Cells(f, {x}) = {x} \X (1..f[x])
  BY DEF Cells
<1>2. IsFiniteSet(1..f[x]) /\ Cardinality(1..f[x]) = f[x]
  <2> PICK n \in Nat : n = f[x]
    OBVIOUS
  <2>1. /\ IsFiniteSet(1..n)
        /\ Cardinality(1..n) = IF 1 > n THEN 0 ELSE n - 1 + 1
    <3>1. 1 \in Int /\ n \in Int
      OBVIOUS
    <3> QED
      BY <3>1, FS_Interval, Zenon
  <2>2. Cardinality(1..n) = n
    BY <2>1
  <2> QED
    BY <2>1, <2>2
<1>3. IsFiniteSet({x}) /\ Cardinality({x}) = 1
  BY FS_Singleton
<1>4. IsFiniteSet({x} \X (1..f[x]))
      /\ Cardinality({x} \X (1..f[x])) = Cardinality({x}) * Cardinality(1..f[x])
  BY <1>2, <1>3, FS_Product
<1>5. 1 * f[x] = f[x]
  OBVIOUS
<1> QED
  BY <1>1, <1>2, <1>3, <1>4, <1>5

LEMMA CellsFinite ==
    ASSUME NEW S, IsFiniteSet(S), NEW f, \A x \in S : f[x] \in Nat
    PROVE  IsFiniteSet(Cells(f, S)) /\ Cardinality(Cells(f, S)) \in Nat
<1> DEFINE G == {t \in SUBSET S : IsFiniteSet(Cells(f, t))}
<1>1. {} \in G
  <2>1. Cells(f, {}) = {}
    BY DEF Cells
  <2> QED
    BY <2>1, FS_EmptySet
<1>2. ASSUME NEW t \in SUBSET S, \A x \in t : t \ {x} \in G
      PROVE  t \in G
  <2> SUFFICES ASSUME NEW x \in t PROVE t \in G
    BY <1>1
  <2>1. Cells(f, t) = Cells(f, t \ {x}) \cup Cells(f, {x})
    BY DEF Cells
  <2>2. IsFiniteSet(Cells(f, {x}))
    BY CellsOfOne
  <2>3. IsFiniteSet(Cells(f, t \ {x}))
    BY <1>2
  <2>4. IsFiniteSet(Cells(f, t))
    BY <2>1, <2>2, <2>3, FS_Union
  <2> QED
    BY <2>4
<1> HIDE DEF G
<1>3. S \in G
  BY <1>1, <1>2, SetInduction
<1> QED
  BY <1>3, FS_CardinalityType DEF G

(* Disjoint parts of the domain add up.                                    *)
LEMMA CellsSplit ==
    ASSUME NEW S, IsFiniteSet(S), NEW f, \A x \in S : f[x] \in Nat,
           NEW t \in SUBSET S
    PROVE  Cardinality(Cells(f, S))
               = Cardinality(Cells(f, t)) + Cardinality(Cells(f, S \ t))
<1>1. IsFiniteSet(t) /\ IsFiniteSet(S \ t)
  BY FS_Subset, FS_Difference
<1>2. /\ IsFiniteSet(Cells(f, t)) /\ Cardinality(Cells(f, t)) \in Nat
      /\ IsFiniteSet(Cells(f, S \ t)) /\ Cardinality(Cells(f, S \ t)) \in Nat
  BY <1>1, CellsFinite
<1>3. /\ Cells(f, S) = Cells(f, t) \cup Cells(f, S \ t)
      /\ Cells(f, t) \cap Cells(f, S \ t) = {}
  BY DEF Cells
<1>4. Cardinality(Cells(f, t) \cup Cells(f, S \ t))
          = Cardinality(Cells(f, t)) + Cardinality(Cells(f, S \ t))
                - Cardinality(Cells(f, t) \cap Cells(f, S \ t))
  BY <1>2, FS_Union
<1>5. Cardinality(Cells(f, t) \cap Cells(f, S \ t)) = 0
  BY <1>3, FS_EmptySet
<1> QED
  BY <1>2, <1>3, <1>4, <1>5

(* The equation that defines the sum, as a step from one solution.         *)
Added(f, it) ==
    [s \in SUBSET DOMAIN f |->
        IF s = {} THEN 0
        ELSE LET x == CHOOSE x \in s : TRUE IN f[x] + it[s \ {x}]]

LEMMA SumIsFixpoint ==
    ASSUME NEW f
    PROVE  Sum(f) = (CHOOSE it : it = Added(f, it))[DOMAIN f]
  BY DEF Sum, MapThenSumSet, MapThenFoldSet, Added

LEMMA SumIsCells ==
    ASSUME NEW S, IsFiniteSet(S), NEW f \in [S -> Nat]
    PROVE  Sum(f) = Cardinality(Cells(f, S))
<1> DEFINE count == [s \in SUBSET S |-> Cardinality(Cells(f, s))]
           sum == CHOOSE it : it = Added(f, it)
<1>0. DOMAIN f = S /\ \A x \in S : f[x] \in Nat
  OBVIOUS
<1>1. count = Added(f, count)
  <2>1. ASSUME NEW s \in SUBSET S
        PROVE  count[s] = Added(f, count)[s]
    <3>1. CASE s = {}
      <4>1. Cells(f, {}) = {}
        BY DEF Cells
      <4> QED
        BY <1>0, <3>1, <4>1, FS_EmptySet DEF Added
    <3>2. CASE s # {}
      <4> DEFINE x == CHOOSE x \in s : TRUE
      <4>1. x \in s
        BY <3>2
      <4> HIDE DEF x
      <4>2. IsFiniteSet(s) /\ \A y \in s : f[y] \in Nat
        BY <1>0, FS_Subset
      <4>3. Cardinality(Cells(f, s))
                = Cardinality(Cells(f, {x})) + Cardinality(Cells(f, s \ {x}))
        BY <4>1, <4>2, CellsSplit
      <4>4. Cardinality(Cells(f, {x})) = f[x]
        BY <1>0, <4>1, CellsOfOne
      <4>5. Added(f, count)[s] = f[x] + count[s \ {x}]
        BY <1>0, <3>2 DEF Added, x
      <4>6. s \ {x} \in SUBSET S
        OBVIOUS
      <4>7. count[s \ {x}] = Cardinality(Cells(f, s \ {x}))
        BY <4>6
      <4> QED
        BY <4>3, <4>4, <4>5, <4>7
    <3> QED
      BY <3>1, <3>2
  <2> QED
    BY <1>0, <2>1 DEF Added
<1>2. sum = Added(f, sum)
  BY <1>1
<1> HIDE DEF sum
<1> DEFINE G == {t \in SUBSET S : sum[t] = count[t]}
<1>3. {} \in G
  <2>1. sum[{}] = 0
    BY <1>0, <1>2 DEF Added
  <2>2. count[{}] = 0
    BY <1>0, <1>1 DEF Added
  <2> QED
    BY <2>1, <2>2
<1>4. \A t \in SUBSET S : (\A x \in t : t \ {x} \in G) => t \in G
  <2> SUFFICES ASSUME NEW t \in SUBSET S, t # {}, \A x \in t : t \ {x} \in G
               PROVE  t \in G
    BY <1>3
  <2> DEFINE x == CHOOSE x \in t : TRUE
  <2>1. x \in t
    OBVIOUS
  <2>2. sum[t] = f[x] + sum[t \ {x}]
    BY <1>0, <1>2 DEF Added
  <2>3. count[t] = f[x] + count[t \ {x}]
    BY <1>0, <1>1 DEF Added
  <2> HIDE DEF x, count
  <2> QED
    BY <2>1, <2>2, <2>3
<1> HIDE DEF G
<1>5. S \in G
  BY <1>4, SetInduction
<1> QED
  BY <1>0, <1>5, SumIsFixpoint DEF G, sum
-------------------------------------------------------------------------------
(* What the other proofs use *)

LEMMA SumType ==
    ASSUME NEW S, IsFiniteSet(S), NEW f \in [S -> Nat]
    PROVE  Sum(f) \in Nat
  BY SumIsCells, CellsFinite

LEMMA SumEmpty ==
    ASSUME NEW f \in [{} -> Nat]
    PROVE  Sum(f) = 0
<1>1. Cells(f, {}) = {}
  BY DEF Cells
<1> QED
  BY <1>1, SumIsCells, FS_EmptySet

(* The sum over a part of the domain and the sum over the rest.            *)
LEMMA SumSplit ==
    ASSUME NEW S, IsFiniteSet(S), NEW f \in [S -> Nat], NEW t \in SUBSET S
    PROVE  /\ Sum(Restrict(f, t)) \in Nat
           /\ Sum(Restrict(f, S \ t)) \in Nat
           /\ Sum(f) = Sum(Restrict(f, t)) + Sum(Restrict(f, S \ t))
<1> DEFINE g == Restrict(f, t)
           h == Restrict(f, S \ t)
<1>1. IsFiniteSet(t) /\ IsFiniteSet(S \ t)
  BY FS_Subset, FS_Difference
<1>2. g \in [t -> Nat] /\ h \in [S \ t -> Nat]
  BY DEF Restrict
<1>3. Cells(g, t) = Cells(f, t) /\ Cells(h, S \ t) = Cells(f, S \ t)
  BY DEF Cells, Restrict
<1> HIDE DEF g, h
<1>4. Sum(g) = Cardinality(Cells(f, t)) /\ Sum(h) = Cardinality(Cells(f, S \ t))
  BY <1>1, <1>2, <1>3, SumIsCells
<1>5. Sum(g) \in Nat /\ Sum(h) \in Nat
  BY <1>1, <1>2, SumType
<1>6. Sum(f) = Sum(g) + Sum(h)
  BY <1>4, SumIsCells, CellsSplit
<1> QED
  BY <1>5, <1>6 DEF g, h

LEMMA SumOfOne ==
    ASSUME NEW x, NEW f \in [{x} -> Nat]
    PROVE  Sum(f) = f[x]
<1>1. IsFiniteSet({x})
  BY FS_Singleton
<1> QED
  BY <1>1, SumIsCells, CellsOfOne

LEMMA SumRemove ==
    ASSUME NEW S, IsFiniteSet(S), NEW f \in [S -> Nat], NEW x \in S
    PROVE  /\ f[x] \in Nat
           /\ Sum(Restrict(f, S \ {x})) \in Nat
           /\ Sum(f) = f[x] + Sum(Restrict(f, S \ {x}))
<1>1. Restrict(f, {x}) \in [{x} -> Nat] /\ Restrict(f, {x})[x] = f[x]
  BY DEF Restrict
<1>2. Sum(Restrict(f, {x})) = f[x]
  BY <1>1, SumOfOne
<1>3. {x} \in SUBSET S /\ f[x] \in Nat
  OBVIOUS
<1> QED
  BY <1>2, <1>3, SumSplit

(* One cell of the function changes.                                       *)
LEMMA SumUpdate ==
    ASSUME NEW S, IsFiniteSet(S), NEW f \in [S -> Nat], NEW g \in [S -> Nat],
           NEW x \in S, \A y \in S \ {x} : g[y] = f[y]
    PROVE  /\ Sum(g) + f[x] = Sum(f) + g[x]
           /\ f[x] <= Sum(f) /\ g[x] <= Sum(g)
           /\ {Sum(f), Sum(g), f[x], g[x]} \subseteq Nat
<1>1. Restrict(f, S \ {x}) = Restrict(g, S \ {x})
  BY DEF Restrict
<1> DEFINE rest == Sum(Restrict(f, S \ {x}))
<1>2. f[x] \in Nat /\ rest \in Nat /\ Sum(f) = f[x] + rest
  BY SumRemove
<1>3. g[x] \in Nat /\ Sum(g) = g[x] + rest
  BY <1>1, SumRemove
<1> HIDE DEF rest
<1> QED
  BY <1>2, <1>3

(* The function gets one more cell.                                        *)
LEMMA SumInsert ==
    ASSUME NEW S, IsFiniteSet(S), NEW f \in [S -> Nat], NEW x, x \notin S,
           NEW g \in [S \cup {x} -> Nat], \A y \in S : g[y] = f[y]
    PROVE  /\ Sum(g) = Sum(f) + g[x]
           /\ Sum(f) \in Nat /\ g[x] \in Nat
           /\ IsFiniteSet(S \cup {x})
<1>1. IsFiniteSet(S \cup {x}) /\ x \in S \cup {x}
  BY FS_AddElement
<1>2. Restrict(g, (S \cup {x}) \ {x}) = f
  BY DEF Restrict
<1>3. /\ g[x] \in Nat
      /\ Sum(Restrict(g, (S \cup {x}) \ {x})) \in Nat
      /\ Sum(g) = g[x] + Sum(Restrict(g, (S \cup {x}) \ {x}))
  BY <1>1, SumRemove
<1>4. g[x] \in Nat /\ Sum(f) \in Nat /\ Sum(g) = g[x] + Sum(f)
  BY <1>2, <1>3
<1> QED
  BY <1>1, <1>4

(* A function on one more argument.                                        *)
Extends(g, f, S, x) ==
    /\ IsFiniteSet(S) /\ x \notin S
    /\ f \in [S -> Nat] /\ g \in [S \cup {x} -> Nat]
    /\ \A y \in S : g[y] = f[y]

LEMMA SumExtends ==
    ASSUME NEW f, NEW g, NEW S, NEW x, Extends(g, f, S, x)
    PROVE  Sum(g) = Sum(f) + g[x] /\ Sum(f) \in Nat /\ g[x] \in Nat
<1>1. /\ IsFiniteSet(S) /\ x \notin S /\ f \in [S -> Nat]
      /\ g \in [S \cup {x} -> Nat] /\ \A y \in S : g[y] = f[y]
  BY DEF Extends
<1> DEFINE T == S \cup {x}
<1>2. IsFiniteSet(T) /\ x \in T /\ g \in [T -> Nat]
  BY <1>1, FS_AddElement
<1>3. T \ {x} = S /\ \A y \in T \ {x} : g[y] = f[y]
  BY <1>1
<1>4. Restrict(g, T \ {x}) = f
  BY <1>1, <1>2, <1>3 DEF Restrict
<1> HIDE DEF T
<1>5. /\ g[x] \in Nat /\ Sum(Restrict(g, T \ {x})) \in Nat
      /\ Sum(g) = g[x] + Sum(Restrict(g, T \ {x}))
  BY <1>2, SumRemove
<1> QED
  BY <1>4, <1>5

LEMMA SumMonotonic ==
    ASSUME NEW S, IsFiniteSet(S), NEW f \in [S -> Nat], NEW g \in [S -> Nat],
           \A x \in S : f[x] <= g[x]
    PROVE  Sum(f) <= Sum(g)
<1>1. Cells(f, S) \subseteq Cells(g, S)
  BY DEF Cells
<1>2. IsFiniteSet(Cells(g, S))
  BY CellsFinite
<1> QED
  BY <1>1, <1>2, SumIsCells, FS_Subset

LEMMA SumMember ==
    ASSUME NEW S, IsFiniteSet(S), NEW f \in [S -> Nat], NEW x \in S
    PROVE  f[x] <= Sum(f)
  BY SumUpdate

LEMMA SumZero ==
    ASSUME NEW S, IsFiniteSet(S), NEW f \in [S -> Nat], \A x \in S : f[x] = 0
    PROVE  Sum(f) = 0
<1>1. Cells(f, S) = {}
  BY DEF Cells
<1> QED
  BY <1>1, SumIsCells, FS_EmptySet

(* The sum of the sums of two functions.                                   *)
LEMMA SumAdd ==
    ASSUME NEW S, IsFiniteSet(S), NEW f \in [S -> Nat], NEW g \in [S -> Nat],
           NEW h \in [S -> Nat], \A x \in S : h[x] = f[x] + g[x]
    PROVE  Sum(h) = Sum(f) + Sum(g)
<1> DEFINE Holds(t) ==
               Sum(Restrict(h, t)) = Sum(Restrict(f, t)) + Sum(Restrict(g, t))
           G == {t \in SUBSET S : Holds(t)}
<1>1. ASSUME NEW t \in SUBSET S, \A x \in t : t \ {x} \in G
      PROVE  t \in G
  <2> DEFINE ft == Restrict(f, t)
             gt == Restrict(g, t)
             ht == Restrict(h, t)
  <2>1. /\ ft \in [t -> Nat] /\ gt \in [t -> Nat] /\ ht \in [t -> Nat]
        /\ \A x \in t : ht[x] = ft[x] + gt[x]
    BY DEF Restrict
  <2>2. \A x \in t : /\ Restrict(ft, t \ {x}) = Restrict(f, t \ {x})
                     /\ Restrict(gt, t \ {x}) = Restrict(g, t \ {x})
                     /\ Restrict(ht, t \ {x}) = Restrict(h, t \ {x})
    BY DEF Restrict
  <2>3. \A x \in t : Holds(t \ {x})
    BY <1>1
  <2> HIDE DEF ft, gt, ht
  <2>4. Sum(ht) = Sum(ft) + Sum(gt)
    <3>1. CASE t = {}
      <4>1. Sum(ft) = 0 /\ Sum(gt) = 0 /\ Sum(ht) = 0
        BY <2>1, <3>1, SumEmpty
      <4> QED
        BY <4>1
    <3>2. CASE t # {}
      <4> PICK x \in t : TRUE
        BY <3>2
      <4>0. IsFiniteSet(t)
        BY FS_Subset
      <4> DEFINE fr == Sum(Restrict(ft, t \ {x}))
                 gr == Sum(Restrict(gt, t \ {x}))
                 hr == Sum(Restrict(ht, t \ {x}))
      <4>1. ft[x] \in Nat /\ fr \in Nat /\ Sum(ft) = ft[x] + fr
        BY <2>1, <4>0, SumRemove
      <4>2. gt[x] \in Nat /\ gr \in Nat /\ Sum(gt) = gt[x] + gr
        BY <2>1, <4>0, SumRemove
      <4>3. ht[x] \in Nat /\ hr \in Nat /\ Sum(ht) = ht[x] + hr
        BY <2>1, <4>0, SumRemove
      <4>4. hr = fr + gr
        BY <2>2, <2>3
      <4>5. ht[x] = ft[x] + gt[x]
        BY <2>1
      <4> HIDE DEF fr, gr, hr
      <4> QED
        BY <4>1, <4>2, <4>3, <4>4, <4>5
    <3> QED
      BY <3>1, <3>2
  <2> QED
    BY <2>4 DEF ft, gt, ht
<1> HIDE DEF G
<1>2. S \in G
  BY <1>1, SetInduction
<1>3. Restrict(f, S) = f /\ Restrict(g, S) = g /\ Restrict(h, S) = h
  BY DEF Restrict
<1> QED
  BY <1>2, <1>3 DEF G

(* A table summed by rows and by columns.                                  *)
Column(m, t, b) == [a \in t |-> m[a][b]]
Columns(m, t, B) == [b \in B |-> Sum(Column(m, t, b))]

LEMMA SumSwap ==
    ASSUME NEW A, IsFiniteSet(A), NEW B, IsFiniteSet(B),
           NEW m \in [A -> [B -> Nat]],
           NEW rows \in [A -> Nat], \A a \in A : rows[a] = Sum(m[a])
    PROVE  Sum(rows) = Sum(Columns(m, A, B)) /\ Columns(m, A, B) \in [B -> Nat]
<1> DEFINE Holds(t) == /\ Sum(Restrict(rows, t)) = Sum(Columns(m, t, B))
                       /\ Columns(m, t, B) \in [B -> Nat]
           G == {t \in SUBSET A : Holds(t)}
<1>1. ASSUME NEW t \in SUBSET A, \A x \in t : t \ {x} \in G
      PROVE  t \in G
  <2> DEFINE rt == Restrict(rows, t)
             ct == Columns(m, t, B)
  <2>0. IsFiniteSet(t) /\ rt \in [t -> Nat]
    BY FS_Subset DEF Restrict
  <2>1. \A b \in B : Column(m, t, b) \in [t -> Nat]
    BY DEF Column
  <2>2. \A b \in B : Sum(Column(m, t, b)) \in Nat
    BY <2>0, <2>1, SumType
  <2>3. ct \in [B -> Nat] /\ \A b \in B : ct[b] = Sum(Column(m, t, b))
    BY <2>2 DEF Columns
  <2>4. \A x \in t : Holds(t \ {x})
    BY <1>1
  <2>5. \A x \in t : Restrict(rt, t \ {x}) = Restrict(rows, t \ {x})
    BY DEF Restrict
  <2> HIDE DEF ct, rt
  <2>6. Sum(rt) = Sum(ct)
    <3>1. CASE t = {}
      <4>1. Sum(rt) = 0
        BY <2>0, <3>1, SumEmpty
      <4>2. \A b \in B : ct[b] = 0
        BY <2>1, <2>3, <3>1, SumEmpty
      <4> QED
        BY <2>3, <4>1, <4>2, SumZero
    <3>2. CASE t # {}
      <4> PICK x \in t : TRUE
        BY <3>2
      <4> DEFINE cr == Columns(m, t \ {x}, B)
      <4>1. cr \in [B -> Nat] /\ Sum(Restrict(rt, t \ {x})) = Sum(cr)
        BY <2>4, <2>5
      <4>2. \A b \in B : cr[b] = Sum(Column(m, t \ {x}, b))
        BY DEF Columns
      <4>3. \A b \in B : /\ Restrict(Column(m, t, b), t \ {x}) = Column(m, t \ {x}, b)
                         /\ Column(m, t, b)[x] = m[x][b]
        BY DEF Restrict, Column
      <4> HIDE DEF cr
      <4>4. ASSUME NEW b \in B PROVE ct[b] = m[x][b] + cr[b]
        <5> DEFINE col == Column(m, t, b)
        <5>1. col \in [t -> Nat] /\ ct[b] = Sum(col)
          BY <2>1, <2>3
        <5>2. col[x] = m[x][b] /\ Sum(Restrict(col, t \ {x})) = cr[b]
          BY <4>2, <4>3
        <5> HIDE DEF col
        <5>3. Sum(col) = col[x] + Sum(Restrict(col, t \ {x}))
          BY <2>0, <5>1, SumRemove
        <5> QED
          BY <5>1, <5>2, <5>3
      <4>5. m[x] \in [B -> Nat]
        OBVIOUS
      <4>6. Sum(ct) = Sum(m[x]) + Sum(cr)
        <5> PICK f \in [B -> Nat], g \in [B -> Nat], k \in [B -> Nat] :
                f = m[x] /\ g = cr /\ k = ct
          BY <2>3, <4>1, <4>5
        <5>1. \A b \in B : k[b] = f[b] + g[b]
          BY <4>4
        <5>2. Sum(k) = Sum(f) + Sum(g)
          BY <5>1, SumAdd
        <5> QED
          BY <5>2
      <4>7. rt[x] = Sum(m[x])
        BY DEF rt, Restrict
      <4>8. Sum(rt) = rt[x] + Sum(Restrict(rt, t \ {x}))
        BY <2>0, SumRemove
      <4> QED
        BY <4>1, <4>6, <4>7, <4>8
    <3> QED
      BY <3>1, <3>2
  <2> QED
    BY <2>3, <2>6 DEF rt, ct
<1> HIDE DEF G
<1>2. A \in G
  BY <1>1, SetInduction
<1>3. Restrict(rows, A) = rows
  BY DEF Restrict
<1> QED
  BY <1>2, <1>3 DEF G

(* A function that is zero but in one place.                               *)
LEMMA SumSingle ==
    ASSUME NEW S, IsFiniteSet(S), NEW f \in [S -> Nat], NEW x \in S,
           \A y \in S \ {x} : f[y] = 0
    PROVE  Sum(f) = f[x]
<1> DEFINE g == Restrict(f, S \ {x})
           T == S \ {x}
<1>1. IsFiniteSet(T) /\ g \in [T -> Nat] /\ \A y \in T : g[y] = 0
  BY FS_Difference DEF Restrict
<1> HIDE DEF g, T
<1>2. Sum(g) = 0
  BY <1>1, SumZero
<1>3. f[x] \in Nat /\ Sum(f) = f[x] + Sum(g)
  BY SumRemove DEF g
<1> QED
  BY <1>2, <1>3

(* A bound on each cell that is linear in another function's is one on the *)
(* sums.                                                                   *)
LEMMA SumLinear ==
    ASSUME NEW S, IsFiniteSet(S), NEW a \in [S -> Nat], NEW b \in [S -> Nat],
           NEW k \in Nat, NEW F \in Nat, NEW d \in Nat,
           \A x \in S : a[x] * k <= b[x] * F + d
    PROVE  Sum(a) * k <= Sum(b) * F + Cardinality(S) * d
<1> DEFINE Holds(t) == Sum(Restrict(a, t)) * k
                           <= Sum(Restrict(b, t)) * F + Cardinality(t) * d
           G == {t \in SUBSET S : Holds(t)}
<1>1. ASSUME NEW t \in SUBSET S, \A x \in t : t \ {x} \in G
      PROVE  t \in G
  <2> DEFINE at == Restrict(a, t)
             bt == Restrict(b, t)
  <2>1. /\ at \in [t -> Nat] /\ bt \in [t -> Nat]
        /\ \A x \in t : at[x] = a[x] /\ bt[x] = b[x]
    BY DEF Restrict
  <2>2. \A x \in t : /\ Restrict(at, t \ {x}) = Restrict(a, t \ {x})
                     /\ Restrict(bt, t \ {x}) = Restrict(b, t \ {x})
    BY DEF Restrict
  <2>3. \A x \in t : Holds(t \ {x})
    BY <1>1
  <2>4. \A x \in t : at[x] * k <= bt[x] * F + d
    BY <2>1
  <2> HIDE DEF at, bt
  <2>5. Sum(at) * k <= Sum(bt) * F + Cardinality(t) * d
    <3>1. CASE t = {}
      <4>1. Sum(at) = 0 /\ Sum(bt) = 0 /\ Cardinality(t) = 0
        BY <2>1, <3>1, SumEmpty, FS_EmptySet
      <4> QED
        BY <4>1
    <3>2. CASE t # {}
      <4> PICK x \in t : TRUE
        BY <3>2
      <4>0. IsFiniteSet(t)
        BY FS_Subset
      <4> DEFINE ar == Sum(Restrict(at, t \ {x}))
                 br == Sum(Restrict(bt, t \ {x}))
                 c == Cardinality(t \ {x})
      <4>1. at[x] \in Nat /\ ar \in Nat /\ Sum(at) = at[x] + ar
        BY <2>1, <4>0, SumRemove
      <4>2. bt[x] \in Nat /\ br \in Nat /\ Sum(bt) = bt[x] + br
        BY <2>1, <4>0, SumRemove
      <4>3. c \in Nat /\ Cardinality(t) = c + 1
        <5>1. IsFiniteSet(t \ {x}) /\ Cardinality(t \ {x}) = Cardinality(t) - 1
          BY <4>0, FS_RemoveElement
        <5>2. Cardinality(t) \in Nat /\ Cardinality(t \ {x}) \in Nat
          BY <4>0, <5>1, FS_CardinalityType
        <5> QED
          BY <5>1, <5>2
      <4>4. ar * k <= br * F + c * d
        BY <2>2, <2>3
      <4>5. at[x] * k <= bt[x] * F + d
        BY <2>4
      <4> HIDE DEF ar, br, c
      <4>6. (at[x] + ar) * k <= (bt[x] + br) * F + (c + 1) * d
        BY <4>1, <4>2, <4>3, <4>4, <4>5
      <4> QED
        BY <4>1, <4>2, <4>3, <4>6
    <3> QED
      BY <3>1, <3>2
  <2> QED
    BY <2>5 DEF at, bt
<1> HIDE DEF G
<1>2. S \in G
  BY <1>1, SetInduction
<1>3. Restrict(a, S) = a /\ Restrict(b, S) = b
  BY DEF Restrict
<1> QED
  BY <1>2, <1>3 DEF G

(* Keys that hold nothing add nothing.                                     *)
LEMMA SumPad ==
    ASSUME NEW T, IsFiniteSet(T), NEW S \in SUBSET T, NEW f \in [S -> Nat],
           NEW h \in [T -> Nat], \A x \in S : h[x] = f[x],
           \A x \in T \ S : h[x] = 0
    PROVE  Sum(h) = Sum(f)
<1> DEFINE g == Restrict(h, T \ S)
           R == T \ S
<1>1. IsFiniteSet(R) /\ g \in [R -> Nat] /\ \A x \in R : g[x] = 0
  BY FS_Difference DEF Restrict
<1>2. Restrict(h, S) = f
  BY DEF Restrict
<1> HIDE DEF R
<1>3. Sum(g) = 0
  BY <1>1, SumZero
<1>4. Sum(Restrict(h, S)) \in Nat /\ Sum(h) = Sum(Restrict(h, S)) + Sum(g)
  BY SumSplit
<1> HIDE DEF g
<1> QED
  BY <1>2, <1>3, <1>4

LEMMA SumConstant ==
    ASSUME NEW S, IsFiniteSet(S), NEW k \in Nat
    PROVE  Sum([x \in S |-> k]) = Cardinality(S) * k
<1> DEFINE f == [x \in S |-> k]
           G == {t \in SUBSET S : Sum(Restrict(f, t)) = Cardinality(t) * k}
<1>0. f \in [S -> Nat] /\ \A x \in S : f[x] = k
  OBVIOUS
<1> HIDE DEF f
<1>1. ASSUME NEW t \in SUBSET S, \A x \in t : t \ {x} \in G
      PROVE  t \in G
  <2> DEFINE ft == Restrict(f, t)
  <2>1. ft \in [t -> Nat] /\ \A x \in t : ft[x] = k
    BY <1>0 DEF Restrict
  <2>2. \A x \in t : Restrict(ft, t \ {x}) = Restrict(f, t \ {x})
    BY <1>0 DEF Restrict
  <2> HIDE DEF ft
  <2>3. Sum(ft) = Cardinality(t) * k
    <3>1. CASE t = {}
      <4>1. Sum(ft) = 0 /\ Cardinality(t) = 0
        BY <2>1, <3>1, SumEmpty, FS_EmptySet
      <4> QED
        BY <4>1
    <3>2. CASE t # {}
      <4> PICK x \in t : TRUE
        BY <3>2
      <4>0. IsFiniteSet(t)
        BY FS_Subset
      <4> DEFINE r == Sum(Restrict(ft, t \ {x}))
                 c == Cardinality(t \ {x})
      <4>1. r \in Nat /\ Sum(ft) = k + r
        BY <2>1, <4>0, SumRemove
      <4>2. c \in Nat /\ Cardinality(t) = c + 1
        <5>1. IsFiniteSet(t \ {x}) /\ Cardinality(t \ {x}) = Cardinality(t) - 1
          BY <4>0, FS_RemoveElement
        <5>2. Cardinality(t) \in Nat /\ Cardinality(t \ {x}) \in Nat
          BY <4>0, <5>1, FS_CardinalityType
        <5> QED
          BY <5>1, <5>2
      <4>3. r = c * k
        BY <1>1, <2>2
      <4> HIDE DEF r, c
      <4>4. k + c * k = (c + 1) * k
        BY <4>2
      <4> QED
        BY <4>1, <4>2, <4>3, <4>4
    <3> QED
      BY <3>1, <3>2
  <2> QED
    BY <2>3 DEF ft
<1> HIDE DEF G
<1>2. S \in G
  BY <1>1, SetInduction
<1>3. Restrict(f, S) = f
  BY <1>0 DEF Restrict
<1> QED
  BY <1>2, <1>3 DEF G, f

(* h gives the cells of f, on S, their places in g, on T.                  *)
Renames(h, S, f, T, g) ==
    /\ h \in [S -> T]
    /\ \A y \in T : \E x \in S : h[x] = y
    /\ \A x, z \in S : h[x] = h[z] => x = z
    /\ \A x \in S : f[x] = g[h[x]]

LEMMA SumRename ==
    ASSUME NEW S, IsFiniteSet(S), NEW T, IsFiniteSet(T),
           NEW f \in [S -> Nat], NEW g \in [T -> Nat], NEW h,
           Renames(h, S, f, T, g)
    PROVE  Sum(f) = Sum(g)
<1> DEFINE m == [x \in S |-> [y \in T |-> IF y = h[x] THEN g[y] ELSE 0]]
<1>1. /\ m \in [S -> [T -> Nat]]
      /\ \A x \in S, y \in T : m[x][y] = IF y = h[x] THEN g[y] ELSE 0
  OBVIOUS
<1> HIDE DEF m
<1>2. ASSUME NEW x \in S PROVE f[x] = Sum(m[x])
  <2>1. /\ m[x] \in [T -> Nat] /\ h[x] \in T
        /\ \A y \in T \ {h[x]} : m[x][y] = 0
        /\ m[x][h[x]] = f[x]
    BY <1>1 DEF Renames
  <2> QED
    BY <2>1, SumSingle
<1>3. ASSUME NEW y \in T PROVE Sum(Column(m, S, y)) = g[y]
  <2>1. PICK x \in S : h[x] = y
    BY DEF Renames
  <2> DEFINE c == Column(m, S, y)
  <2>2. /\ c \in [S -> Nat] /\ c[x] = g[y]
        /\ \A z \in S \ {x} : c[z] = 0
    BY <1>1, <2>1 DEF Column, Renames
  <2> HIDE DEF c
  <2>3. Sum(c) = g[y]
    BY <2>2, SumSingle
  <2> QED
    BY <2>3 DEF c
<1>4. Columns(m, S, T) = g
  BY <1>3 DEF Columns
<1>5. Sum(f) = Sum(Columns(m, S, T))
  BY <1>1, <1>2, SumSwap
<1> QED
  BY <1>4, <1>5
===============================================================================
