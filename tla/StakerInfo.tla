------------------------------ MODULE StakerInfo ------------------------------
(***************************************************************************)
(* The compact history of one (staker, provider) pairing of               *)
(* pallets/dapi-staking/src/lib.rs: a vector of <era, staked> values, one *)
(* per era in which the stake changed, starting at the oldest era whose    *)
(* reward has not been claimed.  This module holds the methods of          *)
(* StakerInfo as operators on the vector `s`; the state machines that call *)
(* them are StakerHistory (one pairing) and DapiStaking (the pallet).      *)
(***************************************************************************)
EXTENDS Naturals, Sequences

EraStake == [era : Nat, staked : Nat]

(* Balance::saturating_sub; zero, too, when b is not a number in 0..a.     *)
SaturatingSub(a, b) == IF b \in 0..a THEN a - b ELSE 0

LatestStakedValue(s) == IF s = <<>> THEN 0 ELSE s[Len(s)].staked

(* The Err branch of stake and unstake: the vector is ahead of the era.    *)
UnexpectedEra(s, era) == s # <<>> /\ s[Len(s)].era > era

(* Slip: the last value is overwritten whatever its era.                   *)
SetLatestOverwrite(s, era, value) ==
    IF s # <<>>
    THEN [s EXCEPT ![Len(s)] = [era |-> s[Len(s)].era, staked |-> value]]
    ELSE <<[era |-> era, staked |-> value]>>

(* The write both methods share: overwrite the last value when it is of    *)
(* this era, push a new one otherwise.                                     *)
SetLatest(s, era, value) ==
    LET entry == [era |-> era, staked |-> value]
    IN  IF s # <<>> /\ s[Len(s)].era = era
        THEN [s EXCEPT ![Len(s)] = entry]
        ELSE Append(s, entry)

(* "Removes unstaked values if they're no longer valid for comprehension": *)
(* ONE leading zero, however many there are.                               *)
DropUnstakedHead(s) == IF s # <<>> /\ s[1].staked = 0 THEN Tail(s) ELSE s

AddStake(s, era, value) == SetLatest(s, era, LatestStakedValue(s) + value)

RemoveStake(s, era, value) ==
    IF s = <<>>
    THEN s
    ELSE DropUnstakedHead(
             SetLatest(s, era, SaturatingSub(LatestStakedValue(s), value)))

(* claim() returns the head as (era, staked), or (0, 0) ...                *)
Claimable(s) == IF s = <<>> THEN [era |-> 0, staked |-> 0] ELSE s[1]

(* Slip, off by one: a gap of one era before the next value is lost.       *)
AdvanceHeadSkippingGap(s) ==
    IF Len(s) = 1 \/ s[2].era > s[1].era + 2
    THEN [s EXCEPT ![1] = [era |-> s[1].era + 1, staked |-> s[1].staked]]
    ELSE Tail(s)

(* ... and moves it to the next era, unless that era has its own value.    *)
AdvanceHead(s) ==
    IF Len(s) = 1 \/ s[2].era > s[1].era + 1
    THEN [s EXCEPT ![1] = [era |-> s[1].era + 1, staked |-> s[1].staked]]
    ELSE Tail(s)

AfterClaim(s) == IF s = <<>> THEN s ELSE DropUnstakedHead(AdvanceHead(s))
-------------------------------------------------------------------------------
(* What a vector means, from the struct's documentation: the stake in era  *)
(* e is that of the last value whose era is not after e, and 0 before the  *)
(* first value.                                                            *)
Covers(s, i, e) ==
    /\ s[i].era <= e
    /\ \A j \in DOMAIN s : j > i => s[j].era > e

StakedAt(s, e) ==
    IF \E i \in DOMAIN s : Covers(s, i, e)
    THEN s[CHOOSE i \in DOMAIN s : Covers(s, i, e)].staked
    ELSE 0

(* The order of a vector, and that it knows of no era after e.             *)
Sorted(s) == \A i, j \in DOMAIN s : i < j => s[i].era < s[j].era

NotAhead(s, e) == \A i \in DOMAIN s : s[i].era <= e
===============================================================================
