---------------------------- MODULE StakerHistory -----------------------------
(***************************************************************************)
(* One staker and one provider of pallet dapi-staking: the StakerInfo      *)
(* vector of the pairing, driven by the dispatchables that read and write  *)
(* it, while eras pass and the provider may be unregistered.  The rest of  *)
(* the pallet (ledger, balances, totals, rewards) is in DapiStaking.       *)
(***************************************************************************)
EXTENDS StakerInfo

CONSTANTS Amounts,               \* values of the calls
          MaxStake,              \* bound on the stake: the funds of the staker
          MaxEra,                \* bound on the era counter
          UnbondingPeriod,       \* T::UnbondingPeriod
          MaxEraStakeValues,     \* T::MaxEraStakeValues
          MinimumStakingAmount   \* T::MinimumStakingAmount

ASSUME StakerHistoryAssumption ==
    /\ Amounts \subseteq Nat \ {0}
    /\ MaxStake \in Nat
    /\ MaxEra \in Nat \ {0}
    /\ UnbondingPeriod \in Nat
    /\ MaxEraStakeValues \in Nat
    /\ MinimumStakingAmount \in Nat \ {0}

VARIABLES stakes,   \* GeneralStakerInfo of the pairing
          era,      \* CurrentEra
          closed,   \* e of ProviderState::Unregistered(e), 0 while Registered
          payout    \* history: the last (era, staked) that claim_staker paid

vars == <<stakes, era, closed, payout>>

Init ==
    /\ stakes = <<>>
    /\ era = 1
    /\ closed = 0
    /\ payout = [era |-> 0, staked |-> 0]

(* pallet stake: what concerns the pairing.                                *)
Stake(v) ==
    LET next == AddStake(stakes, era, v)
    IN  /\ closed = 0
        /\ ~UnexpectedEra(stakes, era)
        /\ Len(next) < MaxEraStakeValues
        /\ LatestStakedValue(next) >= MinimumStakingAmount
        /\ LatestStakedValue(next) <= MaxStake
        /\ stakes' = next
        /\ UNCHANGED <<era, closed, payout>>

(* pallet unstake: what would remain below the minimum goes as well.       *)
Unstake(v) ==
    LET staked == LatestStakedValue(stakes)
        amount == IF SaturatingSub(staked, v) < MinimumStakingAmount
                  THEN staked ELSE v
        next == RemoveStake(stakes, era, amount)
    IN  /\ closed = 0
        /\ staked > 0
        /\ ~UnexpectedEra(stakes, era)
        /\ Len(next) < MaxEraStakeValues
        /\ stakes' = next
        /\ UNCHANGED <<era, closed, payout>>

(* Slip: the era in progress can be claimed.                               *)
ClaimCurrentEraToo ==
    LET head == Claimable(stakes)
    IN  /\ head.staked > 0
        /\ closed # 0 => head.era < closed
        /\ head.era <= era
        /\ payout' = head
        /\ stakes' = AfterClaim(stakes)
        /\ UNCHANGED <<era, closed>>

(* Slip: the eras of an unregistered provider cannot be claimed at all.    *)
ClaimWhileRegistered ==
    LET head == Claimable(stakes)
    IN  /\ head.staked > 0
        /\ closed = 0
        /\ head.era < era
        /\ payout' = head
        /\ stakes' = AfterClaim(stakes)
        /\ UNCHANGED <<era, closed>>

(* Slip: the reward is paid and the vector not written back.               *)
ClaimNotWrittenBack ==
    LET head == Claimable(stakes)
    IN  /\ head.staked > 0
        /\ closed # 0 => head.era < closed
        /\ head.era < era
        /\ payout' = head
        /\ UNCHANGED <<stakes, era, closed>>

(* pallet claim_staker: the vector is written back only when every check   *)
(* has passed.                                                             *)
Claim ==
    LET head == Claimable(stakes)
    IN  /\ head.staked > 0
        /\ closed # 0 => head.era < closed
        /\ head.era < era
        /\ payout' = head
        /\ stakes' = AfterClaim(stakes)
        /\ UNCHANGED <<era, closed>>

(* on_initialize starts an era.                                            *)
NextEra ==
    /\ era < MaxEra
    /\ era' = era + 1
    /\ UNCHANGED <<stakes, closed, payout>>

(* Slip: unregistered from the next era on.                                *)
UnregisterNextEra ==
    /\ closed = 0
    /\ closed' = era + 1
    /\ UNCHANGED <<stakes, era, payout>>

Unregister ==
    /\ closed = 0
    /\ closed' = era
    /\ UNCHANGED <<stakes, era, payout>>

(* pallet withdraw_from_unregistered_staker                                *)
Withdraw ==
    LET claimable == Claimable(stakes).era
    IN  /\ closed # 0
        /\ era > closed + UnbondingPeriod
        /\ LatestStakedValue(stakes) > 0
        /\ claimable >= closed \/ claimable = 0
        /\ stakes' = <<>>
        /\ UNCHANGED <<era, closed, payout>>

Next ==
    \/ \E v \in Amounts : Stake(v) \/ Unstake(v)
    \/ Claim
    \/ NextEra
    \/ Unregister
    \/ Withdraw

Spec == Init /\ [][Next]_vars

(* The staker keeps trying to claim and to withdraw; blocks go on.         *)
FairSpec ==
    Spec /\ WF_vars(Claim) /\ WF_vars(Withdraw) /\ WF_vars(NextEra)
-------------------------------------------------------------------------------
TypeOK ==
    /\ stakes \in Seq(EraStake)
    /\ era \in 1..MaxEra
    /\ closed \in 0..era
    /\ payout \in EraStake

(* The vector is sorted and never ahead of the era, so that the error      *)
(* UnexpectedStakeInfoEra of stake and unstake, "Report issue on github if *)
(* this is ever emitted", is never emitted.                                *)
NeverAheadOfEra ==
    /\ Sorted(stakes)
    /\ NotAhead(stakes, era)

(* The table the vector stands for.                                        *)
owed == [e \in 0..MaxEra |-> IF e <= era THEN StakedAt(stakes, e) ELSE 0]

Table == INSTANCE StakeClaims WITH
    era <- era, closed <- closed, owed <- owed, payout <- payout

(* The compact vector is a correct store for the full table of unclaimed   *)
(* eras: every call changes the table as the abstract specification says,  *)
(* so no era is lost, invented, paid twice or paid with the wrong stake.   *)
ImplementsTable == Table!Spec

(* An era that was paid is gone: whatever the vector still holds is of a   *)
(* later era, so that no claim can pay an era again, not even with the     *)
(* same stake.                                                             *)
PaidErasGone ==
    /\ payout.era < era
    /\ \A i \in DOMAIN stakes : stakes[i].era > payout.era

(* Every payout is for a later era than all payouts before it.             *)
PaidOnceInOrder == [][payout' # payout => payout'.era > payout.era]_vars

(* "`0` staked period is discarded since nothing can be claimed there".    *)
NoUnstakedHead == stakes # <<>> => stakes[1].staked > 0

Unclaimed(e) == e < era /\ owed[e] > 0 /\ (closed # 0 => e < closed)

(* A staker who keeps claiming is paid for every era that ended with a     *)
(* stake.  The vector may start with an unstaked value, and then no claim  *)
(* succeeds.                                                               *)
EveryEraClaimed == \A e \in 1..MaxEra : Unclaimed(e) ~> ~Unclaimed(e)

(* An unstaked value at the head is the only obstacle: in behaviours       *)
(* without one, every era that ended with a stake is claimed, and the      *)
(* stake on an unregistered provider comes back after unbonding.           *)
ClaimsAndWithdrawalsSucceed ==
    []NoUnstakedHead =>
        /\ EveryEraClaimed
        /\ closed # 0 /\ closed + UnbondingPeriod < MaxEra
               ~> LatestStakedValue(stakes) = 0
===============================================================================
