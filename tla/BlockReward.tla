----------------------------- MODULE BlockReward ------------------------------
(***************************************************************************)
(* pallets/block-reward: when the timestamp of a block is set, RewardAmount *)
(* is issued and split between providers and validators by percentages     *)
(* that Root may change.  Where the two parts go is up to the runtime.     *)
(***************************************************************************)
EXTENDS Perbill

CONSTANTS
    RewardAmount,    \* T::RewardAmount
    RewardConfigs    \* arguments of set_configuration

RewardDistributionConfig ==
    [providers_percent : 0..Accuracy, validators_percent : 0..Accuracy]

ASSUME BlockRewardAssumption ==
    /\ RewardAmount \in Nat
    /\ RewardConfigs \subseteq RewardDistributionConfig

VARIABLES
    rewardConfig,   \* RewardDistributionConfigStorage
    minted          \* history: blocks, and what each beneficiary got

blockRewardVars == <<rewardConfig, minted>>

(* The genesis of the chain: everything to providers.                      *)
BlockRewardInit ==
    /\ rewardConfig = [providers_percent |-> Accuracy, validators_percent |-> 0]
    /\ minted = [blocks |-> 0, providers |-> 0, validators |-> 0]

(* Slip: a sum below one whole is let through.                             *)
IsConsistentUpTo(c) == c.providers_percent + c.validators_percent <= Accuracy

(* is_consistent: the checked sum of the percentages is one whole.         *)
IsConsistent(c) == c.providers_percent + c.validators_percent = Accuracy

SetConfiguration(c) ==
    /\ IsConsistent(c)
    /\ rewardConfig' = c
    /\ UNCHANGED minted

(* distribute_rewards: the providers' part is split off first, then, from  *)
(* what is left and no more than that, the validators'; the rest is        *)
(* dropped.                                                                *)
ProvidersPart ==
    LET part == PartOf(rewardConfig.providers_percent, RewardAmount)
    IN  IF part <= RewardAmount THEN part ELSE RewardAmount

ValidatorsPart ==
    LET part == PartOf(rewardConfig.validators_percent, RewardAmount)
        left == RewardAmount - ProvidersPart
    IN  IF part <= left THEN part ELSE left

(* on_timestamp_set, once per block.                                       *)
DistributeRewards ==
    /\ minted' = [blocks |-> minted.blocks + 1,
                  providers |-> minted.providers + ProvidersPart,
                  validators |-> minted.validators + ValidatorsPart]
    /\ UNCHANGED rewardConfig
-------------------------------------------------------------------------------
BlockRewardTypeOK ==
    /\ rewardConfig \in RewardDistributionConfig
    /\ minted \in [blocks : Nat, providers : Nat, validators : Nat]

(* Over all configurations and all blocks so far, the beneficiaries got    *)
(* what was issued, but for at most one unit per block lost to rounding;   *)
(* and the second split is never short, so that the order of the two       *)
(* splits favours no one.                                                  *)
IssuanceDistributed ==
    /\ PartOf(rewardConfig.validators_percent, RewardAmount)
           <= RewardAmount - ProvidersPart
    /\ minted.providers + minted.validators <= minted.blocks * RewardAmount
    /\ minted.blocks * RewardAmount
           <= minted.providers + minted.validators + minted.blocks
===============================================================================
