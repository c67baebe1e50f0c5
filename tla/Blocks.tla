------------------------------- MODULE Blocks ---------------------------------
(***************************************************************************)
(* The staking pallet in the blocks of runtime/local: a block runs         *)
(* on_initialize, then the timestamp inherent, which sets off block-reward *)
(* and brings the pallet the providers' part of the block's issuance, then *)
(* calls.  The validators' part is dropped.  Runtime adds pallet dapi and  *)
(* set_configuration; here the calls of dapi into dapi-staking come at any *)
(* time, from anyone, and all rewards go to providers, as in the genesis.  *)
(***************************************************************************)
EXTENDS DapiStaking, BlockReward

VARIABLE phase   \* of the block: "timestamp" not yet set, or "calls"

blockVars == <<vars, blockRewardVars, phase>>

(* The genesis block has no calls: InBlock is false until block 1.         *)
BlocksInit ==
    /\ Init
    /\ BlockRewardInit
    /\ phase = "calls"

(* Slip: a block may come without the timestamp inherent.                  *)
BeginBlockNoInherent ==
    /\ phase = "calls"
    /\ OnInitialize
    /\ phase' \in {"timestamp", "calls"}
    /\ UNCHANGED blockRewardVars

BeginBlock ==
    /\ phase = "calls"
    /\ OnInitialize
    /\ phase' = "timestamp"
    /\ UNCHANGED blockRewardVars

(* BeneficiaryPayout: validators() does nothing, providers() is rewards(). *)
OnTimestampSet ==
    /\ phase = "timestamp"
    /\ DistributeRewards
    /\ AddRewards(ProvidersPart)
    /\ phase' = "calls"
    /\ UNCHANGED <<account, ledger, stakerInfo, registeredProviders,
                   providerEraStake, generalEraInfo, eraVars, receipts>>

(* A call of a pallet other than block-reward, in its phase.               *)
InCalls(call) ==
    phase = "calls" /\ call /\ UNCHANGED <<blockRewardVars, phase>>

BlocksNext ==
    \/ BeginBlock
    \/ OnTimestampSet
    \/ InCalls(Calls)
    \/ InCalls(RegistryCalls)

BlocksSpec == BlocksInit /\ [][BlocksNext]_blockVars

(* What someone is due and can be asked for in the block's calls.          *)
AskForDue ==
    \/ \E s \in Accounts : WithdrawUnstaked(s)
    \/ \E p \in Providers :
           \/ WithdrawFromUnregisteredOperator(p)
           \/ \E e \in 1..MaxEra : ClaimOperator(p, e)
           \/ \E s \in Accounts : ClaimStaker(s, p)

(* Blocks are produced, with their inherent.  The owners of rewards, of    *)
(* unbonded funds and of deposits to take back keep asking for them, block *)
(* after block: strong fairness, for between the calls of one block and of *)
(* the next there is the start of a block.  It is enough that one of those *)
(* who ask is served, whichever it is.                                     *)
BlocksFairSpec ==
    /\ BlocksSpec
    /\ WF_blockVars(BeginBlock \/ OnTimestampSet)
    /\ SF_blockVars(InCalls(AskForDue))
-------------------------------------------------------------------------------
(* A block brings enough for an account of its own, and for the unit that  *)
(* each claim paid so far may have been rounded up by.                     *)
IncomeKeepsPotAlive ==
    RewardAmount >= ExistentialDeposit
                        + Cardinality({r \in receipts : r.amount > 0})

(* Although the pot pays with AllowDeath, no token in it is ever burned:   *)
(* what came in is there or on a receipt, as long as a block's income      *)
(* covers the existential deposit and the rounding.  The income comes      *)
(* before the block's calls and cannot be claimed yet, so that a claim     *)
(* leaves all of it but what earlier claims were rounded up by.            *)
PotNeverDies == IncomeKeepsPotAlive => PotMatchesRewards

(* All stake on p in era e has been paid for, and its operator.            *)
PaidInFull(p, e) ==
    LET paid(role) == {r \in ReceiptsOf(role, e) : r.provider = p}
        total == ProviderStakeAt(p, e).total
    IN  /\ Sum([r \in paid("staker") |-> r.staked]) = total
        /\ total > 0 => paid("operator") # {}

(* An unstaked value at the head of a history: see StakerHistory.          *)
UnstakedHead(p) ==
    \E s \in Accounts :
        stakerInfo[s][p] # <<>> /\ stakerInfo[s][p][1].staked = 0

(* When operators and stakers keep claiming, each ended era is paid in     *)
(* full in the end, for all the stake that the provider had in it,         *)
(* whatever is unstaked, unregistered, withdrawn or forced meanwhile: no   *)
(* era of anyone is lost and the pot is never short of it.  (As long as    *)
(* the income lasts, and unless an unstaked value comes to lead a vector.) *)
RewardsPaid ==
    \A p \in Providers, e \in 1..(MaxEra - 1) :
        ClaimableEra(p, e)
            ~> PaidInFull(p, e) \/ UnstakedHead(p) \/ ~IncomeKeepsPotAlive
===============================================================================
