-------------------------------- MODULE Dapi ----------------------------------
(***************************************************************************)
(* pallets/dapi on top of dapi-staking: projects pay for quota and their   *)
(* payments become staking rewards; regulators register providers, whose   *)
(* operators activate them with a deposit (dapi-staking's register) and    *)
(* leave, or are reported, through dapi-staking's unregister.  This is the *)
(* only way to register and unregister: neither is a dispatchable.         *)
(*                                                                         *)
(* A chain id is a name; one that is too long (BadChainId) changes nothing *)
(* and is left out, and so is the type of a provider, which no call reads. *)
(***************************************************************************)
EXTENDS DapiStaking

CONSTANTS
    Projects,          \* ids of projects, T::MassbitId
    ChainNames,        \* chain ids
    PaymentAmounts,    \* deposits of register_project and deposit_project
    UsageAmounts,      \* values of submit_project_usage
    QuotaUnit,         \* the price of one unit of quota, 10^15 in the code
    InitialRegulators  \* GenesisConfig

ASSUME DapiAssumption ==
    /\ PaymentAmounts \subseteq Nat
    /\ UsageAmounts \subseteq Nat
    /\ QuotaUnit \in Nat \ {0}
    /\ InitialRegulators \subseteq Accounts

VARIABLES
    projects,     \* Projects
    providers,    \* Providers
    regulators,   \* Regulators
    chainIds,     \* ChainIds
    paid          \* history: what was paid for each project

dapiVars == <<projects, providers, regulators, chainIds, paid>>
stakingVars == vars

Project == [consumer : Accounts, chain_id : ChainNames, quota : Nat, usage : Nat]
Provider ==
    [operator : Accounts, chain_id : ChainNames,
     state : {"Registered", "Active", "InActive"}]

DapiInit ==
    /\ Init
    /\ projects = [j \in {} |-> <<>>]
    /\ providers = [p \in {} |-> <<>>]
    /\ regulators = InitialRegulators
    /\ chainIds = {}
    /\ paid = [j \in Projects |-> 0]
-------------------------------------------------------------------------------
(* Projects *)

CalculateQuota(amount) == amount \div QuotaUnit

(* Slip: the payment is taken without a look at the balance.               *)
PayProjectUnchecked(consumer, amount) ==
    /\ account' = [account EXCEPT ![consumer] = Spend(account[consumer], amount)]
    /\ AddRewards(amount)
    /\ UNCHANGED <<eraVars, receipts, ledger, stakerInfo, registeredProviders,
                   providerEraStake, generalEraInfo>>

(* Slip: the payment reaches the pot and is not counted as rewards.        *)
PayProjectUncounted(consumer, amount) ==
    /\ CanSpend(account[consumer], amount)
    /\ account' = [account EXCEPT ![consumer] = Spend(account[consumer], amount)]
    /\ pot' = Deposit(pot, amount)
    /\ UNCHANGED <<eraVars, accumulator, receipts, ledger, stakerInfo,
                   registeredProviders, providerEraStake, generalEraInfo>>

(* The withdrawal of a payment, and OnProjectPayment: it is rewards to the *)
(* staking pallet.  A payment of nothing goes through and adds nothing.    *)
PayProject(consumer, amount) ==
    /\ \/ /\ amount = 0
          /\ UNCHANGED <<account, accumulator, pot>>
       \/ /\ amount > 0
          /\ CanSpend(account[consumer], amount)
          /\ account' = [account EXCEPT ![consumer] =
                 Spend(account[consumer], amount)]
          /\ AddRewards(amount)
    /\ UNCHANGED <<eraVars, receipts, ledger, stakerInfo, registeredProviders,
                   providerEraStake, generalEraInfo>>

RegisterProject(consumer, j, c, deposit) ==
    /\ InBlock
    /\ j \notin DOMAIN projects
    /\ c \in chainIds
    /\ PayProject(consumer, deposit)
    /\ projects' = Insert(projects, j,
           [consumer |-> consumer, chain_id |-> c,
            quota |-> CalculateQuota(deposit), usage |-> 0])
    /\ paid' = [paid EXCEPT ![j] = paid[j] + deposit]
    /\ UNCHANGED <<providers, regulators, chainIds>>

(* deposit_project: by anyone, not only the consumer of the project.       *)
DepositProject(payer, j, deposit) ==
    /\ InBlock
    /\ j \in DOMAIN projects
    /\ PayProject(payer, deposit)
    /\ projects' = [projects EXCEPT ![j] = [projects[j] EXCEPT
           !.quota = projects[j].quota + CalculateQuota(deposit)]]
    /\ paid' = [paid EXCEPT ![j] = paid[j] + deposit]
    /\ UNCHANGED <<providers, regulators, chainIds>>

(* Slip: usage goes beyond the quota.                                      *)
UsageAfterUncapped(j, usage) == projects[j].usage + usage

UsageAfter(j, usage) == Lesser(projects[j].usage + usage, projects[j].quota)

SubmitProjectUsage(regulator, j, usage) ==
    /\ InBlock
    /\ regulator \in regulators
    /\ j \in DOMAIN projects
    /\ projects' = [projects EXCEPT ![j] = [projects[j] EXCEPT
           !.usage = UsageAfter(j, usage)]]
    /\ UNCHANGED <<stakingVars, providers, regulators, chainIds, paid>>
-------------------------------------------------------------------------------
(* Providers *)

RegisterProvider(regulator, p, operator, c) ==
    /\ InBlock
    /\ regulator \in regulators
    /\ p \notin DOMAIN providers
    /\ c \in chainIds
    /\ providers' = Insert(providers, p,
           [operator |-> operator, chain_id |-> c, state |-> "Registered"])
    /\ UNCHANGED <<stakingVars, projects, regulators, chainIds, paid>>

CanDeposit(o, p) ==
    /\ p \in DOMAIN providers
    /\ providers[p].operator = o
    /\ providers[p].state = "Registered"

SetProviderState(p, state) ==
    providers' = [providers EXCEPT ![p] = [providers[p] EXCEPT !.state = state]]

(* deposit_provider.  When the stake at the end of register fails, the     *)
(* writes of register stay and the state of the provider does not move.    *)
DepositProvider(o, p, deposit) ==
    /\ CanDeposit(o, p)
    /\ \/ /\ Register(o, p, deposit)
          /\ SetProviderState(p, "Active")
       \/ /\ RegisterStakeFails(o, p, deposit)
          /\ UNCHANGED providers
    /\ UNCHANGED <<projects, regulators, chainIds, paid>>

(* Slip: the provider leaves dapi and stays in dapi-staking.               *)
DeactivateHalf(p) ==
    /\ InBlock
    /\ IsActiveProvider(p)
    /\ SetProviderState(p, "InActive")
    /\ UNCHANGED <<stakingVars, projects, regulators, chainIds, paid>>

(* What unregister_provider and report_provider_offence share.             *)
Deactivate(p) ==
    /\ Unregister(p)
    /\ SetProviderState(p, "InActive")
    /\ UNCHANGED <<projects, regulators, chainIds, paid>>

UnregisterProvider(o, p) ==
    /\ p \in DOMAIN providers
    /\ providers[p].operator = o
    /\ providers[p].state = "Active"
    /\ Deactivate(p)

ReportProviderOffence(regulator, p) ==
    /\ regulator \in regulators
    /\ p \in DOMAIN providers
    /\ providers[p].state = "Active"
    /\ Deactivate(p)
-------------------------------------------------------------------------------
(* Regulators and chain ids.  Each call computes ensure_root(origin) and   *)
(* discards the result (`let _ =`): the origin is not a condition.         *)

AddRegulator(a) ==
    /\ InBlock
    /\ a \notin regulators
    /\ regulators' = regulators \cup {a}
    /\ UNCHANGED <<stakingVars, projects, providers, chainIds, paid>>

RemoveRegulator(a) ==
    /\ InBlock
    /\ a \in regulators
    /\ regulators' = regulators \ {a}
    /\ UNCHANGED <<stakingVars, projects, providers, chainIds, paid>>

AddChainId(c) ==
    /\ InBlock
    /\ c \notin chainIds
    /\ chainIds' = chainIds \cup {c}
    /\ UNCHANGED <<stakingVars, projects, providers, regulators, paid>>

RemoveChainId(c) ==
    /\ InBlock
    /\ c \in chainIds
    /\ chainIds' = chainIds \ {c}
    /\ UNCHANGED <<stakingVars, projects, providers, regulators, paid>>
-------------------------------------------------------------------------------
DapiCalls ==
    \/ Calls /\ UNCHANGED dapiVars
    \/ \E a \in Accounts, j \in Projects :
           \/ \E c \in ChainNames, v \in PaymentAmounts :
                  RegisterProject(a, j, c, v)
           \/ \E v \in PaymentAmounts : DepositProject(a, j, v)
           \/ \E u \in UsageAmounts : SubmitProjectUsage(a, j, u)
    \/ \E a \in Accounts, p \in Providers :
           \/ \E o \in Accounts, c \in ChainNames : RegisterProvider(a, p, o, c)
           \/ \E v \in DepositAmounts : DepositProvider(a, p, v)
           \/ UnregisterProvider(a, p)
           \/ ReportProviderOffence(a, p)
    \/ \E a \in Accounts : AddRegulator(a) \/ RemoveRegulator(a)
    \/ \E c \in ChainNames : AddChainId(c) \/ RemoveChainId(c)

DapiNext ==
    \/ OnInitialize /\ UNCHANGED dapiVars
    \/ DapiCalls

DapiSpec == DapiInit /\ [][DapiNext]_<<stakingVars, dapiVars>>
-------------------------------------------------------------------------------
DapiTypeOK ==
    /\ TypeOK
    /\ DOMAIN projects \subseteq Projects
    /\ \A j \in DOMAIN projects : projects[j] \in Project
    /\ DOMAIN providers \subseteq Providers
    /\ \A p \in DOMAIN providers : providers[p] \in Provider
    /\ regulators \subseteq Accounts
    /\ chainIds \subseteq ChainNames
    /\ paid \in [Projects -> Nat]

(* The two pallets do not contradict each other, whichever call failed on  *)
(* the way: staking knows only providers a regulator registered, under     *)
(* their operator; an active provider can be staked on; and a provider is  *)
(* out of dapi exactly when it is out of dapi-staking.  One that is still  *)
(* Registered in dapi may be active in dapi-staking, after a deposit that  *)
(* failed half-way.                                                        *)
PalletsAgree ==
    /\ \A p \in DOMAIN registeredProviders :
           /\ p \in DOMAIN providers
           /\ registeredProviders[p].operator = providers[p].operator
    /\ \A p \in DOMAIN providers :
           /\ providers[p].state = "Active" => IsActiveProvider(p)
           /\ providers[p].state = "InActive" <=> IsUnregistered(p)

(* A project has no more quota than was paid for, over all its deposits,   *)
(* and is never charged for more than its quota.                           *)
UsageWithinPayments ==
    \A j \in DOMAIN projects :
        /\ projects[j].usage <= projects[j].quota
        /\ projects[j].quota * QuotaUnit <= paid[j]

(* The documentation of the error AlreadyRegisteredProvider, which a       *)
(* deposit of the operator o for p may meet: "The provider is already      *)
(* registered by other account".                                           *)
RegisteredByOtherAccount ==
    \A o \in Accounts, p \in Providers :
        CanDeposit(o, p) /\ IsRegistered(p) => registeredProviders[p].operator # o
===============================================================================
