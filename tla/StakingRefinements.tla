-------------------------- MODULE StakingRefinements --------------------------
(***************************************************************************)
(* What DapiStaking implements: for every staker and provider, the history *)
(* of their pairing (StakerHistory, and through it the table StakeClaims); *)
(* for all of them together, the pool of rewards (RewardPool).             *)
(***************************************************************************)
EXTENDS DapiStaking

(* A bound on what an account can come to own, and so to stake.            *)
AllFunds == Cardinality(Accounts) * InitialBalance + (MaxEra + 1) * MaxEraReward

(* The last claim of s on p.  Claims of a pairing are paid in order.       *)
LastPayout(s, p) ==
    LET mine == {r \in receipts :
                    r.role = "staker" /\ r.who = s /\ r.provider = p}
        last == CHOOSE r \in mine : \A q \in mine : q.era <= r.era
    IN  IF mine = {} THEN [era |-> 0, staked |-> 0]
        ELSE [era |-> last.era, staked |-> last.staked]

(* A pairing has no state before the first block, which starts era 1.      *)
Pairing(s, p) == INSTANCE StakerHistory WITH
    Amounts <- 1..AllFunds,
    MaxStake <- AllFunds,
    stakes <- stakerInfo[s][p],
    era <- IF currentEra = 0 THEN 1 ELSE currentEra,
    closed <- IF IsUnregistered(p) THEN registeredProviders[p].since ELSE 0,
    payout <- LastPayout(s, p)

(* The rewards of the ended eras, and the claims as the pool sees them.    *)
SetAside ==
    [e \in {e \in DOMAIN generalEraInfo : e < currentEra} |->
        generalEraInfo[e].rewards]

ClaimOf(r) ==
    [fund |-> IF r.role = "staker" THEN "stakers" ELSE "operators",
     claim |-> <<r.who, r.provider>>, era |-> r.era, amount |-> r.amount]

Pool == INSTANCE RewardPool WITH
    ClaimsOn <- [operators |-> Accounts \X Providers,
                 stakers |-> Accounts \X Providers],
    era <- currentEra,
    income <- accumulator,
    setAside <- SetAside,
    paid <- {ClaimOf(r) : r \in receipts},
    held <- pot.free
-------------------------------------------------------------------------------
(* Among all the calls of the pallet, of all stakers on all providers, the *)
(* vector of each pairing goes its own way: no call on another pairing, no *)
(* unregistration, failed registration or era change touches it except as  *)
(* StakerHistory says, so that what is shown there holds in the pallet.    *)
PairingsFollowHistory ==
    /\ \A s \in Accounts, p \in Providers : Pairing(s, p)!Init
    /\ [][\A s \in Accounts, p \in Providers :
              [Pairing(s, p)!Next]_(Pairing(s, p)!vars)]_vars

(* The pallet is a correct pool of rewards: what came in is counted in     *)
(* one era, the rewards of an ended era never change, each claim is paid   *)
(* once and out of its own era's funds, and nothing leaves the pallet's    *)
(* account but rewards and, below the existential deposit, dust.           *)
ImplementsPool == Pool!Spec
===============================================================================
