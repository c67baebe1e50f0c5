------------------------------- MODULE Runtime --------------------------------
(***************************************************************************)
(* runtime/local: the pallets dapi, dapi-staking and block-reward in the   *)
(* blocks of one chain.  Block rewards and project payments both end in    *)
(* the staking pallet.                                                     *)
(***************************************************************************)
EXTENDS Dapi, Blocks

runtimeVars == <<stakingVars, dapiVars, blockRewardVars, phase>>

RuntimeInit == DapiInit /\ BlocksInit

(* set_configuration of block-reward, from Root.                           *)
Reconfigure ==
    /\ phase = "calls"
    /\ InBlock
    /\ \E c \in RewardConfigs : SetConfiguration(c)
    /\ UNCHANGED <<stakingVars, dapiVars, phase>>

RuntimeNext ==
    \/ BeginBlock /\ UNCHANGED dapiVars
    \/ OnTimestampSet /\ UNCHANGED dapiVars
    \/ Reconfigure
    \/ InCalls(DapiCalls)

RuntimeSpec == RuntimeInit /\ [][RuntimeNext]_runtimeVars
-------------------------------------------------------------------------------
RuntimeTypeOK ==
    /\ DapiTypeOK
    /\ BlockRewardTypeOK
    /\ phase \in {"timestamp", "calls"}

Tokens ==
    Sum([a \in Accounts |-> account[a].free + account[a].reserved]) + pot.free

(* What may have been burned at an account that a step leaves empty: a     *)
(* deposit or a remainder below the existential deposit.                   *)
DustOf(b) ==
    IF b.free + b.reserved = 0 THEN 0..(ExistentialDeposit - 1) ELSE {}

(* No token appears or vanishes on its way through three pallets.  What a  *)
(* step leaves in the accounts, reserved funds included, and in the        *)
(* staking pallet's pot, is what was there and the providers' part of the  *)
(* block; less only what is spent elsewhere, and what is too little to     *)
(* stay in the pot or with the one account that is paid.                   *)
TokensConserved ==
    [][LET issued == minted'.providers - minted.providers
           lost == Tokens + issued - Tokens'
           dust == {0} \cup UNION {DustOf(account'[a]) : a \in Accounts}
       IN  \/ \E m \in {0} \cup DustOf(pot'), n \in dust : lost = m + n
           \/ \E s \in Accounts, v \in SpendAmounts :
                  SpendElsewhere(s, v) /\ lost = v]_runtimeVars

(* In the calls of a block, the rewards of the era so far, which no claim  *)
(* can take yet, cover the existential deposit and the unit that each      *)
(* claim paid so far may have been rounded up by.                          *)
IncomeCoversPot ==
    phase = "calls" /\ InBlock =>
        accumulator.operators + accumulator.stakers
            >= ExistentialDeposit + Cardinality({r \in receipts : r.amount > 0})

(* Although the pot pays with AllowDeath and small deposits do not open an *)
(* account, what block-reward and the projects paid in is in the pot or on *)
(* a receipt, however the issuance is split: no step burns any of it while *)
(* the era's income covers the pot.                                        *)
PotKeepsAll ==
    [][PotMatchesRewards /\ IncomeCoversPot /\ IncomeCoversPot'
           => PotMatchesRewards']_runtimeVars
===============================================================================
