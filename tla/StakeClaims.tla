----------------------------- MODULE StakeClaims ------------------------------
(***************************************************************************)
(* What the pallet promises to one staker of one provider, with no thought *)
(* of how the history is stored.  owed[e] is the stake that counts for the *)
(* reward of era e and has not been claimed yet; it is a full table, one   *)
(* cell per era.  StakerHistory shows that the compact vector StakerInfo   *)
(* implements this table.                                                  *)
(***************************************************************************)
EXTENDS Naturals

CONSTANTS Amounts,          \* values of a stake call
          MaxEra,           \* bound on the era counter
          UnbondingPeriod   \* eras between unregistration and withdrawal

VARIABLES era,      \* CurrentEra
          closed,   \* era in which the provider was unregistered, 0 if it was not
          owed,     \* unclaimed stake per era
          payout    \* the last claim paid: its era and the stake it was paid on

vars == <<era, closed, owed, payout>>

Eras == 0..MaxEra

Init ==
    /\ era = 1
    /\ closed = 0
    /\ owed = [e \in Eras |-> 0]
    /\ payout = [era |-> 0, staked |-> 0]

Stake ==
    /\ closed = 0
    /\ \E v \in Amounts : owed' = [owed EXCEPT ![era] = @ + v]
    /\ UNCHANGED <<era, closed, payout>>

Unstake ==
    /\ closed = 0
    /\ \E v \in 1..owed[era] : owed' = [owed EXCEPT ![era] = @ - v]
    /\ UNCHANGED <<era, closed, payout>>

(* Only an era that has ended, the oldest one first, and none from the     *)
(* unregistration on.                                                      *)
Claim ==
    \E e \in Eras :
        /\ e < era
        /\ closed # 0 => e < closed
        /\ owed[e] > 0
        /\ \A f \in Eras : f < e => owed[f] = 0
        /\ payout' = [era |-> e, staked |-> owed[e]]
        /\ owed' = [owed EXCEPT ![e] = 0]
        /\ UNCHANGED <<era, closed>>

(* A stake carries over to the next era.                                   *)
NextEra ==
    /\ era < MaxEra
    /\ era' = era + 1
    /\ owed' = [owed EXCEPT ![era + 1] = owed[era]]
    /\ UNCHANGED <<closed, payout>>

Unregister ==
    /\ closed = 0
    /\ closed' = era
    /\ UNCHANGED <<era, owed, payout>>

(* The stake leaves an unregistered provider once unbonding is over, and   *)
(* only when no reward is left to claim.                                   *)
Withdraw ==
    /\ closed # 0
    /\ era > closed + UnbondingPeriod
    /\ owed[era] > 0
    /\ \A e \in Eras : e < closed => owed[e] = 0
    /\ owed' = [e \in Eras |-> 0]
    /\ UNCHANGED <<era, closed, payout>>

Next == Stake \/ Unstake \/ Claim \/ NextEra \/ Unregister \/ Withdraw

Spec == Init /\ [][Next]_vars
===============================================================================
