----------------------------- MODULE RewardPool -------------------------------
(***************************************************************************)
(* What pallet dapi-staking promises about money, with no thought of       *)
(* stakes, shares and providers.  Rewards come in for two funds; when an   *)
(* era ends, what came in for it is set aside for good; an ended era pays  *)
(* each claim once, out of its own funds; and all of it lies in one        *)
(* account, which cannot hold less than the existential deposit.           *)
(* StakingRefinements shows that DapiStaking implements this.              *)
(***************************************************************************)
EXTENDS Sums

CONSTANTS ClaimsOn,            \* for each fund, the claims an era may pay
          ExistentialDeposit   \* least balance of an account

VARIABLES era,        \* CurrentEra
          income,     \* what came in for each fund in this era
          setAside,   \* for each ended era, what came in for each fund
          paid,       \* the claims paid: fund, claim, era and amount
          held        \* balance of the account

vars == <<era, income, setAside, paid, held>>

Funds == DOMAIN ClaimsOn

(* What is left of a balance: less than the existential deposit is lost.   *)
Kept(balance) == IF balance < ExistentialDeposit THEN 0 ELSE balance

PaidFrom(fund, e) == {c \in paid : c.fund = fund /\ c.era = e /\ c.amount > 0}

Init ==
    /\ era = 0
    /\ income = [f \in Funds |-> 0]
    /\ setAside = [e \in {} |-> income]
    /\ paid = {}
    /\ held = 0

Arrive ==
    /\ income' \in [Funds -> Nat]
    /\ \A f \in Funds : income'[f] >= income[f]
    /\ held' = Kept(held + (Sum(income') - Sum(income)))
    /\ UNCHANGED <<era, setAside, paid>>

EndEra ==
    /\ era' = era + 1
    /\ setAside' = [e \in DOMAIN setAside \cup {era} |->
                        IF e = era THEN income ELSE setAside[e]]
    /\ income' = [f \in Funds |-> 0]
    /\ UNCHANGED <<paid, held>>

(* A claim on a fund of an ended era, never paid before.  The claims paid  *)
(* are within the fund, but for a unit of rounding each.                   *)
Pay(fund, claim, e) ==
    /\ \A c \in paid : <<c.fund, c.claim, c.era>> # <<fund, claim, e>>
    /\ \E amount \in 0..held :
           /\ paid' = paid \cup {[fund |-> fund, claim |-> claim, era |-> e,
                                  amount |-> amount]}
           /\ held' = Kept(held - amount)
    /\ Sum([c \in PaidFrom(fund, e)' |-> c.amount])
           <= setAside[e][fund] + Cardinality(PaidFrom(fund, e)')
    /\ UNCHANGED <<era, income, setAside>>

Next ==
    \/ Arrive
    \/ EndEra
    \/ \E fund \in Funds, e \in DOMAIN setAside :
           \E claim \in ClaimsOn[fund] : Pay(fund, claim, e)

Spec == Init /\ [][Next]_vars
===============================================================================
