---------------------------- MODULE MCDapiStaking -----------------------------
(* Small instances of DapiStaking for TLC; the values are in the cfgs.     *)
EXTENDS StakingRefinements, TLC

(* All accounts start alike, and nothing tells providers apart.            *)
Symmetry == Permutations(Accounts) \cup Permutations(Providers)
===============================================================================
