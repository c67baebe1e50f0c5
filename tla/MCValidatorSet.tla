--------------------------- MODULE MCValidatorSet -----------------------------
(* Small instances of ValidatorSet for TLC; the values are in the cfgs.    *)
EXTENDS ValidatorSet, TLC

CONSTANTS v1, a1, a2

(* Either of two accounts, or both: each may become a candidate as well.   *)
ValidatorChoices == {<<v1>>, <<a1>>, <<v1, a1>>}
===============================================================================
