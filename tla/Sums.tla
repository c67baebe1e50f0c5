-------------------------------- MODULE Sums ----------------------------------
(* The sum of the values of a function, for amounts kept by key.           *)
EXTENDS FiniteSetsExt

Sum(f) == MapThenSumSet(LAMBDA x : f[x], DOMAIN f)
===============================================================================
