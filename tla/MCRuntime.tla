------------------------------ MODULE MCRuntime -------------------------------
(* Small instances of Runtime for TLC; the values are in the cfgs.         *)
EXTENDS Runtime, TLC

(* Everything to providers; halves, which do not divide an odd reward; and *)
(* one that is not consistent.                                             *)
TriedConfigs ==
    {[providers_percent |-> Accuracy, validators_percent |-> 0],
     [providers_percent |-> Accuracy \div 2,
      validators_percent |-> Accuracy \div 2],
     [providers_percent |-> 0, validators_percent |-> Accuracy \div 2]}
===============================================================================
