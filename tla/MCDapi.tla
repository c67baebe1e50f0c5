-------------------------------- MODULE MCDapi --------------------------------
(* Small instances of Dapi for TLC; the values are in the cfgs.            *)
EXTENDS Dapi, TLC
===============================================================================
