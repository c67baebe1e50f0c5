--------------------------- MODULE MCStakerHistory ----------------------------
(* Small instances of StakerHistory for TLC; the values are in the cfgs.   *)
EXTENDS StakerHistory
===============================================================================
