------------------------------- MODULE MCBlocks -------------------------------
(* A small instance of Blocks for TLC; the values are in the cfg.          *)
EXTENDS Blocks, TLC
===============================================================================
