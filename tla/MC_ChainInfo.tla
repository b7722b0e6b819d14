----------------------------- MODULE MC_ChainInfo -----------------------------
(* A small instance of the follow bootstrap for TLC.                         *)
EXTENDS ChainInfo

MC_NumNodes == 3
=============================================================================
