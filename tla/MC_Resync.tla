------------------------------ MODULE MC_Resync ------------------------------
(* A small instance of the resync driver for TLC.                          *)
EXTENDS Resync

MC_MaxRound == 4
MC_NumPeers == 3
MC_PipeCap  == 1
=============================================================================
