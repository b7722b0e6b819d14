-------------------------- MODULE MC_DefaultSyncer --------------------------
(* A small instance of the follow syncer for TLC.                          *)
EXTENDS DefaultSyncer

MC_MaxRound == 4
MC_NumPeers == 3
MC_ChanCap  == 1
=============================================================================
