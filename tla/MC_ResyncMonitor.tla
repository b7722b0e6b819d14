--------------------------- MODULE MC_ResyncMonitor ---------------------------
(* Small instances of resync supervision for TLC.  TLC's integers are      *)
(* 32-bit signed, so the u32 of line 94 is scaled down to an 8-bit word:   *)
(* what matters is only whether period * 2 reaches the word's bound.       *)
EXTENDS ResyncMonitor

MC_MaxRound   == 3
MC_MaxGen     == 3
MC_Period     == 1
MC_PipeCap    == 1
MC_WordBits   == 8
\* A period whose double does not fit the word (2^31 s and up for a u32).
MC_WidePeriod == 128
=============================================================================
