---------------------------- MODULE MC_AISealer ----------------------------
(* Model-checking instance of AISealer: two PoW workers (so a second      *)
(* worker can be left blocked on the found send when the first one wins)  *)
(* and two update restarts (so an old AI driver and an old set of workers *)
(* can be outlived by a newer generation).                                *)
EXTENDS AISealer

MCNumCPU     == 2
MCMaxUpdates == 2
=============================================================================
