--------------------------- MODULE MC_Difficulty ---------------------------
(* Difficulty on headers around the three fork rules: a Frontier parent,  *)
(* a Homestead parent and a Byzantium parent 3 ice-age periods in, with    *)
(* difficulties on both sides of DifficultyBoundDivisor.                   *)
EXTENDS Difficulty

MCNumbers == {5, 2000, 3299999}
MCDiffs == {1000, 3000}
MCDeltas == {1, 1000}
MCMins == {950}
====
