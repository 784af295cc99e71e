-------------------------- MODULE MC_BatchVerifier --------------------------
(* Three headers on two workers, each header valid or not.                 *)
EXTENDS BatchVerifier

CONSTANTS ok, bad, unset

MCVerdicts == {ok, bad}
====
