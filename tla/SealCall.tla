------------------------------ MODULE SealCall ------------------------------
(***************************************************************************)
(* What one call of Amhash.Seal (src/consensus/amhash/sealer.go) promises  *)
(* its caller, the miner's worker: the call settles on one outcome and     *)
(* keeps it; it returns (nil, nil), "stopped", only once the caller has    *)
(* closed stop; it returns only after it has settled; and once stop is     *)
(* closed it does settle and return.                                       *)
(***************************************************************************)

CONSTANTS NoOutcome   \* the call has not settled yet

Decisions == {"stopped", "failed", "sealed"}

VARIABLES
    stop,       \* the caller has closed its stop channel
    outcome,    \* what the call will return, or NoOutcome
    returned    \* the call has returned

sealVars == <<stop, outcome, returned>>

Init ==
    /\ stop = FALSE
    /\ outcome = NoOutcome
    /\ returned = FALSE

(* The caller closes stop, at any time.                                    *)
CallerStop ==
    /\ ~stop
    /\ stop' = TRUE
    /\ UNCHANGED <<outcome, returned>>

(* The call settles on o; a "stopped" result needs a closed stop. A select *)
(* case that returns at once also returns in the same step.                *)
Decide(o) ==
    /\ outcome = NoOutcome
    /\ o = "stopped" => stop
    /\ outcome' = o
    /\ returned' \in BOOLEAN
    /\ UNCHANGED stop

(* The call returns what it settled on.                                    *)
Return ==
    /\ outcome # NoOutcome
    /\ ~returned
    /\ returned' = TRUE
    /\ UNCHANGED <<stop, outcome>>

Next == CallerStop \/ (\E o \in Decisions : Decide(o)) \/ Return

(* Once stop is closed the call settles, and a settled call returns.       *)
Spec ==
    /\ Init /\ [][Next]_sealVars
    /\ WF_sealVars(stop /\ \E o \in Decisions : Decide(o))
    /\ WF_sealVars(Return)
====
