---------------------------- MODULE BatchResults ----------------------------
(***************************************************************************)
(* What VerifyHeaders (src/consensus/amhash/consensus.go) promises its     *)
(* caller: the verdicts of the N headers come out on the results channel   *)
(* one at a time, in the order of the headers; unless the caller closes    *)
(* abort, all N come out.                                                  *)
(***************************************************************************)
EXTENDS Naturals, Sequences

CONSTANTS N, Verdicts

Idx == 0 .. N - 1

VARIABLES
    verdict,      \* verdict[i]: what verifying header i yields
    results,      \* the verdicts delivered on the results channel
    aborted       \* the caller has closed abort

absVars == <<verdict, results, aborted>>

Init ==
    /\ verdict \in [Idx -> Verdicts]
    /\ results = <<>>
    /\ aborted = FALSE

(* The next header's verdict is delivered.                                 *)
Deliver ==
    /\ Len(results) < N
    /\ results' = Append(results, verdict[Len(results)])
    /\ UNCHANGED <<verdict, aborted>>

(* The caller gives up on the batch.                                       *)
Abort ==
    /\ ~aborted
    /\ aborted' = TRUE
    /\ UNCHANGED <<verdict, results>>

Next == Deliver \/ Abort

(* Delivery goes on until all N verdicts are out, unless aborted.          *)
Spec == Init /\ [][Next]_absVars /\ WF_absVars(~aborted /\ Deliver)
====
