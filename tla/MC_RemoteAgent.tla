--------------------------- MODULE MC_RemoteAgent ---------------------------
(* Small instances of the remote-miner agent: two work items, one with a  *)
(* difficulty whose boundary and target differ in each direction.          *)
EXTENDS RemoteAgent

CONSTANTS h1, h2, nowork, r1

MCHdrs == {h1, h2}
MCDiff == [h \in Hdrs |-> IF h = h1 THEN 2 ELSE 8]
MCHashSpace == 16
MCShares == {1, 5, 9}
====
