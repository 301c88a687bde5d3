----------------------------- MODULE MCSyncWait -----------------------------
(* SyncWait with three ranks.  PSI uses two, the code is written for any     *)
(* number, and a third rank is what lets two ranks see different peers.      *)
EXTENDS SyncWait

CONSTANTS r1, r2, r3

MCRanks == {r1, r2, r3}

=============================================================================
