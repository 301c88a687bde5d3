----------------------------- MODULE Rendezvous -----------------------------
(* What SyncWait (psi/utils/sync.h) promises to its callers: every rank runs *)
(* a function of its own, and no rank gets past the call before the function *)
(* has returned at every rank.  PSI parties put this call around each stage  *)
(* that takes long (reading the keys, Online, PostProcess, Finalize).        *)

CONSTANT Ranks

VARIABLES finished,   \* ranks whose function has returned
          returned    \* ranks that have left the call

vars == <<finished, returned>>

Init ==
  /\ finished = {}
  /\ returned = {}

Finish(r) ==
  /\ finished' = finished \cup {r}
  /\ UNCHANGED returned

Return(r) ==
  /\ finished = Ranks
  /\ returned' = returned \cup {r}
  /\ UNCHANGED finished

Next == \E r \in Ranks : Finish(r) \/ Return(r)

Spec == Init /\ [][Next]_vars

=============================================================================
