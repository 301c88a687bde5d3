--------------------------- MODULE MCThresholdPsi ---------------------------
(* Tasks on which the result of threshold ECDH-PSI is not what the           *)
(* documentation says: equal inputs, a broadcast result with counts, and a   *)
(* task that is restarted after its first batch.                             *)
EXTENDS ThresholdPsi

Lines(keys, dups) == [i \in DOMAIN keys |-> [key |-> keys[i], dup |-> dups[i]]]

Plain == [proto |-> "threshold", rcv |-> Lines(<<1, 2, 3>>, <<0, 0, 0>>), snd |-> Lines(<<3, 2, 1>>, <<0, 0, 0>>),
          threshold |-> 2, broadcast |-> FALSE, digest |-> TRUE, recovery |-> FALSE, crashes |-> 0]

Counted == [Plain EXCEPT !.rcv = Lines(<<1, 2, 3>>, <<0, 2, 1>>), !.broadcast = TRUE]

Restarted == [Plain EXCEPT !.snd = Lines(<<3, 4>>, <<0, 0>>), !.recovery = TRUE, !.crashes = 1]

MCTasks == {Plain, Counted, Restarted}
=============================================================================
