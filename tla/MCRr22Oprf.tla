----------------------------- MODULE MCRr22Oprf -----------------------------
(* The OPRF of RR22 in low_comm_mode, with item counts that are not whole    *)
(* blocks of the decoder.                                                    *)
EXTENDS Rr22Oprf

Low(b, w, lo, hi) == [bin |-> b, words |-> w, dense |-> [lo |-> lo, hi |-> hi]]
LowHash == <<Low(0, <<0, 1, 1>>, {0}, {1}), Low(1, <<4, 3, 2>>, {1}, {0}),
             Low(0, <<6, 5, 0>>, {}, {0, 1}), Low(2, <<2, 2, 2>>, {0, 1}, {})>>

\* The common item 2 is in the tail at the receiver and in a block of two at
\* the sender.
MCTasks ==
  {[proto |-> "rr22", mode |-> "lowcomm", malicious |-> FALSE,
    items |-> [rcv |-> <<2>>, snd |-> <<2, 1, 3, 4>>], hash |-> LowHash,
    bins |-> 1, threads |-> 1, sparse |-> sp, dense |-> 2, gap |-> 2,
    perThread |-> 4, perBin |-> 4] : sp \in {3, 4, 5}}
=============================================================================
