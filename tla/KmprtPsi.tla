------------------------------ MODULE KmprtPsi ------------------------------
(* Multi-party PSI from zero sharing, experiment/psi/kmprt17_mp_psi/          *)
(* kmprt17_mp_psi.cc: every party splits zero into shares, one for each party *)
(* and item, exchanges them by OPPRF (a programmable PRF: the receiver gets  *)
(* the value the sender programmed for its item, or noise), and the leader   *)
(* adds up everyone's sums.  A word is a set of independent summands and XOR *)
(* is symmetric difference.                                                  *)
EXTENDS Integers, Sequences, FiniteSets, FiniteSetsExt

CONSTANTS
  Tasks   \* [proto |-> "kmprt", items: [0 .. n - 1 -> Seq(key)], leader: rank,
          \*  fails: how many hash tables may fail to be built]

VARIABLES task, pc, net, mem

vars == <<task, pc, net, mem>>

Ranks == DOMAIN task.items
Elements(s) == {s[i] : i \in DOMAIN s}
Range0(f) == {f[x] : x \in DOMAIN f}

Word(kind, a, b, x) == {<<kind, a, b, x>>}
XorAll(f) == {w \in UNION Range0(f) : Cardinality({i \in DOMAIN f : w \in f[i]}) % 2 = 1}

\* Run: the greatest size
Count == Max({Len(task.items[p]) : p \in Ranks})

\* EncodeInputs: random items fill the list up to the greatest size
EncodeInputs(p) ==
  Elements(task.items[p]) \cup {100 * (p + 1) + i : i \in Len(task.items[p]) + 1 .. Count}

\* a share of p is drawn for every party, its own included
ZeroSharingAll(p, dst, x) == Word("share", p, dst, x)

\* ZeroSharing: the shares of party 0 are the sum of the others
ZeroSharing(p, dst, x) ==
  IF dst # 0 THEN Word("share", p, dst, x)
  ELSE XorAll([q \in Ranks \ {0} |-> Word("share", p, q, x)])

\* recv_shares has Count entries and is written at every rank: with more parties
\* than items the last writes are outside of it.  The program may die of one,
\* or spoil other data ("undefined"), or go on as if there were room.
Outside == \E p \in Ranks : p >= Count

\* pc[p]: the main thread; mem.swap[p][q]: p's thread for q, as the number of
\* exchanges done, or Failed
Failed == 3
Ended(p, q) == mem.swap[p][q] \in {2, Failed}

Init ==
  /\ task \in Tasks
  /\ pc = [p \in Ranks |-> "gather"]
  /\ net = <<>>
  /\ mem = [swap |-> [p \in Ranks |-> [q \in Ranks |-> 0]],
            got |-> [p \in Ranks |-> [q \in Ranks |-> <<>>]],
            sum |-> [p \in Ranks |-> <<>>],
            out |-> [p \in Ranks |-> {}],
            fails |-> 0]

\* AllGatherItemsSize; a party without items ends the run for all
Gather ==
  /\ \A p \in Ranks : pc[p] = "gather"
  /\ pc' = [p \in Ranks |-> IF \E q \in Ranks : task.items[q] = <<>> THEN "done" ELSE "swap"]
  /\ UNCHANGED <<task, net, mem>>

\* KmprtOpprfSend and KmprtOpprfRecv: value[x] for what the sender programmed
Opprf(src, dst, value, noise) ==
  [x \in EncodeInputs(dst) |->
     IF x \in EncodeInputs(src) THEN value[x] ELSE Word(noise, src, dst, x)]

\* SwapShares: towards a smaller rank a thread first sends and then receives,
\* towards a greater one the other way round
SendsFirst(p, q) == q < p

Meet(src, dst) ==
  /\ src # dst /\ pc[src] = "swap" /\ pc[dst] = "swap"
  /\ mem.swap[src][dst] = (IF SendsFirst(src, dst) THEN 0 ELSE 1)
  /\ mem.swap[dst][src] = (IF SendsFirst(dst, src) THEN 1 ELSE 0)

SwapShares(src, dst) ==
  /\ Meet(src, dst)
  /\ mem' = [mem EXCEPT !.swap = [@ EXCEPT ![src][dst] = @ + 1, ![dst][src] = @ + 1],
                        !.got[dst][src] =
                          Opprf(src, dst, [x \in EncodeInputs(src) |-> ZeroSharing(src, dst, x)], "swap")]
  /\ UNCHANGED <<task, pc, net>>

\* KmprtCuckooHashing::Insert finds no bin for an item of the receiver, whose
\* thread throws
CanFail == mem.fails < task.fails

HashingFails(src, dst) ==
  /\ CanFail /\ Meet(src, dst)
  /\ mem' = [mem EXCEPT !.swap[dst][src] = Failed, !.fails = @ + 1]
  /\ UNCHANGED <<task, pc, net>>

\* kLinkRecvTimeout: what p waits for never comes
RecvTimeout(p, q) ==
  /\ p # q /\ pc[p] = "swap" /\ ~Ended(p, q) /\ mem.swap[q][p] = Failed
  /\ mem' = [mem EXCEPT !.swap[p][q] = Failed]
  /\ UNCHANGED <<task, pc, net>>

\* The main thread joins its threads and adds up the shares; what a thread threw
\* is thrown again, once the others have ended
SumShares(p) ==
  /\ pc[p] = "swap" /\ \A q \in Ranks \ {p} : mem.swap[p][q] = 2
  /\ mem' = [mem EXCEPT
       !.sum[p] = [x \in EncodeInputs(p) |->
                     XorAll([q \in Ranks |-> IF q = p THEN ZeroSharing(p, p, x) ELSE mem.got[p][q][x]])],
       !.got[p] = [q \in Ranks |-> <<>>]]
  /\ pc' = [pc EXCEPT ![p] = "reconstruct"]
  /\ UNCHANGED <<task, net>>

SumOutside(p) ==
  /\ pc[p] = "swap" /\ \A q \in Ranks \ {p} : mem.swap[p][q] = 2
  /\ Outside
  /\ pc' = [pc EXCEPT ![p] = "undefined"]
  /\ UNCHANGED <<task, net, mem>>

Throws(p) ==
  /\ pc[p] = "swap" /\ \A q \in Ranks \ {p} : Ended(p, q)
  /\ \E q \in Ranks \ {p} : mem.swap[p][q] = Failed
  /\ pc' = [pc EXCEPT ![p] = "throw"]
  /\ UNCHANGED <<task, net, mem>>

\* Reconstruct: the sums go to the leader by OPPRF; no item of the others has
\* the sum zero
SendSum(p) ==
  /\ p # task.leader /\ pc[p] = "reconstruct" /\ pc[task.leader] = "reconstruct"
  /\ mem.swap[task.leader][p] # Failed
  /\ mem' = [mem EXCEPT !.got[task.leader][p] = Opprf(p, task.leader, mem.sum[p], "sum"),
                        !.out[p] = {x \in Elements(task.items[p]) : mem.sum[p][x] = {}}]
  /\ pc' = [pc EXCEPT ![p] = "done"]
  /\ UNCHANGED <<task, net>>

\* the leader's thread for p builds no table, or hears nothing from p
LeaderThreadFails(p) ==
  /\ p # task.leader /\ pc[task.leader] = "reconstruct" /\ mem.swap[task.leader][p] # Failed
  /\ \/ CanFail /\ pc[p] = "reconstruct"
     \/ pc[p] \in {"throw", "undefined"}
  /\ mem' = [mem EXCEPT !.swap[task.leader][p] = Failed,
                        !.fails = IF pc[p] = "reconstruct" THEN @ + 1 ELSE @]
  /\ UNCHANGED <<task, pc, net>>

SenderTimeout(p) ==
  /\ p # task.leader /\ pc[p] = "reconstruct"
  /\ \/ pc[task.leader] \in {"throw", "undefined"}
     \/ pc[task.leader] = "reconstruct" /\ mem.swap[task.leader][p] = Failed
  /\ pc' = [pc EXCEPT ![p] = "throw"]
  /\ UNCHANGED <<task, net, mem>>

Reconstruct ==
  LET p == task.leader
      sum(x) == XorAll([q \in Ranks |-> IF q = p THEN mem.sum[p][x] ELSE mem.got[p][q][x]])
  IN
  /\ pc[p] = "reconstruct" /\ \A q \in Ranks \ {p} : pc[q] = "done" \/ mem.swap[p][q] = Failed
  /\ \/ /\ \A q \in Ranks \ {p} : pc[q] = "done"
        /\ mem' = [mem EXCEPT !.out[p] = {x \in Elements(task.items[p]) : sum(x) = {}}]
        /\ pc' = [pc EXCEPT ![p] = "done"]
     \/ /\ \A q \in Ranks \ {p} : pc[q] = "done"
        /\ Outside
        /\ pc' = [pc EXCEPT ![p] = "undefined"]
        /\ UNCHANGED mem
     \/ /\ \E q \in Ranks \ {p} : mem.swap[p][q] = Failed
        /\ pc' = [pc EXCEPT ![p] = "throw"]
        /\ UNCHANGED mem
  /\ UNCHANGED <<task, net>>

Terminated ==
  /\ \A p \in Ranks : pc[p] \in {"done", "throw", "undefined"}
  /\ UNCHANGED vars

Next ==
  \/ Gather \/ Reconstruct
  \/ \E p, q \in Ranks : SwapShares(p, q) \/ HashingFails(p, q) \/ RecvTimeout(p, q)
  \/ \E p \in Ranks :
       SumShares(p) \/ SumOutside(p) \/ Throws(p) \/ SendSum(p) \/ LeaderThreadFails(p) \/ SenderTimeout(p)
  \/ Terminated

Spec == Init /\ [][Next]_vars

-----------------------------------------------------------------------------
\* A leader that ends has what all parties have in common, and the others have
\* nothing: the shares of an item cancel if and only if everyone programmed
\* it, in whatever order the pairwise exchanges happen, which never wait on
\* each other in a circle.  A party throws only if a hash table could not be
\* built somewhere, and the shares fit their vector unless there are more
\* parties than items, when nothing is promised for the party that writes
\* beyond its end (kmprt17_mp_psi.cc:46-161, kmprt17_hashing.cc:45).
KmprtExact ==
  \A p \in Ranks :
    /\ pc[p] = "done" =>
         mem.out[p] = IF p = task.leader
                      THEN {x \in Elements(task.items[p]) : \A q \in Ranks : x \in Elements(task.items[q])}
                      ELSE {}
    /\ pc[p] = "throw" => mem.fails > 0 \/ Cardinality(Ranks) > Count
    /\ pc[p] = "undefined" => Cardinality(Ranks) > Count
=============================================================================
