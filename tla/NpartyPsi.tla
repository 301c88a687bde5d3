------------------------------ MODULE NpartyPsi -----------------------------
(* PSI of n parties by rounds of two-party PSI, legacy/nparty_psi.cc.  In    *)
(* each round the i-th party of the vector, the master first and the others  *)
(* by size, runs a two-party PSI with the i-th from the end, which then      *)
(* drops out and waits for the master's finish message.                      *)
EXTENDS Integers, Sequences, FiniteSets, SequencesExt

CONSTANTS
  Tasks   \* [proto |-> "nparty", items: [0 .. n - 1 -> SUBSET key], master: rank]

VARIABLES task, pc, net, mem

vars == <<task, pc, net, mem>>

Ranks == DOMAIN task.items

Goto(p, place) == pc' = [pc EXCEPT ![p] = place]

\* mem: each party's vector of ranks, its intersection and its return value
Init ==
  /\ task \in Tasks
  /\ pc = [p \in Ranks |-> "gather"]
  /\ net = [p \in Ranks |-> FALSE]
  /\ mem = [vec |-> [p \in Ranks |-> <<>>], inter |-> task.items,
            out |-> [p \in Ranks |-> {}]]

\* std::sort of the pairs of size and rank, the master apart
Before(p, q) == \/ Cardinality(task.items[p]) < Cardinality(task.items[q])
                \/ Cardinality(task.items[p]) = Cardinality(task.items[q]) /\ p < q

PartySizeRankVec == <<task.master>> \o SetToSortSeq(Ranks \ {task.master}, Before)

\* GetAllPartyItemSizeVec, and the early return if the master's or the least
\* size is zero
GetAllPartyItemSizeVec ==
  /\ \A p \in Ranks : pc[p] = "gather"
  /\ mem' = [mem EXCEPT !.vec = [p \in Ranks |-> PartySizeRankVec]]
  /\ pc' = [p \in Ranks |-> IF \E i \in {1, 2} : task.items[PartySizeRankVec[i]] = {}
                            THEN "done" ELSE "psi"]
  /\ UNCHANGED <<task, net>>

Place(p, vec) == CHOOSE i \in DOMAIN vec : vec[i] = p

\* GetPsiRank: the peer of p, or p itself if it has the middle of an odd vector
PeerRank(p, vec) == vec[Len(vec) + 1 - Place(p, vec)]
TargetRank(p, vec) == IF Place(p, vec) <= Len(vec) \div 2 THEN p ELSE PeerRank(p, vec)

\* the party without a peer is erased too
ErasePosShort(vec) == Len(vec) \div 2

\* how many stay
ErasePos(vec) == (Len(vec) + 1) \div 2

AfterPsi(p, vec) == IF Place(p, vec) > ErasePos(vec) THEN "finish" ELSE "sizes"

\* Run2PartyPsi of p, the target, and its peer q; the protocol is one of the
\* two-party ones.  The erased party waits for the master.
Run2PartyPsi(p, q) ==
  /\ p # q /\ pc[p] = "psi" /\ pc[q] = "psi"
  /\ PeerRank(p, mem.vec[p]) = q /\ PeerRank(q, mem.vec[q]) = p
  /\ TargetRank(p, mem.vec[p]) = p /\ TargetRank(q, mem.vec[q]) = p
  /\ mem' = [mem EXCEPT !.inter = [@ EXCEPT ![p] = @ \cap mem.inter[q], ![q] = {}]]
  /\ pc' = [pc EXCEPT ![p] = AfterPsi(p, mem.vec[p]), ![q] = AfterPsi(q, mem.vec[q])]
  /\ UNCHANGED <<task, net>>

NoPeer(p) ==
  /\ pc[p] = "psi" /\ PeerRank(p, mem.vec[p]) = p
  /\ Goto(p, AfterPsi(p, mem.vec[p])) /\ UNCHANGED <<task, net, mem>>

\* Those left gather their sizes in a sub-world of their own.  If someone's
\* intersection is empty or the master is alone, the finish message goes out.
GatherSizes(p) ==
  LET vec == SubSeq(mem.vec[p], 1, ErasePos(mem.vec[p]))
      all == {vec[i] : i \in DOMAIN vec}
      end == Len(vec) = 1 \/ \E q \in all : mem.inter[q] = {}
  IN
  /\ p = task.master
  /\ \A q \in all : pc[q] = "sizes" /\ SubSeq(mem.vec[q], 1, ErasePos(mem.vec[q])) = vec
  /\ IF end
     THEN /\ pc' = [q \in Ranks |-> IF q = p THEN "done" ELSE IF q \in all THEN "finish" ELSE pc[q]]
          /\ net' = [q \in Ranks |-> q # p]
          /\ mem' = [mem EXCEPT !.out[p] = IF \E q \in all : mem.inter[q] = {} THEN {} ELSE mem.inter[p]]
     ELSE /\ pc' = [q \in Ranks |-> IF q \in all THEN "psi" ELSE pc[q]]
          /\ mem' = [mem EXCEPT !.vec = [q \in Ranks |-> IF q \in all THEN vec ELSE @[q]]]
          /\ UNCHANGED net
  /\ UNCHANGED task

\* Broadcast at the others
RecvFinish(p) ==
  /\ pc[p] = "finish" /\ net[p]
  /\ net' = [net EXCEPT ![p] = FALSE]
  /\ Goto(p, "done") /\ UNCHANGED <<task, mem>>

Terminated == \A p \in Ranks : pc[p] = "done" /\ UNCHANGED vars

Next ==
  \/ GetAllPartyItemSizeVec
  \/ \E p, q \in Ranks : Run2PartyPsi(p, q)
  \/ \E p \in Ranks : NoPeer(p) \/ GatherSizes(p) \/ RecvFinish(p)
  \/ Terminated

Spec == Init /\ [][Next]_vars

-----------------------------------------------------------------------------
\* The master ends with what all parties have in common, the others with
\* nothing, for every number of parties, odd rounds included
\* (nparty_psi.cc:60-156, 215-246).
NpartyExact ==
  \A p \in Ranks : pc[p] = "done" =>
    mem.out[p] = IF p = task.master
                 THEN {x \in task.items[p] : \A q \in Ranks : x \in task.items[q]}
                 ELSE {}
=============================================================================
