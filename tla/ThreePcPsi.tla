----------------------------- MODULE ThreePcPsi -----------------------------
(* ECDH-PSI of three parties, algorithm/ecdh/ecdh_3pc_psi.cc, run by         *)
(* legacy/ecdh_3party_psi.cc: a (the calculator) and b (the partner) compute *)
(* the intersection of their masked items for c (the master), whose own      *)
(* items come back to it masked by all three.  Every party runs MaskMaster   *)
(* and PartnersPsi on threads of their own.  An item is a record of its key  *)
(* and the set of parties that masked it.                                    *)
EXTENDS Integers, Sequences, FiniteSets

CONSTANTS
  Tasks,    \* [proto |-> "3pc", items: [{"a", "b", "c"} -> Seq(key)]]
  Batch,    \* kEcdhPsiBatchSize
  Window    \* throttle window of a link

VARIABLES task, pc, net, mem

vars == <<task, pc, net, mem>>

\* Threads, named for the party and what they run
Threads == {"cSend", "cTriple", "cPartners", "aForward", "aMask", "aPeer", "aDual",
            "aMain", "bForward", "bMask", "bShuffle", "cMain"}

\* Links, named for sender, receiver and purpose.  CreateP2PCtx gives each
\* purpose its id; a context sends doubly masked batches on a spawned link.
Links == {"caMaster", "abMaster", "bcMaster", "abMain", "baMain", "baDual", "acPartners"}

Take(s, n) == SubSeq(s, 1, IF n < Len(s) THEN n ELSE Len(s))
Drop(s, n) == SubSeq(s, n + 1, Len(s))
Elements(s) == {s[i] : i \in DOMAIN s}

Perms(n) == {f \in [1 .. n -> 1 .. n] : \A i, j \in 1 .. n : f[i] = f[j] => i = j}
Shuffled(s, f) == [i \in 1 .. Len(s) |-> s[f[i]]]

Plain(keys) == [i \in 1 .. Len(keys) |-> [key |-> keys[i], masks |-> {}]]

\* EccMask: exponents commute
Mask(p, s) == [i \in 1 .. Len(s) |-> [s[i] EXCEPT !.masks = @ \cup {p}]]

\* std::sort of masked items, whose order has nothing to do with their keys
Sorted(s, f) == Shuffled(s, f)

Goto(t, place) == pc' = [pc EXCEPT ![t] = place]

CanSend(l) == Len(net[l]) < Window
Send(l, m) == net' = [net EXCEPT ![l] = Append(@, m)]
Arrived(l) == net[l] # <<>>
Recv(l) == net' = [net EXCEPT ![l] = Tail(@)]

\* OnRun starts the threads; the partner shuffles its items first
Init ==
  /\ task \in Tasks
  /\ pc = [t \in Threads |-> CASE t \in {"aMask", "aPeer", "aDual", "bMask", "bShuffle"} -> "config"
                               [] t = "aMain" -> "calculate"
                               [] t = "cMain" -> "final"
                               [] OTHER -> "run"]
  /\ net = [l \in Links |-> <<>>]
  /\ \E f \in Perms(Len(task.items.b)) :
       mem = [cSend |-> Plain(task.items.c), aMask |-> Plain(task.items.a),
              bMask |-> Shuffled(Plain(task.items.b), f),
              cTriple |-> <<>>, cPartners |-> <<>>, aPeer |-> <<>>, aDual |-> <<>>,
              aMain |-> <<>>, bShuffle |-> <<>>, results |-> <<>>]

-----------------------------------------------------------------------------
(* Loops over batches; the last batch of a stream is empty.                  *)

\* SendImpl and MaskSelf: thread t sends its items, masked by the parties ps
SendStream(t, l, ps) ==
  LET batch == Take(mem[t], Batch) IN
  /\ pc[t] = "run" /\ CanSend(l)
  /\ Send(l, IF ps = {} THEN batch ELSE Mask(CHOOSE p \in ps : TRUE, batch))
  /\ mem' = [mem EXCEPT ![t] = Drop(@, Batch)]
  /\ Goto(t, IF batch = <<>> THEN "done" ELSE "run")
  /\ UNCHANGED task

\* RecvItems, RecvDualMaskedSelf
RecvStream(t, l) ==
  LET batch == Head(net[l]) IN
  /\ pc[t] = "run" /\ Arrived(l) /\ Recv(l)
  /\ mem' = [mem EXCEPT ![t] = @ \o batch]
  /\ Goto(t, IF batch = <<>> THEN "done" ELSE "run")
  /\ UNCHANGED task

\* MaskPeerForward: a batch comes in, is masked, goes on, in order
MaskPeerForward(t, p, from, to) ==
  LET batch == Head(net[from]) IN
  /\ pc[t] = "run" /\ Arrived(from) /\ CanSend(to)
  /\ net' = [net EXCEPT ![from] = Tail(@), ![to] = Append(@, Mask(p, batch))]
  /\ Goto(t, IF batch = <<>> THEN "done" ELSE "run")
  /\ UNCHANGED <<task, mem>>

-----------------------------------------------------------------------------
(* MaskMaster: c's items go around.                                          *)

MaskMaster ==
  \/ SendStream("cSend", "caMaster", {"c"})
  \/ MaskPeerForward("aForward", "a", "caMaster", "abMaster")
  \/ MaskPeerForward("bForward", "b", "abMaster", "bcMaster")
  \/ RecvStream("cTriple", "bcMaster")

-----------------------------------------------------------------------------
(* PartnersPsi of a and b.                                                   *)

\* CheckConfig gathers both configurations; then the threads start
CheckConfig ==
  /\ pc.aMask = "config"
  /\ pc' = [t \in Threads |-> IF pc[t] = "config" THEN "run" ELSE pc[t]]
  /\ UNCHANGED <<task, net, mem>>

\* MaskRecvPeer at a: MaskPeer stores b's items, masked again; b gets none of
\* them back, for the result is a's
MaskRecvPeer ==
  LET batch == Head(net.baMain) IN
  /\ pc.aPeer = "run" /\ Arrived("baMain") /\ Recv("baMain")
  /\ mem' = [mem EXCEPT !.aPeer = @ \o Mask("a", batch)]
  /\ Goto("aPeer", IF batch = <<>> THEN "done" ELSE "run")
  /\ UNCHANGED task

\* MaskShufflePeer at b: all of a's items come in and are masked; sorted, they
\* go back as doubly masked batches
MaskShufflePeer ==
  LET batch == Head(net.abMain) IN
  /\ pc.bShuffle = "run" /\ Arrived("abMain") /\ Recv("abMain")
  /\ IF batch # <<>>
     THEN /\ mem' = [mem EXCEPT !.bShuffle = @ \o Mask("b", batch)]
          /\ UNCHANGED pc
     ELSE /\ \E f \in Perms(Len(mem.bShuffle)) : mem' = [mem EXCEPT !.bShuffle = Sorted(@, f)]
          /\ Goto("bShuffle", "send")
  /\ UNCHANGED task

SendDupMasked ==
  LET batch == Take(mem.bShuffle, Batch) IN
  /\ pc.bShuffle = "send" /\ CanSend("baDual")
  /\ Send("baDual", batch)
  /\ mem' = [mem EXCEPT !.bShuffle = Drop(@, Batch)]
  /\ Goto("bShuffle", IF batch = <<>> THEN "done" ELSE "send")
  /\ UNCHANGED task

\* a's main thread: set_intersection of both sorted lists, for the master
PartnersIntersection ==
  /\ pc.aMain = "calculate"
  /\ \A t \in {"aMask", "aPeer", "aDual"} : pc[t] = "done"
  /\ LET common == SelectSeq(mem.aDual, LAMBDA x : x \in Elements(mem.aPeer)) IN
     \E f \in Perms(Len(common)) : mem' = [mem EXCEPT !.aMain = Sorted(common, f)]
  /\ Goto("aMain", "run") /\ UNCHANGED <<task, net>>

PartnersPsi ==
  \/ CheckConfig
  \/ SendStream("aMask", "abMain", {"a"}) \/ SendStream("bMask", "baMain", {"b"})
  \/ MaskRecvPeer \/ MaskShufflePeer \/ SendDupMasked
  \/ RecvStream("aDual", "baDual")
  \/ PartnersIntersection
  \/ SendStream("aMain", "acPartners", {})
  \/ RecvStream("cPartners", "acPartners")

-----------------------------------------------------------------------------
\* the master's items are looked up by what it masked only once more
FinalHitsUnmasked(i) == mem.cTriple[i] \in Elements(mem.cPartners)

\* FinalPsi: the i-th item that came back is the i-th that was sent
FinalHits(i) == mem.cTriple[i] \in Elements(Mask("c", mem.cPartners))

FinalPsi ==
  /\ pc.cMain = "final"
  /\ \A t \in {"cSend", "cTriple", "cPartners"} : pc[t] = "done"
  /\ LET hits == SelectSeq([i \in 1 .. Len(mem.cTriple) |-> i], FinalHits) IN
     mem' = [mem EXCEPT !.results = [i \in 1 .. Len(hits) |-> task.items.c[hits[i]]]]
  /\ Goto("cMain", "done") /\ UNCHANGED <<task, net>>

Terminated == \A t \in Threads : pc[t] = "done" /\ UNCHANGED vars

Next == MaskMaster \/ PartnersPsi \/ FinalPsi \/ Terminated

Spec == Init /\ [][Next]_vars

-----------------------------------------------------------------------------
\* The master finds exactly its items that both partners have, in its own
\* order, though the partners' items are shuffled and sorted on the way, and
\* its own return through two other parties (ecdh_3pc_psi.cc:323-349).
ThreePcExact ==
  pc.cMain = "done" =>
    mem.results = SelectSeq(task.items.c, LAMBDA k : /\ k \in Elements(task.items.a)
                                                     /\ k \in Elements(task.items.b))
=============================================================================
